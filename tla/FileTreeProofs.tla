--------------------------- MODULE FileTreeProofs ---------------------------
(***************************************************************************)
(* Proofs about the calls on a tree of files (FileTree), as Library        *)
(* instantiates it: any finite tree, any number of threads and any calls.  *)
(***************************************************************************)
EXTENDS Library, FiniteSetTheorems, TLAPS

Prefix(q, p) == Files!IsPrefix(q, p)

-----------------------------------------------------------------------------
(* Paths.                                                                  *)

LEMMA PathLength ==
  ASSUME NEW p \in TreePath
  PROVE  p \in Seq(FileName) /\ Len(p) \in Nat \ {0}
  BY TreeAssumption

LEMMA PrefixIs ==
  ASSUME NEW p \in TreePath, NEW q \in TreePath
  PROVE  Prefix(q, p) <=> Len(q) <= Len(p) /\ \A i \in 1 .. Len(q) : q[i] = p[i]
  <1>1. p \in Seq(FileName) /\ q \in Seq(FileName)
    BY PathLength
  <1>2. Len(q) <= Len(p) => SubSeq(p, 1, Len(q)) \in Seq(FileName) /\ Len(SubSeq(p, 1, Len(q))) = Len(q)
    BY <1>1
  <1>3. Len(q) <= Len(p) => \A i \in 1 .. Len(q) : SubSeq(p, 1, Len(q))[i] = p[i]
    BY <1>1
  <1>4. SubSeq(q, 1, Len(q)) = q
    BY <1>1
  <1>5. Len(q) <= Len(p) /\ (\A i \in 1 .. Len(q) : q[i] = p[i]) => SubSeq(p, 1, Len(q)) = q
    BY <1>1, <1>2, <1>3
  <1> QED BY <1>3, <1>4, <1>5 DEF Prefix, Files!IsPrefix

LEMMA PrefixOrder ==
  /\ \A p \in TreePath : Prefix(p, p)
  /\ \A p, q, r \in TreePath : Prefix(p, q) /\ Prefix(q, r) => Prefix(p, r)
  /\ \A p, q \in TreePath : Prefix(p, q) /\ p # q => Len(p) < Len(q)
  /\ \A p, q, r \in TreePath : Prefix(p, r) /\ Prefix(q, r) /\ Len(p) <= Len(q) => Prefix(p, q)
  /\ \A p, q, r \in TreePath : Prefix(p, r) /\ Prefix(q, r) /\ Len(p) = Len(q) => p = q
  <1> USE PathLength
  <1>1. \A p \in TreePath : Prefix(p, p)
    BY PrefixIs
  <1>2. \A p, q, r \in TreePath : Prefix(p, q) /\ Prefix(q, r) => Prefix(p, r)
    <2> SUFFICES ASSUME NEW p \in TreePath, NEW q \in TreePath, NEW r \in TreePath, Prefix(p, q), Prefix(q, r)
                 PROVE  Prefix(p, r)
      OBVIOUS
    <2>1. Len(p) <= Len(q) /\ Len(q) <= Len(r) /\ Len(p) \in Nat /\ Len(q) \in Nat /\ Len(r) \in Nat
      BY PrefixIs
    <2>2. \A i \in 1 .. Len(p) : p[i] = q[i]
      BY PrefixIs
    <2>3. \A i \in 1 .. Len(q) : q[i] = r[i]
      BY PrefixIs
    <2>4. \A i \in 1 .. Len(p) : p[i] = r[i]
      BY <2>1, <2>2, <2>3
    <2> QED BY <2>1, <2>4, PrefixIs
  <1>3. \A p, q \in TreePath : Prefix(p, q) /\ Len(p) = Len(q) => p = q
    <2> SUFFICES ASSUME NEW p \in TreePath, NEW q \in TreePath, Prefix(p, q), Len(p) = Len(q)
                 PROVE  p = q
      OBVIOUS
    <2>1. \A i \in 1 .. Len(p) : p[i] = q[i]
      BY PrefixIs
    <2>2. p \in Seq(FileName) /\ q \in Seq(FileName)
      OBVIOUS
    <2> QED BY <2>1, <2>2
  <1>4. \A p, q \in TreePath : Prefix(p, q) /\ p # q => Len(p) < Len(q)
    BY <1>3, PrefixIs
  <1>5. \A p, q, r \in TreePath : Prefix(p, r) /\ Prefix(q, r) /\ Len(p) <= Len(q) => Prefix(p, q)
    <2> SUFFICES ASSUME NEW p \in TreePath, NEW q \in TreePath, NEW r \in TreePath,
                        Prefix(p, r), Prefix(q, r), Len(p) <= Len(q)
                 PROVE  Prefix(p, q)
      OBVIOUS
    <2>1. \A i \in 1 .. Len(p) : p[i] = r[i]
      BY PrefixIs
    <2>2. \A i \in 1 .. Len(q) : q[i] = r[i]
      BY PrefixIs
    <2>3. \A i \in 1 .. Len(p) : p[i] = q[i]
      BY <2>1, <2>2
    <2> QED BY <2>3, PrefixIs
  <1> QED BY <1>1, <1>2, <1>3, <1>4, <1>5

LEMMA UpTo ==
  ASSUME NEW p \in TreePath, NEW n \in 1 .. Len(p)
  PROVE  SubSeq(p, 1, n) \in TreePath /\ Len(SubSeq(p, 1, n)) = n /\ Prefix(SubSeq(p, 1, n), p)
  <1>1. SubSeq(p, 1, n) \in TreePath
    BY TreeAssumption
  <1>2. p \in Seq(FileName) /\ n \in Nat
    BY PathLength
  <1>3. SubSeq(p, 1, n) \in Seq(FileName) /\ Len(SubSeq(p, 1, n)) = n
    BY <1>2
  <1>4. \A i \in 1 .. n : SubSeq(p, 1, n)[i] = p[i]
    BY <1>2
  <1>5. n <= Len(p)
    OBVIOUS
  <1> QED BY <1>1, <1>3, <1>4, <1>5, PrefixIs

(* What stands directly below a path, whether it exists or not.            *)
Kids(d) == {q \in TreePath : Prefix(d, q) /\ Len(q) = Len(d) + 1}

LEMMA OnTheWay ==
  ASSUME NEW d \in TreePath, NEW q \in TreePath, Prefix(d, q), d # q
  PROVE  \E c \in Kids(d) : Prefix(c, q)
  <1> DEFINE c == SubSeq(q, 1, Len(d) + 1)
  <1>1. Len(d) + 1 \in 1 .. Len(q)
    BY PrefixOrder, PathLength
  <1>2. c \in TreePath /\ Len(c) = Len(d) + 1 /\ Prefix(c, q)
    BY <1>1, UpTo
  <1> HIDE DEF c
  <1>3. Prefix(d, c)
    BY <1>2, PrefixOrder, PathLength
  <1> QED BY <1>2, <1>3 DEF Kids

LEMMA AboveBelow ==
  ASSUME NEW p \in TreePath
  PROVE  /\ Files!Above(p) = {q \in TreePath : q # p /\ Prefix(q, p)}
         /\ Files!Below(p) = {q \in TreePath : q # p /\ Prefix(p, q)}
         /\ Files!Children(p) = {q \in Kids(p) : fsTree[q] # "none"}
  <1>1. /\ Files!Above(p) = {q \in TreePath : q # p /\ Prefix(q, p)}
        /\ Files!Below(p) = {q \in TreePath : q # p /\ Prefix(p, q)}
    BY DEF Files!Above, Files!Below, Prefix
  <1>2. \A q \in TreePath : Len(q) = Len(p) + 1 => q # p
    BY PathLength
  <1> QED BY <1>1, <1>2 DEF Files!Children, Kids

-----------------------------------------------------------------------------
(* The inductive invariant.                                                *)

Frames == [dir : TreePath, left : SUBSET TreePath]
Kinds == {"none", "dir", "file"}

RecordsOver(names, stacks) ==
  [op : {"none", "create_parents", "delete", "rmdir", "collect", "open_write"},
   path : names,
   pc : {"idle", "fopen", "access", "is_dir", "mkdir", "opendir", "readdir", "stat", "remove", "rmdir", "done"},
   at : names, stack : stacks, pass : {"count", "write"}, count : Nat,
   list : SUBSET TreePath, answer : {"none", "NONE", "ALREADY_EXISTS", "error"}]

CallRecords == RecordsOver(Seq(FileName), Seq(Frames))

(* A walk in path with these frames open, and with the paths of cur under  *)
(* work in the last one (in path itself, when none is open).               *)
Walk(path, stack, cur) ==
  /\ stack # << >> => stack[1].dir = path
  /\ \A k \in 1 .. Len(stack) : stack[k].left \subseteq Kids(stack[k].dir)
  /\ \A k \in 1 .. Len(stack) : \A j \in 1 .. k : Prefix(stack[j].dir, stack[k].dir)
  /\ \A k \in 1 .. Len(stack) - 1 : stack[k + 1].dir \in Kids(stack[k].dir) \ stack[k].left
  /\ \A a \in cur : IF stack = << >> THEN a = path
                     ELSE a \in Kids(stack[Len(stack)].dir) \ stack[Len(stack)].left

Cur(c) == IF c.pc = "readdir" THEN {} ELSE {c.at}

(* Where the calls of each kind may be.                                    *)
Upward(c) ==
  /\ c.pc \in {"access", "is_dir", "mkdir", "done"}
  /\ c.at \in TreePath /\ Prefix(c.at, c.path)

Walking(c) ==
  /\ c.pc \in {"opendir", "readdir", "stat", "done"} \union IF c.op = "delete" THEN {"remove", "rmdir"} ELSE {}
  /\ c.pc # "done" =>
       /\ c.at \in TreePath
       /\ Walk(c.path, c.stack, Cur(c))
       /\ c.pc \in {"readdir", "stat", "remove"} => c.stack # << >>

Placed(c) ==
  /\ c.op = "none" <=> c.pc = "idle"
  /\ c.op # "none" => c.path \in TreePath
  /\ c.op = "create_parents" => Upward(c)
  /\ c.op \in {"delete", "collect"} => Walking(c)
  /\ c.op = "rmdir" => c.pc = "done" \/ (c.pc = "rmdir" /\ c.at = c.path /\ c.stack = << >>)
  /\ c.op = "open_write" => c.pc \in {"fopen", "done"} /\ c.at \in TreePath

Shapes ==
  /\ fsTree \in [TreePath -> Kinds] /\ Files!IsTree(fsTree)
  /\ fsFirst \in [TreePath -> Kinds] /\ Files!IsTree(fsFirst)
  /\ fsCall \in [Thread -> CallRecords]
  /\ \A t \in Thread : Placed(fsCall[t])

(* The calls made so far.                                                  *)
Calm(ops) == \A t \in Thread : fsCall[t].op \in ops \union {"none"}

NoFile(tree, path, n) == \A q \in TreePath : Prefix(q, path) /\ Len(q) > n => tree[q] # "file"

Climbed(tree, c) ==
  /\ c.pc = "access" => NoFile(tree, c.path, Len(c.at))
  /\ c.pc = "is_dir" => NoFile(tree, c.path, Len(c.at)) /\ tree[c.at] # "none"
  /\ c.pc = "mkdir" =>
       /\ NoFile(tree, c.path, Len(c.at) - 1)
       /\ \A q \in TreePath : q # c.at /\ Prefix(q, c.at) => tree[q] = "dir"
  /\ c.pc = "done" =>
       IF c.answer = "NONE" THEN tree[c.path] = "dir" ELSE ~NoFile(tree, c.path, 0)

Created ==
  Calm({"create_parents", "collect"}) =>
    \A t \in Thread : fsCall[t].op = "create_parents" => Climbed(fsTree, fsCall[t])

(* What exists in the open directories is yet to be read, or under work.   *)
Swept(tree, stack, cur) ==
  \A k \in 1 .. Len(stack) : \A q \in Kids(stack[k].dir) :
    tree[q] # "none" =>
      \/ q \in stack[k].left
      \/ k < Len(stack) /\ q = stack[k + 1].dir
      \/ k = Len(stack) /\ q \in cur

(* What is walked was there in the beginning.                              *)
Known(old, stack) ==
  \A k \in 1 .. Len(stack) :
    old[stack[k].dir] = "dir" /\ \A q \in stack[k].left : old[q] # "none"

Clearing(tree, old, c) ==
  /\ c.pc # "done" => Swept(tree, c.stack, Cur(c)) /\ Known(old, c.stack)
  /\ c.pc \in {"stat", "remove"} => old[c.at] # "none"
  /\ c.pc = "remove" => tree[c.at] # "dir"
  /\ c.pc \in {"opendir", "rmdir"} /\ old[c.path] = "dir" => old[c.at] = "dir"
  /\ c.pc = "rmdir" => \A q \in Kids(c.at) : tree[q] = "none"
  /\ c.pc = "done" =>
       /\ c.answer = "NONE" => tree[c.path] = "none"
       /\ old[c.path] = "dir" => c.answer = "NONE"

Asked(p) == \E u \in Thread : fsCall[u].op \in {"delete", "rmdir"} /\ Prefix(fsCall[u].path, p)

Deleted ==
  Calm({"delete", "rmdir", "collect"}) =>
    /\ \A p \in TreePath : fsTree[p] # fsFirst[p] => fsTree[p] = "none" /\ Asked(p)
    /\ \A t \in Thread : fsCall[t].op = "delete" => Clearing(fsTree, fsFirst, fsCall[t])

(* What a collection has yet to visit.                                     *)
There(tree, p) == {q \in TreePath : tree[q] # "none" /\ Prefix(p, q)}
Covered(tree, stack) == UNION {UNION {There(tree, l) : l \in stack[k].left} : k \in 1 .. Len(stack)}

Remaining(tree, c) ==
  Covered(tree, c.stack) \union
    (IF c.pc = "stat" THEN There(tree, c.at) ELSE IF c.pc = "opendir" THEN There(tree, c.at) \ {c.at} ELSE {})

Existing(tree, stack) == \A k \in 1 .. Len(stack) : \A l \in stack[k].left : tree[l] # "none"

(* What is counted or listed, with rest to come.                           *)
Tally(tree, c, rest) ==
  LET all == There(tree, c.path) \ {c.path}
  IN  /\ rest \subseteq all
      /\ c.pass = "count" => c.count + Cardinality(rest) = Cardinality(all) /\ c.list = {}
      /\ c.pass = "write" => c.count = Cardinality(all) /\ c.list = all \ rest

Counting(tree, c) ==
  IF c.pc = "done"
    THEN c.count = Cardinality(There(tree, c.path) \ {c.path}) /\ c.list = There(tree, c.path) \ {c.path}
    ELSE /\ Tally(tree, c, Remaining(tree, c))
         /\ Existing(tree, c.stack)
         /\ c.pc = "stat" => tree[c.at] # "none"
         /\ c.pc = "opendir" /\ c.stack # << >> => tree[c.at] = "dir"

Counted ==
  Calm({"collect"}) => \A t \in Thread : fsCall[t].op = "collect" => Counting(fsTree, fsCall[t])

-----------------------------------------------------------------------------
(* Stacks.                                                                 *)

LEMMA Pushed ==
  ASSUME NEW s \in Seq(Frames), NEW f \in Frames
  PROVE  /\ Append(s, f) \in Seq(Frames) /\ Append(s, f) # << >>
         /\ Len(Append(s, f)) = Len(s) + 1
         /\ \A i \in 1 .. Len(s) : Append(s, f)[i] = s[i]
         /\ Append(s, f)[Len(s) + 1] = f
  OBVIOUS

LEMMA Popped ==
  ASSUME NEW s \in Seq(Frames), s # << >>
  PROVE  /\ Files!Front(s) \in Seq(Frames)
         /\ Len(Files!Front(s)) = Len(s) - 1
         /\ \A i \in 1 .. Len(s) - 1 : Files!Front(s)[i] = s[i]
         /\ Len(s) \in Nat \ {0}
         /\ Files!Last(s) = s[Len(s)] /\ s[Len(s)] \in Frames
  <1>1. Len(s) \in Nat \ {0}
    OBVIOUS
  <1> DEFINE n == Len(s) - 1
  <1>2. n \in Nat /\ n <= Len(s)
    BY <1>1
  <1> HIDE DEF n
  <1>3. \A i \in 1 .. n : SubSeq(s, 1, n)[i] = s[i]
    BY <1>2
  <1>4. SubSeq(s, 1, n) \in Seq(Frames)
    BY <1>2
  <1>5. Len(SubSeq(s, 1, n)) = n
    BY <1>2
  <1>6. SubSeq(s, 1, Len(s) - 1) \in Seq(Frames) /\ Len(SubSeq(s, 1, Len(s) - 1)) = Len(s) - 1
    BY <1>4, <1>5 DEF n
  <1>7. \A i \in 1 .. Len(s) - 1 : SubSeq(s, 1, Len(s) - 1)[i] = s[i]
    BY <1>3 DEF n
  <1>8. Files!Front(s) = SubSeq(s, 1, Len(s) - 1) /\ Files!Last(s) = s[Len(s)]
    BY DEF Files!Front, Files!Last
  <1>9. s[Len(s)] \in Frames
    BY <1>1
  <1> QED BY <1>1, <1>6, <1>7, <1>8, <1>9

LEMMA Replaced ==
  ASSUME NEW s \in Seq(Frames), s # << >>, NEW f \in Frames
  PROVE  /\ Append(Files!Front(s), f) \in Seq(Frames) /\ Append(Files!Front(s), f) # << >>
         /\ Len(Append(Files!Front(s), f)) = Len(s)
         /\ \A i \in 1 .. Len(s) - 1 : Append(Files!Front(s), f)[i] = s[i]
         /\ Append(Files!Front(s), f)[Len(s)] = f
  <1> DEFINE r == Files!Front(s)
  <1>1. r \in Seq(Frames) /\ Len(r) = Len(s) - 1 /\ (\A i \in 1 .. Len(s) - 1 : r[i] = s[i]) /\ Len(s) \in Nat \ {0}
    BY Popped
  <1> HIDE DEF r
  <1>2. /\ Append(r, f) \in Seq(Frames) /\ Append(r, f) # << >>
        /\ Len(Append(r, f)) = Len(r) + 1
        /\ Append(r, f)[Len(r) + 1] = f
    BY <1>1, Pushed
  <1>3. \A i \in 1 .. Len(r) : Append(r, f)[i] = r[i]
    BY <1>1, Pushed
  <1> QED BY <1>1, <1>2, <1>3 DEF r

(* How the walk's steps keep its shape.                                    *)
LEMMA WalkStart ==
  ASSUME NEW p \in TreePath
  PROVE  Walk(p, << >>, {p})
  BY DEF Walk

LEMMA WalkRest ==
  ASSUME NEW path, NEW s, NEW cur, Walk(path, s, cur)
  PROVE  Walk(path, s, {})
  BY DEF Walk

LEMMA WalkPush ==
  ASSUME NEW path \in TreePath, NEW s \in Seq(Frames), NEW p \in TreePath, Walk(path, s, {p}),
         NEW left \in SUBSET Kids(p)
  PROVE  /\ Append(s, [dir |-> p, left |-> left]) \in Seq(Frames)
         /\ Append(s, [dir |-> p, left |-> left]) # << >>
         /\ Walk(path, Append(s, [dir |-> p, left |-> left]), {})
  <1> DEFINE f == [dir |-> p, left |-> left]
             r == Append(s, f)
             n == Len(s)
  <1>1. f \in Frames
    BY DEF Frames, Kids
  <1>2. f.dir = p /\ f.left = left
    OBVIOUS
  <1> HIDE DEF f
  <1>3. /\ r \in Seq(Frames) /\ r # << >> /\ Len(r) = n + 1
        /\ r[n + 1] = f
    BY <1>1, Pushed
  <1>4. \A i \in 1 .. n : r[i] = s[i]
    BY <1>1, Pushed
  <1>5. n \in Nat
    OBVIOUS
  <1>6. s = << >> <=> n = 0
    OBVIOUS
  <1>7. n # 0 => s[n] \in Frames /\ p \in Kids(s[n].dir) \ s[n].left
    BY <1>5, <1>6 DEF Walk
  <1>8. n = 0 => p = path
    BY <1>6 DEF Walk
  <1> HIDE DEF r, n
  <1>9. r[1].dir = path
    <2>1. n # 0 => s[1].dir = path
      BY <1>6 DEF Walk
    <2> QED BY <1>2, <1>3, <1>4, <1>5, <1>8, <2>1
  <1>10. \A k \in 1 .. Len(r) : r[k].left \subseteq Kids(r[k].dir)
    BY <1>2, <1>3, <1>4, <1>5 DEF Walk, n
  <1>11. \A k \in 1 .. Len(r) : \A j \in 1 .. k : Prefix(r[j].dir, r[k].dir)
    <2> SUFFICES ASSUME NEW k \in 1 .. Len(r), NEW j \in 1 .. k
                 PROVE  Prefix(r[j].dir, r[k].dir)
      OBVIOUS
    <2>1. CASE k \in 1 .. n
      BY <1>4, <1>5, <2>1 DEF Walk, n
    <2>2. CASE k = n + 1 /\ j = n + 1
      BY <1>2, <1>3, <2>2, PrefixOrder
    <2>3. CASE k = n + 1 /\ j \in 1 .. n
      <3>1. Prefix(s[j].dir, s[n].dir) /\ s[j].dir \in TreePath /\ s[n].dir \in TreePath
        <4>1. n \in 1 .. Len(s) /\ j \in 1 .. n /\ j \in 1 .. Len(s)
          BY <1>5, <2>3 DEF n
        <4>2. Prefix(s[j].dir, s[n].dir)
          BY <4>1 DEF Walk
        <4>3. s[j] \in Frames /\ s[n] \in Frames
          BY <4>1
        <4> QED BY <4>2, <4>3 DEF Frames
      <3>2. n # 0
        BY <1>5, <2>3
      <3>3. Prefix(s[n].dir, p)
        BY <1>7, <3>2 DEF Kids
      <3>4. Prefix(s[j].dir, p)
        BY <3>1, <3>3, PrefixOrder
      <3> QED BY <1>2, <1>3, <1>4, <2>3, <3>4
    <2> QED BY <1>3, <1>5, <2>1, <2>2, <2>3
  <1>12. \A k \in 1 .. Len(r) - 1 : r[k + 1].dir \in Kids(r[k].dir) \ r[k].left
    <2> SUFFICES ASSUME NEW k \in 1 .. n
                 PROVE  r[k + 1].dir \in Kids(r[k].dir) \ r[k].left
      BY <1>3, <1>5
    <2>1. CASE k = n
      BY <1>2, <1>3, <1>4, <1>5, <1>7, <2>1
    <2>2. CASE k \in 1 .. n - 1
      <3>1. s[k + 1].dir \in Kids(s[k].dir) \ s[k].left
        BY <2>2 DEF Walk, n
      <3> QED BY <1>4, <1>5, <2>2, <3>1
    <2> QED BY <1>5, <2>1, <2>2
  <1> QED BY <1>3, <1>9, <1>10, <1>11, <1>12 DEF Walk, r, f

LEMMA WalkPick ==
  ASSUME NEW path \in TreePath, NEW s \in Seq(Frames), s # << >>, Walk(path, s, {}), NEW p \in Files!Last(s).left
  PROVE  /\ p \in TreePath
         /\ Append(Files!Front(s), [dir |-> Files!Last(s).dir, left |-> Files!Last(s).left \ {p}]) \in Seq(Frames)
         /\ Append(Files!Front(s), [dir |-> Files!Last(s).dir, left |-> Files!Last(s).left \ {p}]) # << >>
         /\ Walk(path, Append(Files!Front(s), [dir |-> Files!Last(s).dir, left |-> Files!Last(s).left \ {p}]), {p})
  <1> DEFINE n == Len(s)
             f == [dir |-> Files!Last(s).dir, left |-> Files!Last(s).left \ {p}]
             r == Append(Files!Front(s), f)
  <1>1. n \in Nat \ {0} /\ Files!Last(s) = s[n] /\ s[n] \in Frames
    BY Popped
  <1>2. f \in Frames /\ f.dir = s[n].dir /\ f.left = s[n].left \ {p}
    BY <1>1 DEF Frames
  <1> HIDE DEF f
  <1>3. r \in Seq(Frames) /\ r # << >> /\ Len(r) = n /\ r[n] = f
    BY <1>2, Replaced
  <1>4. \A i \in 1 .. n - 1 : r[i] = s[i]
    BY <1>2, Replaced
  <1>5. p \in s[n].left /\ s[n].left \subseteq Kids(s[n].dir)
    BY <1>1 DEF Walk
  <1> HIDE DEF r
  <1>6. \A k \in 1 .. n : r[k].dir = s[k].dir /\ r[k].left \subseteq s[k].left
    BY <1>1, <1>2, <1>3, <1>4
  <1>7. p \in TreePath
    BY <1>5 DEF Kids
  <1> HIDE DEF n
  <1>8. r[1].dir = path
    BY <1>1, <1>6 DEF Walk
  <1>9. \A k \in 1 .. Len(r) : r[k].left \subseteq Kids(r[k].dir)
    BY <1>3, <1>6 DEF Walk, n
  <1>10. \A k \in 1 .. Len(r) : \A j \in 1 .. k : Prefix(r[j].dir, r[k].dir)
    BY <1>1, <1>3, <1>6 DEF Walk, n
  <1>11. \A k \in 1 .. Len(r) - 1 : r[k + 1].dir \in Kids(r[k].dir) \ r[k].left
    <2> SUFFICES ASSUME NEW k \in 1 .. n - 1
                 PROVE  r[k + 1].dir \in Kids(r[k].dir) \ r[k].left
      BY <1>3
    <2>1. s[k + 1].dir \in Kids(s[k].dir) \ s[k].left
      BY DEF Walk, n
    <2>2. r[k + 1].dir = s[k + 1].dir /\ r[k] = s[k]
      BY <1>1, <1>4, <1>6
    <2> QED BY <2>1, <2>2
  <1>12. p \in Kids(r[n].dir) \ r[n].left
    BY <1>2, <1>3, <1>5
  <1> QED BY <1>3, <1>7, <1>8, <1>9, <1>10, <1>11, <1>12 DEF Walk, r, f

LEMMA WalkPop ==
  ASSUME NEW path \in TreePath, NEW s \in Seq(Frames), s # << >>, Walk(path, s, {})
  PROVE  /\ Files!Front(s) \in Seq(Frames) /\ Files!Last(s).dir \in TreePath
         /\ Walk(path, Files!Front(s), {Files!Last(s).dir})
  <1> DEFINE n == Len(s)
             r == Files!Front(s)
  <1>1. n \in Nat \ {0} /\ Files!Last(s) = s[n] /\ s[n] \in Frames /\ r \in Seq(Frames) /\ Len(r) = n - 1
    BY Popped
  <1>2. \A i \in 1 .. n - 1 : r[i] = s[i]
    BY Popped
  <1>3. s[n].dir \in TreePath
    BY <1>1 DEF Frames
  <1>4. r = << >> <=> n = 1
    BY <1>1
  <1> HIDE DEF r
  <1>5. r # << >> => r[1].dir = path
    BY <1>1, <1>2, <1>4 DEF Walk
  <1>6. \A k \in 1 .. Len(r) : r[k].left \subseteq Kids(r[k].dir)
    BY <1>1, <1>2 DEF Walk
  <1>7. \A k \in 1 .. Len(r) : \A j \in 1 .. k : Prefix(r[j].dir, r[k].dir)
    <2> SUFFICES ASSUME NEW k \in 1 .. n - 1, NEW j \in 1 .. k
                 PROVE  Prefix(r[j].dir, r[k].dir)
      BY <1>1
    <2>1. Prefix(s[j].dir, s[k].dir)
      BY <1>1 DEF Walk
    <2> QED BY <1>1, <1>2, <2>1
  <1>8. \A k \in 1 .. Len(r) - 1 : r[k + 1].dir \in Kids(r[k].dir) \ r[k].left
    <2> SUFFICES ASSUME NEW k \in 1 .. n - 2
                 PROVE  r[k + 1].dir \in Kids(r[k].dir) \ r[k].left
      BY <1>1
    <2>1. s[k + 1].dir \in Kids(s[k].dir) \ s[k].left
      BY <1>1 DEF Walk
    <2> QED BY <1>1, <1>2, <2>1
  <1>9. IF r = << >> THEN s[n].dir = path ELSE s[n].dir \in Kids(r[n - 1].dir) \ r[n - 1].left
    <2>1. n = 1 => s[n].dir = path
      BY DEF Walk
    <2>2. n # 1 => s[n].dir \in Kids(s[n - 1].dir) \ s[n - 1].left
      <3>1. n # 1 => n - 1 \in 1 .. n - 1
        BY <1>1
      <3> QED BY <1>1, <3>1 DEF Walk
    <2> QED BY <1>1, <1>2, <1>4, <2>1, <2>2
  <1> QED BY <1>1, <1>3, <1>5, <1>6, <1>7, <1>8, <1>9 DEF Walk, r

-----------------------------------------------------------------------------
(* What a step makes of the tree and of the calls.                         *)

LEMMA BelowNothing ==
  ASSUME NEW f \in [TreePath -> Kinds], Files!IsTree(f), NEW p \in TreePath, NEW q \in TreePath,
         Prefix(p, q), p # q
  PROVE  f[q] # "none" => f[p] = "dir"
  BY AboveBelow DEF Files!IsTree

LEMMA Planted ==
  ASSUME Shapes, NEW p \in TreePath, NEW k \in {"file", "dir"},
         Files!ParentIsDir(p), fsTree[p] # "dir", fsTree' = [fsTree EXCEPT ![p] = k]
  PROVE  fsTree' \in [TreePath -> Kinds] /\ Files!IsTree(fsTree')
  <1>1. fsTree \in [TreePath -> Kinds] /\ Files!IsTree(fsTree)
    BY DEF Shapes
  <1>2. fsTree' \in [TreePath -> Kinds]
    BY <1>1 DEF Kinds
  <1>3. fsTree'[p] = k /\ \A q \in TreePath \ {p} : fsTree'[q] = fsTree[q]
    BY <1>1
  <1>4. ASSUME NEW q \in TreePath, fsTree'[q] # "none", NEW a \in Files!Above(q)
        PROVE  fsTree'[a] = "dir"
    <2>1. a \in TreePath /\ a # q /\ Prefix(a, q)
      BY <1>4, AboveBelow
    <2>2. CASE q = p
      <3>1. fsTree[a] = "dir"
        BY <1>4, <2>2 DEF Files!ParentIsDir
      <3> QED BY <1>3, <2>1, <2>2, <3>1
    <2>3. CASE q # p
      <3>1. fsTree[q] # "none"
        BY <1>3, <1>4, <2>3
      <3>2. fsTree[a] = "dir"
        BY <1>1, <2>1, <3>1, BelowNothing
      <3> QED BY <1>3, <2>1, <3>2
    <2> QED BY <2>2, <2>3
  <1> QED BY <1>2, <1>4 DEF Files!IsTree

LEMMA Taken ==
  ASSUME Shapes, NEW p \in TreePath, Files!Removable(p), fsTree' = [fsTree EXCEPT ![p] = "none"]
  PROVE  fsTree' \in [TreePath -> Kinds] /\ Files!IsTree(fsTree')
  <1>1. fsTree \in [TreePath -> Kinds] /\ Files!IsTree(fsTree)
    BY DEF Shapes
  <1>2. fsTree' \in [TreePath -> Kinds]
    BY <1>1 DEF Kinds
  <1>3. fsTree'[p] = "none" /\ \A q \in TreePath \ {p} : fsTree'[q] = fsTree[q]
    BY <1>1
  <1>4. \A q \in TreePath : Prefix(p, q) /\ p # q => fsTree[q] = "none"
    <2> SUFFICES ASSUME NEW q \in TreePath, Prefix(p, q), p # q, fsTree[q] # "none"
                 PROVE  FALSE
      OBVIOUS
    <2>1. fsTree[p] = "dir"
      BY <1>1, BelowNothing
    <2>2. PICK c \in Kids(p) : Prefix(c, q)
      BY OnTheWay
    <2>3. c \in TreePath /\ fsTree[c] # "none"
      BY <1>1, <2>2, BelowNothing DEF Kids
    <2>4. c \in Files!Children(p)
      BY <2>2, <2>3, AboveBelow
    <2> QED BY <2>1, <2>4 DEF Files!Removable
  <1>5. ASSUME NEW q \in TreePath, fsTree'[q] # "none", NEW a \in Files!Above(q)
        PROVE  fsTree'[a] = "dir"
    <2>1. a \in TreePath /\ a # q /\ Prefix(a, q)
      BY <1>5, AboveBelow
    <2>2. fsTree[q] # "none" /\ a # p
      BY <1>3, <1>4, <1>5, <2>1
    <2>3. fsTree[a] = "dir"
      BY <1>1, <2>1, <2>2, BelowNothing
    <2> QED BY <1>3, <2>1, <2>2, <2>3
  <1> QED BY <1>2, <1>5 DEF Files!IsTree

LEMMA Went ==
  ASSUME fsCall \in [Thread -> CallRecords], NEW t \in Thread, NEW c \in CallRecords, Files!Go(t, c)
  PROVE  /\ fsCall' \in [Thread -> CallRecords]
         /\ fsCall'[t] = c
         /\ \A u \in Thread \ {t} : fsCall'[u] = fsCall[u]
  <1>1. fsCall' = [fsCall EXCEPT ![t] = c]
    BY DEF Files!Go
  <1> HIDE DEF CallRecords
  <1> QED BY <1>1

LEMMA Continued ==
  ASSUME NEW c \in CallRecords, NEW pc \in {"access", "is_dir", "mkdir", "opendir", "readdir", "stat", "remove", "rmdir"},
         NEW at \in TreePath, NEW stack \in Seq(Frames)
  PROVE  Files!At(c, pc, at, stack) \in CallRecords
  <1>1. at \in Seq(FileName)
    BY PathLength
  <1> DEFINE S == Seq(FileName)
             F == Seq(Frames)
  <1>2. at \in S /\ stack \in F
    BY <1>1
  <1>3. CallRecords = RecordsOver(S, F)
    BY DEF CallRecords
  <1> HIDE DEF S, F
  <1> QED BY <1>2, <1>3 DEF Files!At, RecordsOver

LEMMA Ended ==
  ASSUME NEW c \in CallRecords, NEW error \in {"NONE", "ALREADY_EXISTS", "error"}
  PROVE  Files!Answered(c, error) \in CallRecords
  <1> DEFINE S == Seq(FileName)
             F == Seq(Frames)
  <1>1. CallRecords = RecordsOver(S, F)
    BY DEF CallRecords
  <1> HIDE DEF S, F
  <1> QED BY <1>1 DEF Files!Answered, RecordsOver

LEMMA Typed ==
  ASSUME NEW c \in CallRecords
  PROVE  /\ c.op \in {"none", "create_parents", "delete", "rmdir", "collect", "open_write"}
         /\ c.stack \in Seq(Frames) /\ c.pass \in {"count", "write"} /\ c.count \in Nat
         /\ c.list \in SUBSET TreePath
  <1> DEFINE S == Seq(FileName)
             F == Seq(Frames)
  <1>1. CallRecords = RecordsOver(S, F)
    BY DEF CallRecords
  <1> HIDE DEF S, F
  <1>2. /\ c.op \in {"none", "create_parents", "delete", "rmdir", "collect", "open_write"}
         /\ c.stack \in F /\ c.pass \in {"count", "write"} /\ c.count \in Nat
         /\ c.list \in SUBSET TreePath
    BY <1>1 DEF RecordsOver
  <1> QED BY <1>2 DEF F

(* What a walk and a descent make of a call.                               *)
Onwards(c, stack) ==
  IF stack # << >> THEN Files!At(c, "readdir", c.at, stack)
  ELSE IF c.op \notin {"delete", "rmdir"} /\ Files!WriteNext(c) THEN Files!WritePass(c)
  ELSE Files!Answered(c, "NONE")

Downs(c) ==
  IF c.at = c.path THEN Files!Answered(c, "NONE")
  ELSE Files!At(c, "mkdir", SubSeq(c.path, 1, Len(c.at) + 1), << >>)

LEMMA Outcomes ==
  /\ \A t \in Thread, s \in Seq(Frames) : Files!Onward(t, s) <=> Files!Go(t, Onwards(fsCall[t], s))
  /\ \A t \in Thread : Files!Down(t) <=> Files!Go(t, Downs(fsCall[t]))
  BY DEF Files!Onward, Files!Down, Files!Deleting, Files!Answer, Onwards, Downs

LEMMA WalksOn ==
  ASSUME NEW c \in CallRecords, c.path \in TreePath, c.at \in TreePath, c.pc # "idle",
         c.op \in {"delete", "collect", "rmdir"}, NEW stack \in Seq(Frames),
         IF c.op = "rmdir" THEN stack = << >> ELSE Walk(c.path, stack, {})
  PROVE  Onwards(c, stack) \in CallRecords /\ Placed(Onwards(c, stack))
  <1>1. CASE stack # << >>
    <2>1. Onwards(c, stack) = Files!At(c, "readdir", c.at, stack)
      BY <1>1 DEF Onwards
    <2>2. Files!At(c, "readdir", c.at, stack) \in CallRecords
      BY Continued
    <2>3. c.op # "rmdir"
      BY <1>1
    <2>4. Placed(Files!At(c, "readdir", c.at, stack))
      BY <1>1, <2>3 DEF Placed, Walking, Cur, Files!At
    <2> QED BY <2>1, <2>2, <2>4
  <1>2. CASE stack = << >> /\ c.op = "collect" /\ Files!WriteNext(c)
    <2>1. Onwards(c, stack) = Files!WritePass(c)
      BY <1>2 DEF Onwards
    <2>2. Files!WritePass(c) \in CallRecords
      <3> DEFINE S == Seq(FileName)
                 F == Seq(Frames)
      <3>1. CallRecords = RecordsOver(S, F)
        BY DEF CallRecords
      <3>2. << >> \in F
        OBVIOUS
      <3> HIDE DEF S, F
      <3> QED BY <3>1, <3>2 DEF Files!WritePass, RecordsOver
    <2>3. Walk(c.path, << >>, {c.path})
      BY WalkStart
    <2>4. Placed(Files!WritePass(c))
      BY <1>2, <2>3 DEF Placed, Walking, Cur, Files!WritePass
    <2> QED BY <2>1, <2>2, <2>4
  <1>3. CASE stack = << >> /\ ~(c.op = "collect" /\ Files!WriteNext(c))
    <2>1. Onwards(c, stack) = Files!Answered(c, "NONE")
      BY <1>3 DEF Onwards
    <2>2. Files!Answered(c, "NONE") \in CallRecords
      BY Ended
    <2>3. Placed(Files!Answered(c, "NONE"))
      BY DEF Placed, Walking, Files!Answered
    <2> QED BY <2>1, <2>2, <2>3
  <1> QED BY <1>1, <1>2, <1>3

LEMMA Stops ==
  ASSUME NEW c \in CallRecords, Placed(c), c.pc # "idle", NEW error \in {"NONE", "ALREADY_EXISTS", "error"}
  PROVE  Files!Answered(c, error) \in CallRecords /\ Placed(Files!Answered(c, error))
  <1>1. Files!Answered(c, error) \in CallRecords
    BY Ended
  <1>2. Placed(Files!Answered(c, error))
    BY DEF Placed, Upward, Walking, Files!Answered
  <1> QED BY <1>1, <1>2

LEMMA GoesDown ==
  ASSUME NEW c \in CallRecords, Placed(c), c.op = "create_parents"
  PROVE  /\ Downs(c) \in CallRecords /\ Placed(Downs(c))
         /\ c.at # c.path =>
              LET p == SubSeq(c.path, 1, Len(c.at) + 1)
              IN  p \in Kids(c.at) /\ Prefix(p, c.path)
  <1>1. c.path \in TreePath /\ c.at \in TreePath /\ Prefix(c.at, c.path) /\ c.pc # "idle"
    BY DEF Placed, Upward
  <1>2. CASE c.at = c.path
    BY <1>1, <1>2, Stops DEF Downs
  <1>3. CASE c.at # c.path
    <2> DEFINE p == SubSeq(c.path, 1, Len(c.at) + 1)
    <2>1. Len(c.at) + 1 \in 1 .. Len(c.path)
      BY <1>1, <1>3, PrefixOrder, PathLength
    <2>2. p \in TreePath /\ Len(p) = Len(c.at) + 1 /\ Prefix(p, c.path)
      BY <1>1, <2>1, UpTo
    <2> HIDE DEF p
    <2>3. Prefix(c.at, p)
      BY <1>1, <2>2, PrefixOrder, PathLength
    <2>4. Downs(c) = Files!At(c, "mkdir", p, << >>)
      BY <1>3 DEF Downs, p
    <2>5. Files!At(c, "mkdir", p, << >>) \in CallRecords
      <3>1. << >> \in Seq(Frames)
        OBVIOUS
      <3> QED BY <2>2, <3>1, Continued
    <2>6. Placed(Files!At(c, "mkdir", p, << >>))
      BY <1>1, <2>2 DEF Placed, Upward, Files!At
    <2> QED BY <2>2, <2>3, <2>4, <2>5, <2>6 DEF Kids, p
  <1> QED BY <1>2, <1>3

LEMMA LookupIs ==
  ASSUME Shapes, NEW p \in TreePath
  PROVE  /\ Files!Lookup(p) \in {"dir", "file", "none", "notdir"}
         /\ fsTree[p] # "none" => Files!Lookup(p) = fsTree[p]
         /\ Files!Lookup(p) \in {"dir", "file"} => fsTree[p] = Files!Lookup(p)
         /\ Files!Lookup(p) = "none" =>
              fsTree[p] = "none" /\ \A q \in TreePath : q # p /\ Prefix(q, p) => fsTree[q] # "file"
         /\ Files!Lookup(p) = "notdir" =>
              fsTree[p] = "none" /\ \E q \in TreePath : q # p /\ Prefix(q, p) /\ fsTree[q] = "file"
  <1>1. fsTree[p] \in Kinds
    BY DEF Shapes
  <1> QED BY <1>1, AboveBelow DEF Files!Lookup, Kinds

LEMMA ShapesKept ==
  ASSUME Shapes, NEW t \in Thread, NEW c \in CallRecords, Placed(c), Files!Go(t, c),
         fsTree' \in [TreePath -> Kinds], Files!IsTree(fsTree'), fsFirst' = fsFirst
  PROVE  Shapes'
  <1>1. /\ fsCall' \in [Thread -> CallRecords]
        /\ fsCall'[t] = c
        /\ \A u \in Thread \ {t} : fsCall'[u] = fsCall[u]
    BY Went DEF Shapes
  <1>2. \A u \in Thread : Placed(fsCall'[u])
    BY <1>1 DEF Shapes
  <1>3. fsFirst' \in [TreePath -> Kinds] /\ Files!IsTree(fsFirst')
    BY DEF Shapes
  <1> QED BY <1>1, <1>2, <1>3 DEF Shapes, Placed, Upward, Walking, Cur, Walk, Files!IsTree, Files!Above

LEMMA ShapesSame ==
  ASSUME Shapes, NEW t \in Thread, NEW c \in CallRecords, Placed(c), Files!Go(t, c),
         UNCHANGED <<fsTree, fsFirst>>
  PROVE  Shapes'
  <1>1. fsTree' \in [TreePath -> Kinds] /\ Files!IsTree(fsTree')
    BY DEF Shapes
  <1> QED BY <1>1, ShapesKept

LEMMA ShapesInit ==
  ASSUME Files!Init
  PROVE  Shapes
  <1>1. fsTree \in [TreePath -> Kinds] /\ Files!IsTree(fsTree) /\ fsFirst = fsTree
    BY DEF Files!Init, Kinds
  <1>2. fsCall = [t \in Thread |-> Files!Idle]
    BY DEF Files!Init
  <1>3. Files!Idle \in CallRecords
    <2> DEFINE S == Seq(FileName)
               F == Seq(Frames)
    <2>1. CallRecords = RecordsOver(S, F) /\ << >> \in S /\ << >> \in F
      BY DEF CallRecords
    <2> HIDE DEF S, F
    <2> QED BY <2>1 DEF Files!Idle, RecordsOver
  <1>4. Placed(Files!Idle)
    BY DEF Placed, Files!Idle
  <1> HIDE DEF CallRecords
  <1> QED BY <1>1, <1>2, <1>3, <1>4 DEF Shapes

(* The first and the last steps of a call.                                 *)
LEMMA Started ==
  ASSUME NEW c \in TreeCall
  PROVE  LET r == [op |-> c.op, path |-> c.path, pc |-> Files!Entry(c.op), at |-> c.path, stack |-> << >>,
                   pass |-> "count", count |-> 0, list |-> {}, answer |-> "none"]
         IN  r \in CallRecords /\ Placed(r)
  <1> DEFINE r == [op |-> c.op, path |-> c.path, pc |-> Files!Entry(c.op), at |-> c.path, stack |-> << >>,
                   pass |-> "count", count |-> 0, list |-> {}, answer |-> "none"]
             S == Seq(FileName)
             F == Seq(Frames)
  <1>1. c.op \in {"create_parents", "delete", "rmdir", "collect", "open_write"} /\ c.path \in TreePath
    BY TreeAssumption
  <1>2. c.path \in S /\ << >> \in F
    BY <1>1, PathLength
  <1>3. CallRecords = RecordsOver(S, F)
    BY DEF CallRecords
  <1> HIDE DEF S, F
  <1>4. r \in CallRecords
    BY <1>1, <1>2, <1>3 DEF RecordsOver, Files!Entry
  <1>5. Walk(c.path, << >>, {c.path}) /\ Prefix(c.path, c.path)
    BY <1>1, WalkStart, PrefixOrder
  <1>6. Placed(r)
    BY <1>1, <1>5 DEF Placed, Upward, Walking, Cur, Files!Entry
  <1> QED BY <1>4, <1>6

LEMMA ShapesStart ==
  ASSUME Shapes, NEW t \in Thread, Files!Start(t)
  PROVE  Shapes'
  BY Started, ShapesSame DEF Files!Start

LEMMA ShapesFopen ==
  ASSUME Shapes, NEW t \in Thread, Files!Fopen(t)
  PROVE  Shapes'
  <1> DEFINE c == fsCall[t]
             p == c.at
  <1>1. c \in CallRecords /\ Placed(c) /\ c.pc = "fopen"
    BY DEF Shapes, Files!Fopen
  <1>2. p \in TreePath
    BY <1>1, Typed DEF Placed, Upward, Walking
  <1>3. \A error \in {"NONE", "error"} : Files!Answered(c, error) \in CallRecords /\ Placed(Files!Answered(c, error))
    BY <1>1, Stops
  <1>4. CASE Files!ParentIsDir(p) /\ fsTree[p] # "dir"
    <2>1. fsTree' = [fsTree EXCEPT ![p] = "file"] /\ Files!Go(t, Files!Answered(c, "NONE")) /\ fsFirst' = fsFirst
      BY <1>4 DEF Files!Fopen, Files!Answer
    <2>2. fsTree' \in [TreePath -> Kinds] /\ Files!IsTree(fsTree')
      BY <1>2, <1>4, <2>1, Planted
    <2> QED BY <1>3, <2>1, <2>2, ShapesKept
  <1>5. CASE ~(Files!ParentIsDir(p) /\ fsTree[p] # "dir")
    <2>1. UNCHANGED <<fsTree, fsFirst>> /\ Files!Go(t, Files!Answered(c, "error"))
      BY <1>5 DEF Files!Fopen, Files!Answer
    <2> QED BY <1>3, <2>1, ShapesSame
  <1> QED BY <1>4, <1>5

(* Which call a step belongs to.                                           *)
LEMMA WhoseStep ==
  ASSUME Shapes, NEW t \in Thread
  PROVE  /\ fsCall[t] \in CallRecords /\ Placed(fsCall[t])
         /\ fsCall[t].pc \in {"access", "is_dir", "mkdir"} => fsCall[t].op = "create_parents"
         /\ fsCall[t].pc = "fopen" => fsCall[t].op = "open_write"
         /\ fsCall[t].pc \in {"opendir", "readdir", "stat"} => fsCall[t].op \in {"delete", "collect"}
         /\ fsCall[t].pc = "remove" => fsCall[t].op = "delete"
         /\ fsCall[t].pc = "rmdir" => fsCall[t].op \in {"delete", "rmdir"}
         /\ fsCall[t].pc \notin {"idle", "done"} => fsCall[t].path \in TreePath /\ fsCall[t].at \in TreePath
         /\ Files!Deleting(t) <=> fsCall[t].op \in {"delete", "rmdir"}
  <1>1. fsCall[t] \in CallRecords /\ Placed(fsCall[t])
    BY DEF Shapes
  <1> HIDE DEF CallRecords
  <1>2. fsCall[t].op \in {"none", "create_parents", "delete", "rmdir", "collect", "open_write"}
    BY <1>1, Typed
  <1> QED BY <1>1, <1>2 DEF Placed, Upward, Walking, Files!Deleting

LEMMA OneUp ==
  ASSUME NEW p \in TreePath, Len(p) > 1
  PROVE  Files!Front(p) \in TreePath /\ Len(Files!Front(p)) = Len(p) - 1 /\ Prefix(Files!Front(p), p)
  <1>1. Len(p) - 1 \in 1 .. Len(p)
    BY PathLength
  <1>2. Files!Front(p) = SubSeq(p, 1, Len(p) - 1)
    BY DEF Files!Front
  <1> QED BY <1>1, <1>2, UpTo

LEMMA ShapesAccess ==
  ASSUME Shapes, NEW t \in Thread, Files!Access(t)
  PROVE  Shapes'
  <1> DEFINE c == fsCall[t]
             p == c.at
  <1>1. c.pc = "access" /\ UNCHANGED <<fsTree, fsFirst>>
    BY DEF Files!Access
  <1>2. c \in CallRecords /\ Placed(c) /\ c.op = "create_parents" /\ c.path \in TreePath /\ p \in TreePath /\ Prefix(p, c.path)
    BY <1>1, WhoseStep DEF Placed, Upward
  <1>3. << >> \in Seq(Frames)
    OBVIOUS
  <1> HIDE DEF CallRecords
  <1>4. ASSUME NEW q \in TreePath, Prefix(q, c.path), NEW pc \in {"access", "is_dir", "mkdir"},
               Files!Go(t, Files!At(c, pc, q, << >>))
        PROVE  Shapes'
    <2>1. Files!At(c, pc, q, << >>) \in CallRecords
      BY <1>2, <1>3, Continued
    <2>2. Placed(Files!At(c, pc, q, << >>))
      BY <1>2, <1>4 DEF Placed, Upward, Files!At
    <2> QED BY <1>1, <1>4, <2>1, <2>2, ShapesSame
  <1>5. CASE Files!Lookup(p) \in {"dir", "file"} /\ Files!Go(t, Files!At(c, "is_dir", p, << >>))
    BY <1>2, <1>4, <1>5
  <1>6. CASE Files!Lookup(p) = "notdir" /\ Files!Answer(t, "error")
    BY <1>1, <1>2, <1>6, Stops, ShapesSame DEF Files!Answer
  <1>7. CASE Len(p) > 1 /\ Files!Go(t, Files!At(c, "access", Files!Front(p), << >>))
    <2>1. Files!Front(p) \in TreePath /\ Prefix(Files!Front(p), c.path)
      BY <1>2, <1>7, OneUp, PrefixOrder
    <2> QED BY <1>4, <1>7, <2>1
  <1>8. CASE Files!Go(t, Files!At(c, "mkdir", p, << >>))
    BY <1>2, <1>4, <1>8
  <1> QED BY <1>5, <1>6, <1>7, <1>8 DEF Files!Access

LEMMA ShapesIsDir ==
  ASSUME Shapes, NEW t \in Thread, Files!IsDir(t)
  PROVE  Shapes'
  <1> DEFINE c == fsCall[t]
  <1>1. c.pc = "is_dir" /\ UNCHANGED <<fsTree, fsFirst>>
    BY DEF Files!IsDir
  <1>2. c \in CallRecords /\ Placed(c) /\ c.op = "create_parents"
    BY <1>1, WhoseStep
  <1> HIDE DEF CallRecords
  <1>3. CASE Files!Down(t)
    BY <1>1, <1>2, <1>3, Outcomes, GoesDown, ShapesSame
  <1>4. CASE Files!Answer(t, "ALREADY_EXISTS")
    BY <1>1, <1>2, <1>4, Stops, ShapesSame DEF Files!Answer
  <1> QED BY <1>3, <1>4 DEF Files!IsDir

LEMMA ShapesMkdir ==
  ASSUME Shapes, NEW t \in Thread, Files!Mkdir(t)
  PROVE  Shapes'
  <1> DEFINE c == fsCall[t]
             p == c.at
  <1>1. c.pc = "mkdir" /\ fsFirst' = fsFirst
    BY DEF Files!Mkdir
  <1>2. c \in CallRecords /\ Placed(c) /\ c.op = "create_parents" /\ p \in TreePath
    BY <1>1, WhoseStep
  <1> HIDE DEF CallRecords
  <1>3. CASE fsTree[p] = "none" /\ Files!ParentIsDir(p) /\ fsTree' = [fsTree EXCEPT ![p] = "dir"] /\ Files!Down(t)
    <2>1. fsTree' \in [TreePath -> Kinds] /\ Files!IsTree(fsTree')
      BY <1>2, <1>3, Planted
    <2> QED BY <1>1, <1>2, <1>3, <2>1, Outcomes, GoesDown, ShapesKept
  <1>4. CASE UNCHANGED fsTree /\ Files!Down(t)
    BY <1>1, <1>2, <1>4, Outcomes, GoesDown, ShapesSame
  <1>5. CASE UNCHANGED fsTree /\ Files!Answer(t, "error")
    BY <1>1, <1>2, <1>5, Stops, ShapesSame DEF Files!Answer
  <1> QED BY <1>3, <1>4, <1>5 DEF Files!Mkdir

LEMMA ShapesOpendir ==
  ASSUME Shapes, NEW t \in Thread, Files!Opendir(t)
  PROVE  Shapes'
  <1> DEFINE c == fsCall[t]
             p == c.at
             s == c.stack
  <1>1. c.pc = "opendir" /\ UNCHANGED <<fsTree, fsFirst>>
    BY DEF Files!Opendir
  <1>2. /\ c \in CallRecords /\ Placed(c) /\ c.op \in {"delete", "collect"}
        /\ c.path \in TreePath /\ p \in TreePath /\ s \in Seq(Frames)
    BY <1>1, WhoseStep, Typed
  <1>3. Walk(c.path, s, {p})
    BY <1>1, <1>2 DEF Placed, Walking, Cur
  <1> HIDE DEF CallRecords
  <1>4. CASE Files!Go(t, Files!At(c, "readdir", p, Append(s, Files!Frame(p))))
    <2>1. Files!Children(p) \in SUBSET Kids(p)
      BY <1>2, AboveBelow
    <2> DEFINE r == Append(s, Files!Frame(p))
    <2>2. r \in Seq(Frames) /\ r # << >> /\ Walk(c.path, r, {})
      BY <1>2, <1>3, <2>1, WalkPush DEF Files!Frame
    <2> HIDE DEF r
    <2>3. Files!At(c, "readdir", p, r) \in CallRecords
      BY <1>2, <2>2, Continued
    <2>4. Placed(Files!At(c, "readdir", p, r))
      BY <1>2, <2>2 DEF Placed, Walking, Cur, Files!At
    <2> QED BY <1>1, <1>4, <2>3, <2>4, ShapesSame DEF r
  <1>5. CASE Files!Onward(t, s)
    <2>1. Walk(c.path, s, {})
      BY <1>3, WalkRest
    <2>2. Files!Go(t, Onwards(c, s))
      BY <1>2, <1>5, Outcomes
    <2>3. Onwards(c, s) \in CallRecords /\ Placed(Onwards(c, s))
      BY <1>1, <1>2, <2>1, WalksOn
    <2> QED BY <1>1, <2>2, <2>3, ShapesSame
  <1>6. CASE Files!Deleting(t) /\ Files!Go(t, Files!At(c, "rmdir", p, s))
    <2>1. c.op = "delete"
      BY <1>2, <1>6, WhoseStep
    <2>2. Files!At(c, "rmdir", p, s) \in CallRecords
      BY <1>2, Continued
    <2>3. Placed(Files!At(c, "rmdir", p, s))
      BY <1>2, <1>3, <2>1 DEF Placed, Walking, Cur, Files!At
    <2> QED BY <1>1, <1>6, <2>2, <2>3, ShapesSame
  <1>7. CASE Files!Answer(t, "error")
    BY <1>1, <1>2, <1>7, Stops, ShapesSame DEF Files!Answer
  <1> QED BY <1>4, <1>5, <1>6, <1>7 DEF Files!Opendir

LEMMA ShapesReaddir ==
  ASSUME Shapes, NEW t \in Thread, Files!Readdir(t)
  PROVE  Shapes'
  <1> DEFINE c == fsCall[t]
             s == c.stack
  <1>1. c.pc = "readdir" /\ UNCHANGED <<fsTree, fsFirst>>
    BY DEF Files!Readdir
  <1>2. /\ c \in CallRecords /\ Placed(c) /\ c.op \in {"delete", "collect"}
        /\ c.path \in TreePath /\ c.at \in TreePath /\ s \in Seq(Frames)
    BY <1>1, WhoseStep, Typed
  <1>3. Walk(c.path, s, {}) /\ s # << >>
    BY <1>1, <1>2 DEF Placed, Walking, Cur
  <1>4. Files!Top(t) = Files!Last(s)
    BY DEF Files!Top
  <1> HIDE DEF CallRecords
  <1>5. ASSUME NEW p \in Files!Last(s).left,
               Files!Go(t, Files!At(c, "stat", p, Append(Files!Front(s),
                          [dir |-> Files!Last(s).dir, left |-> Files!Last(s).left \ {p}])))
        PROVE  Shapes'
    <2> DEFINE r == Append(Files!Front(s), [dir |-> Files!Last(s).dir, left |-> Files!Last(s).left \ {p}])
    <2>1. p \in TreePath /\ r \in Seq(Frames) /\ r # << >> /\ Walk(c.path, r, {p})
      BY <1>2, <1>3, WalkPick
    <2> HIDE DEF r
    <2>2. Files!At(c, "stat", p, r) \in CallRecords
      BY <1>2, <2>1, Continued
    <2>3. Placed(Files!At(c, "stat", p, r))
      BY <1>2, <2>1 DEF Placed, Walking, Cur, Files!At
    <2> QED BY <1>1, <1>5, <2>2, <2>3, ShapesSame DEF r
  <1>6. /\ Files!Front(s) \in Seq(Frames) /\ Files!Last(s).dir \in TreePath
        /\ Walk(c.path, Files!Front(s), {Files!Last(s).dir})
    BY <1>2, <1>3, WalkPop
  <1>7. CASE Files!Deleting(t) /\ Files!Go(t, Files!At(c, "rmdir", Files!Last(s).dir, Files!Front(s)))
    <2> DEFINE p == Files!Last(s).dir
               r == Files!Front(s)
    <2> HIDE DEF p, r
    <2>1. c.op = "delete"
      BY <1>2, <1>7, WhoseStep
    <2>2. Files!At(c, "rmdir", p, r) \in CallRecords
      BY <1>2, <1>6, Continued DEF p, r
    <2>3. Placed(Files!At(c, "rmdir", p, r))
      BY <1>2, <1>6, <2>1 DEF Placed, Walking, Cur, Files!At, p, r
    <2> QED BY <1>1, <1>7, <2>2, <2>3, ShapesSame DEF p, r
  <1>8. CASE Files!Onward(t, Files!Front(s))
    <2>1. Walk(c.path, Files!Front(s), {})
      BY <1>6, WalkRest
    <2>2. Files!Go(t, Onwards(c, Files!Front(s)))
      BY <1>6, <1>8, Outcomes
    <2>3. Onwards(c, Files!Front(s)) \in CallRecords /\ Placed(Onwards(c, Files!Front(s)))
      BY <1>1, <1>2, <1>6, <2>1, WalksOn
    <2> QED BY <1>1, <2>2, <2>3, ShapesSame
  <1> QED BY <1>4, <1>5, <1>7, <1>8 DEF Files!Readdir

LEMMA VisitedIs ==
  ASSUME NEW c \in CallRecords, c.at \in TreePath
  PROVE  /\ Files!Visited(c) \in CallRecords
         /\ \A v \in {Files!Visited(c)} :
              /\ v.op = c.op /\ v.path = c.path /\ v.stack = c.stack /\ v.pass = c.pass
              /\ c.pass = "count" => v.count = c.count + 1 /\ v.list = c.list
              /\ c.pass # "count" => v.count = c.count /\ v.list = c.list \union {c.at}
  <1> DEFINE S == Seq(FileName)
             F == Seq(Frames)
  <1>1. CallRecords = RecordsOver(S, F)
    BY DEF CallRecords
  <1> HIDE DEF S, F
  <1>2. CASE c.pass = "count"
    BY <1>1, <1>2 DEF RecordsOver, Files!Visited
  <1>3. CASE c.pass # "count"
    BY <1>1, <1>3 DEF RecordsOver, Files!Visited
  <1> QED BY <1>2, <1>3

LEMMA ShapesStat ==
  ASSUME Shapes, NEW t \in Thread, Files!Stat(t)
  PROVE  Shapes'
  <1> DEFINE c == fsCall[t]
             p == c.at
             s == c.stack
             v == Files!Visited(c)
  <1>1. c.pc = "stat" /\ UNCHANGED <<fsTree, fsFirst>>
    BY DEF Files!Stat
  <1>2. /\ c \in CallRecords /\ Placed(c) /\ c.op \in {"delete", "collect"}
        /\ c.path \in TreePath /\ p \in TreePath /\ s \in Seq(Frames)
    BY <1>1, WhoseStep, Typed
  <1>3. Walk(c.path, s, {p}) /\ Walk(c.path, s, {}) /\ s # << >>
    BY <1>1, <1>2, WalkRest DEF Placed, Walking, Cur
  <1>4. v \in CallRecords /\ v.op = c.op /\ v.path = c.path
    BY <1>2, VisitedIs
  <1> HIDE DEF CallRecords, v
  <1>5. ASSUME NEW pc \in {"opendir", "remove"}, Files!Deleting(t), Files!Go(t, Files!At(c, pc, p, s))
        PROVE  Shapes'
    <2>1. c.op = "delete"
      BY <1>2, <1>5, WhoseStep
    <2>2. Files!At(c, pc, p, s) \in CallRecords
      BY <1>2, Continued
    <2>3. Placed(Files!At(c, pc, p, s))
      BY <1>2, <1>3, <2>1 DEF Placed, Walking, Cur, Files!At
    <2> QED BY <1>1, <1>5, <2>2, <2>3, ShapesSame
  <1>6. ASSUME NEW pc \in {"opendir", "readdir"}, Files!Go(t, Files!At(v, pc, p, s))
        PROVE  Shapes'
    <2>1. Files!At(v, pc, p, s) \in CallRecords
      BY <1>2, <1>4, Continued
    <2>2. Placed(Files!At(v, pc, p, s))
      BY <1>2, <1>3, <1>4 DEF Placed, Walking, Cur, Files!At
    <2> QED BY <1>1, <1>6, <2>1, <2>2, ShapesSame
  <1>7. CASE Files!Deleting(t)
    BY <1>5, <1>7 DEF Files!Stat
  <1>8. CASE ~Files!Deleting(t)
    BY <1>6, <1>8 DEF Files!Stat, v
  <1> QED BY <1>7, <1>8

LEMMA ShapesTake ==
  ASSUME Shapes, NEW t \in Thread, Files!Take(t)
  PROVE  Shapes'
  <1> DEFINE c == fsCall[t]
             p == c.at
             s == c.stack
  <1>1. c.pc \in {"remove", "rmdir"} /\ fsFirst' = fsFirst
    BY DEF Files!Take
  <1>2. /\ c \in CallRecords /\ Placed(c) /\ c.op \in {"delete", "rmdir"}
        /\ c.path \in TreePath /\ p \in TreePath /\ s \in Seq(Frames)
    BY <1>1, WhoseStep, Typed
  <1>3. IF c.op = "rmdir" THEN s = << >> ELSE Walk(c.path, s, {})
    BY <1>1, <1>2, WalkRest DEF Placed, Walking, Cur
  <1> HIDE DEF CallRecords
  <1>4. Onwards(c, s) \in CallRecords /\ Placed(Onwards(c, s))
    BY <1>1, <1>2, <1>3, WalksOn
  <1>5. Files!Onward(t, s) => Files!Go(t, Onwards(c, s))
    BY <1>2, Outcomes
  <1>6. CASE Files!Removable(p) /\ fsTree' = [fsTree EXCEPT ![p] = "none"] /\ Files!Onward(t, s)
    <2>1. fsTree' \in [TreePath -> Kinds] /\ Files!IsTree(fsTree')
      BY <1>2, <1>6, Taken
    <2> QED BY <1>1, <1>4, <1>5, <1>6, <2>1, ShapesKept
  <1>7. CASE UNCHANGED fsTree /\ Files!Onward(t, s)
    BY <1>1, <1>4, <1>5, <1>7, ShapesSame
  <1>8. CASE UNCHANGED fsTree /\ Files!Answer(t, "error")
    BY <1>1, <1>2, <1>8, Stops, ShapesSame DEF Files!Answer
  <1> QED BY <1>6, <1>7, <1>8 DEF Files!Take

LEMMA ShapesNext ==
  ASSUME Shapes, [Files!Next]_(Files!vars)
  PROVE  Shapes'
  <1>1. CASE UNCHANGED Files!vars
    <2>1. UNCHANGED <<fsTree, fsCall, fsFirst>>
      BY <1>1 DEF Files!vars
    <2> QED BY <2>1 DEF Shapes, Placed, Upward, Walking, Cur, Walk, Files!IsTree, Files!Above
  <1>2. CASE Files!Next
    BY <1>2, ShapesStart, ShapesFopen, ShapesAccess, ShapesIsDir, ShapesMkdir, ShapesOpendir, ShapesReaddir,
       ShapesStat, ShapesTake DEF Files!Next
  <1> QED BY <1>1, <1>2

-----------------------------------------------------------------------------
(* A step is one thread's, and a call remains the call it is.              *)

LEMMA Gone ==
  ASSUME Shapes, NEW t \in Thread, NEW c, Files!Go(t, c)
  PROVE  fsCall'[t] = c /\ \A u \in Thread \ {t} : fsCall'[u] = fsCall[u]
  <1>1. fsCall \in [Thread -> CallRecords]
    BY DEF Shapes
  <1> HIDE DEF CallRecords
  <1> QED BY <1>1 DEF Files!Go

LEMMA SameCall ==
  ASSUME NEW c
  PROVE  /\ \A pc, at, s : Files!At(c, pc, at, s).op = c.op /\ Files!At(c, pc, at, s).path = c.path
         /\ \A e : Files!Answered(c, e).op = c.op /\ Files!Answered(c, e).path = c.path
         /\ \A s : Onwards(c, s).op = c.op /\ Onwards(c, s).path = c.path
         /\ Downs(c).op = c.op /\ Downs(c).path = c.path
  <1>1. \A pc, at, s : Files!At(c, pc, at, s).op = c.op /\ Files!At(c, pc, at, s).path = c.path
    BY DEF Files!At
  <1>2. \A e : Files!Answered(c, e).op = c.op /\ Files!Answered(c, e).path = c.path
    BY DEF Files!Answered
  <1>3. Files!WritePass(c).op = c.op /\ Files!WritePass(c).path = c.path
    BY DEF Files!WritePass
  <1>4. \A s : Onwards(c, s).op = c.op /\ Onwards(c, s).path = c.path
    BY <1>1, <1>2, <1>3 DEF Onwards
  <1>5. Downs(c).op = c.op /\ Downs(c).path = c.path
    BY <1>1, <1>2 DEF Downs
  <1> QED BY <1>1, <1>2, <1>4, <1>5

Moves(t) == \E c : Files!Go(t, c) /\ c.op = fsCall[t].op /\ c.path = fsCall[t].path

LEMMA Moving ==
  ASSUME Shapes, NEW t \in Thread,
         \/ Files!Fopen(t) \/ Files!Access(t) \/ Files!IsDir(t) \/ Files!Mkdir(t)
         \/ Files!Opendir(t) \/ Files!Readdir(t) \/ Files!Stat(t) \/ Files!Take(t)
  PROVE  Moves(t) /\ fsFirst' = fsFirst
  <1> DEFINE c == fsCall[t]
             v == Files!Visited(c)
  <1>1. c \in CallRecords /\ c.stack \in Seq(Frames)
    BY WhoseStep, Typed
  <1>2. c.pc = "stat" => c.at \in TreePath
    BY WhoseStep
  <1> HIDE DEF CallRecords
  <1>3. c.pc = "stat" => v.op = c.op /\ v.path = c.path
    BY <1>1, <1>2, VisitedIs
  <1> HIDE DEF v
  <1>4. \A e : Files!Answer(t, e) => Moves(t)
    BY SameCall DEF Files!Answer, Moves
  <1>5. Files!Down(t) => Moves(t)
    BY Outcomes, SameCall DEF Moves
  <1>6. ASSUME NEW pc, NEW at, NEW s, Files!Go(t, Files!At(c, pc, at, s))
        PROVE  Moves(t)
    <2>1. Files!At(c, pc, at, s).op = c.op /\ Files!At(c, pc, at, s).path = c.path
      BY DEF Files!At
    <2> QED BY <1>6, <2>1 DEF Moves
  <1>7. \A s \in Seq(Frames) : Files!Onward(t, s) => Moves(t)
    BY Outcomes, SameCall DEF Moves
  <1>8. ASSUME c.pc = "stat", NEW pc, NEW at, NEW s, Files!Go(t, Files!At(v, pc, at, s))
        PROVE  Moves(t)
    <2>1. Files!At(v, pc, at, s).op = v.op /\ Files!At(v, pc, at, s).path = v.path
      BY DEF Files!At
    <2> QED BY <1>3, <1>8, <2>1 DEF Moves
  <1>9. c.stack # << >> => Files!Front(c.stack) \in Seq(Frames)
    BY <1>1, Popped
  <1>10. c.pc = "readdir" => c.stack # << >>
    BY WhoseStep DEF Placed, Walking
  <1>11. CASE Files!Fopen(t)
    BY <1>4, <1>11 DEF Files!Fopen
  <1>12. CASE Files!Access(t)
    BY <1>4, <1>6, <1>12 DEF Files!Access
  <1>13. CASE Files!IsDir(t)
    BY <1>4, <1>5, <1>13 DEF Files!IsDir
  <1>14. CASE Files!Mkdir(t)
    BY <1>4, <1>5, <1>14 DEF Files!Mkdir
  <1>15. CASE Files!Opendir(t)
    BY <1>1, <1>4, <1>6, <1>7, <1>15 DEF Files!Opendir
  <1>16. CASE Files!Readdir(t)
    BY <1>6, <1>7, <1>9, <1>10, <1>16 DEF Files!Readdir
  <1>17. CASE Files!Stat(t)
    BY <1>6, <1>8, <1>17 DEF Files!Stat, v
  <1>18. CASE Files!Take(t)
    BY <1>1, <1>4, <1>7, <1>18 DEF Files!Take
  <1> QED BY <1>11, <1>12, <1>13, <1>14, <1>15, <1>16, <1>17, <1>18

LEMMA Before ==
  ASSUME Shapes, NEW t \in Thread,
         \/ Files!Start(t)
         \/ Files!Fopen(t) \/ Files!Access(t) \/ Files!IsDir(t) \/ Files!Mkdir(t)
         \/ Files!Opendir(t) \/ Files!Readdir(t) \/ Files!Stat(t) \/ Files!Take(t),
         NEW ops, Calm(ops)'
  PROVE  Calm(ops) /\ fsFirst' = fsFirst /\ \A u \in Thread \ {t} : fsCall'[u] = fsCall[u]
  <1>1. CASE Files!Start(t)
    <2>1. fsCall[t].op = "none" /\ fsFirst' = fsFirst
      BY <1>1, WhoseStep DEF Placed, Files!Start
    <2>2. \A u \in Thread \ {t} : fsCall'[u] = fsCall[u]
      BY <1>1, Gone DEF Files!Start
    <2> QED BY <2>1, <2>2 DEF Calm
  <1>2. CASE ~Files!Start(t)
    <2>1. Moves(t) /\ fsFirst' = fsFirst
      BY <1>2, Moving
    <2>2. PICK c : Files!Go(t, c) /\ c.op = fsCall[t].op /\ c.path = fsCall[t].path
      BY <2>1 DEF Moves
    <2>3. fsCall'[t] = c /\ \A u \in Thread \ {t} : fsCall'[u] = fsCall[u]
      BY <2>2, Gone
    <2> QED BY <2>1, <2>2, <2>3 DEF Calm
  <1> QED BY <1>1, <1>2

-----------------------------------------------------------------------------
(* Directories created together.                                           *)

LEMMA ClimbedKept ==
  ASSUME NEW f \in [TreePath -> Kinds], NEW g \in [TreePath -> Kinds],
         \A p \in TreePath : g[p] = f[p] \/ (f[p] = "none" /\ g[p] = "dir"),
         NEW c \in CallRecords, Placed(c), c.op = "create_parents", Climbed(f, c)
  PROVE  Climbed(g, c)
  <1>1. c.path \in TreePath /\ c.at \in TreePath
    BY DEF Placed, Upward
  <1> HIDE DEF CallRecords
  <1>2. \A n : NoFile(f, c.path, n) <=> NoFile(g, c.path, n)
    BY DEF NoFile
  <1>3. c.pc = "is_dir" /\ f[c.at] # "none" => g[c.at] # "none"
    BY <1>1
  <1>4. \A q \in TreePath : f[q] = "dir" => g[q] = "dir"
    OBVIOUS
  <1> QED BY <1>1, <1>2, <1>3, <1>4 DEF Climbed

LEMMA ClimbedDown ==
  ASSUME NEW f \in [TreePath -> Kinds], Files!IsTree(f),
         NEW c \in CallRecords, Placed(c), c.op = "create_parents",
         f[c.at] = "dir", NoFile(f, c.path, Len(c.at) - 1)
  PROVE  Climbed(f, Downs(c))
  <1>1. c.path \in TreePath /\ c.at \in TreePath
    BY DEF Placed, Upward
  <1> HIDE DEF CallRecords
  <1>2. CASE c.at = c.path
    <2>1. Downs(c) = Files!Answered(c, "NONE")
      BY <1>2 DEF Downs
    <2> QED BY <1>2, <2>1 DEF Climbed, Files!Answered
  <1>3. CASE c.at # c.path
    <2> DEFINE p == SubSeq(c.path, 1, Len(c.at) + 1)
    <2>1. p \in Kids(c.at)
      BY <1>3, GoesDown
    <2>2. Downs(c) = Files!At(c, "mkdir", p, << >>)
      BY <1>3 DEF Downs
    <2> HIDE DEF p
    <2>3. p \in TreePath /\ Prefix(c.at, p) /\ Len(p) = Len(c.at) + 1
      BY <2>1 DEF Kids
    <2>4. \A q \in TreePath : q # p /\ Prefix(q, p) => f[q] = "dir"
      <3> SUFFICES ASSUME NEW q \in TreePath, q # p, Prefix(q, p)
                   PROVE  f[q] = "dir"
        OBVIOUS
      <3>1. Len(q) <= Len(c.at)
        BY <1>1, <2>3, PrefixOrder, PathLength
      <3>2. Prefix(q, c.at)
        BY <1>1, <2>3, <3>1, PrefixOrder
      <3> QED BY <1>1, <3>2, BelowNothing
    <2>5. NoFile(f, c.path, Len(p) - 1)
      <3> SUFFICES ASSUME NEW q \in TreePath, Prefix(q, c.path), Len(q) > Len(p) - 1
                   PROVE  f[q] # "file"
        BY DEF NoFile
      <3>1. Len(q) > Len(c.at) - 1
        BY <1>1, <2>3, PathLength
      <3> QED BY <3>1 DEF NoFile
    <2> QED BY <2>2, <2>4, <2>5 DEF Climbed, Files!At
  <1> QED BY <1>2, <1>3

(* What the calls of the others leave of it.                               *)
LEMMA CreatedKept ==
  ASSUME Shapes, Shapes', Calm({"create_parents", "collect"}), Created, NEW t \in Thread,
         \A u \in Thread \ {t} : fsCall'[u] = fsCall[u],
         \A p \in TreePath : fsTree'[p] = fsTree[p] \/ (fsTree[p] = "none" /\ fsTree'[p] = "dir"),
         fsCall'[t].op = "create_parents" => Climbed(fsTree', fsCall'[t])
  PROVE  Created'
  <1>1. fsTree \in [TreePath -> Kinds] /\ fsTree' \in [TreePath -> Kinds]
    BY DEF Shapes
  <1>2. ASSUME NEW u \in Thread \ {t}, fsCall'[u].op = "create_parents"
        PROVE  Climbed(fsTree', fsCall'[u])
    <2> DEFINE c == fsCall[u]
    <2>1. c \in CallRecords /\ Placed(c) /\ fsCall'[u] = c
      BY WhoseStep
    <2>2. c.op = "create_parents" /\ Climbed(fsTree, c)
      BY <1>2, <2>1 DEF Created
    <2> HIDE DEF c, CallRecords
    <2>3. Climbed(fsTree', c)
      BY <1>1, <2>1, <2>2, ClimbedKept
    <2> QED BY <2>1, <2>3
  <1> QED BY <1>2 DEF Created

LEMMA CreatedStart ==
  ASSUME Shapes, Shapes', Calm({"create_parents", "collect"}), Created, NEW t \in Thread, Files!Start(t)
  PROVE  Created'
  <1>1. UNCHANGED fsTree
    BY DEF Files!Start
  <1>2. PICK c \in TreeCall :
          Files!Go(t, [op |-> c.op, path |-> c.path, pc |-> Files!Entry(c.op), at |-> c.path, stack |-> << >>,
                       pass |-> "count", count |-> 0, list |-> {}, answer |-> "none"])
    BY DEF Files!Start
  <1> DEFINE r == [op |-> c.op, path |-> c.path, pc |-> Files!Entry(c.op), at |-> c.path, stack |-> << >>,
                   pass |-> "count", count |-> 0, list |-> {}, answer |-> "none"]
  <1>3. r.op = c.op /\ r.path = c.path /\ r.at = c.path /\ (c.op = "create_parents" => r.pc = "access") /\ c.path \in TreePath
    BY TreeAssumption DEF Files!Entry
  <1>4. Files!Go(t, r)
    BY <1>2
  <1> HIDE DEF r
  <1>5. fsCall'[t] = r /\ \A u \in Thread \ {t} : fsCall'[u] = fsCall[u]
    BY <1>4, Gone
  <1>6. NoFile(fsTree, c.path, Len(c.path))
    <2>1. \A q \in TreePath : Prefix(q, c.path) => Len(q) <= Len(c.path)
      BY <1>3, PrefixIs
    <2> QED BY <1>3, <2>1, PathLength DEF NoFile
  <1>7. r.op = "create_parents" => Climbed(fsTree, r)
    BY <1>3, <1>6 DEF Climbed
  <1> QED BY <1>1, <1>5, <1>7, CreatedKept

LEMMA CreatedAccess ==
  ASSUME Shapes, Shapes', Calm({"create_parents", "collect"}), Created, NEW t \in Thread, Files!Access(t)
  PROVE  Created'
  <1> DEFINE c == fsCall[t]
             p == c.at
  <1>1. c.pc = "access" /\ UNCHANGED fsTree
    BY DEF Files!Access
  <1>2. c \in CallRecords /\ Placed(c) /\ c.op = "create_parents" /\ c.path \in TreePath /\ p \in TreePath /\ Prefix(p, c.path)
    BY <1>1, WhoseStep DEF Placed, Upward
  <1> HIDE DEF CallRecords
  <1>3. NoFile(fsTree, c.path, Len(p))
    BY <1>1, <1>2 DEF Created, Climbed
  <1>4. ASSUME NEW r, Files!Go(t, r), Climbed(fsTree, r)
        PROVE  Created'
    <2>1. fsCall'[t] = r /\ \A u \in Thread \ {t} : fsCall'[u] = fsCall[u]
      BY <1>4, Gone
    <2> QED BY <1>1, <1>4, <2>1, CreatedKept
  <1>5. fsTree[p] = "none" => NoFile(fsTree, c.path, Len(p) - 1)
    <2> SUFFICES ASSUME fsTree[p] = "none", NEW q \in TreePath, Prefix(q, c.path), Len(q) > Len(p) - 1
                 PROVE  fsTree[q] # "file"
      BY DEF NoFile
    <2>1. Len(q) > Len(p) => fsTree[q] # "file"
      BY <1>3 DEF NoFile
    <2>2. Len(q) = Len(p) => q = p
      BY <1>2, PrefixOrder
    <2> QED BY <1>2, <2>1, <2>2, PathLength
  <1>6. CASE Files!Lookup(p) \in {"dir", "file"} /\ Files!Go(t, Files!At(c, "is_dir", p, << >>))
    <2>1. fsTree[p] # "none"
      BY <1>2, <1>6, LookupIs
    <2>2. Climbed(fsTree, Files!At(c, "is_dir", p, << >>))
      BY <1>3, <2>1 DEF Climbed, Files!At
    <2> QED BY <1>4, <1>6, <2>2
  <1>7. CASE Files!Lookup(p) = "notdir" /\ Files!Answer(t, "error")
    <2>1. PICK q \in TreePath : q # p /\ Prefix(q, p) /\ fsTree[q] = "file"
      BY <1>2, <1>7, LookupIs
    <2>2. ~NoFile(fsTree, c.path, 0)
      BY <1>2, <2>1, PrefixOrder, PathLength DEF NoFile
    <2>3. Climbed(fsTree, Files!Answered(c, "error"))
      BY <2>2 DEF Climbed, Files!Answered
    <2> QED BY <1>4, <1>7, <2>3 DEF Files!Answer
  <1>8. CASE Files!Lookup(p) = "none" /\ Len(p) > 1 /\ Files!Go(t, Files!At(c, "access", Files!Front(p), << >>))
    <2>1. fsTree[p] = "none" /\ Len(Files!Front(p)) = Len(p) - 1
      BY <1>2, <1>8, LookupIs, OneUp
    <2>2. Climbed(fsTree, Files!At(c, "access", Files!Front(p), << >>))
      BY <1>5, <2>1 DEF Climbed, Files!At
    <2> QED BY <1>4, <1>8, <2>2
  <1>9. CASE Files!Lookup(p) = "none" /\ Len(p) = 1 /\ Files!Go(t, Files!At(c, "mkdir", p, << >>))
    <2>1. fsTree[p] = "none"
      BY <1>2, <1>9, LookupIs
    <2>2. \A q \in TreePath : q # p /\ Prefix(q, p) => FALSE
      BY <1>2, <1>9, PrefixOrder, PathLength
    <2>3. Climbed(fsTree, Files!At(c, "mkdir", p, << >>))
      BY <1>5, <2>1, <2>2 DEF Climbed, Files!At
    <2> QED BY <1>4, <1>9, <2>3
  <1> QED BY <1>6, <1>7, <1>8, <1>9 DEF Files!Access

LEMMA CreatedIsDir ==
  ASSUME Shapes, Shapes', Calm({"create_parents", "collect"}), Created, NEW t \in Thread, Files!IsDir(t)
  PROVE  Created'
  <1> DEFINE c == fsCall[t]
             p == c.at
  <1>1. c.pc = "is_dir" /\ UNCHANGED fsTree
    BY DEF Files!IsDir
  <1>2. c \in CallRecords /\ Placed(c) /\ c.op = "create_parents" /\ c.path \in TreePath /\ p \in TreePath /\ Prefix(p, c.path)
    BY <1>1, WhoseStep DEF Placed, Upward
  <1> HIDE DEF CallRecords
  <1>3. NoFile(fsTree, c.path, Len(p)) /\ fsTree[p] # "none"
    BY <1>1, <1>2 DEF Created, Climbed
  <1>4. ASSUME NEW r, Files!Go(t, r), Climbed(fsTree, r)
        PROVE  Created'
    <2>1. fsCall'[t] = r /\ \A u \in Thread \ {t} : fsCall'[u] = fsCall[u]
      BY <1>4, Gone
    <2> QED BY <1>1, <1>4, <2>1, CreatedKept
  <1>5. fsTree \in [TreePath -> Kinds] /\ Files!IsTree(fsTree)
    BY DEF Shapes
  <1>6. CASE Files!Lookup(p) = "dir" /\ Files!Down(t)
    <2>1. fsTree[p] = "dir"
      BY <1>2, <1>6, LookupIs
    <2>2. NoFile(fsTree, c.path, Len(p) - 1)
      <3> SUFFICES ASSUME NEW q \in TreePath, Prefix(q, c.path), Len(q) > Len(p) - 1
                   PROVE  fsTree[q] # "file"
        BY DEF NoFile
      <3>1. Len(q) > Len(p) => fsTree[q] # "file"
        BY <1>3 DEF NoFile
      <3>2. Len(q) = Len(p) => q = p
        BY <1>2, PrefixOrder
      <3> QED BY <1>2, <2>1, <3>1, <3>2, PathLength
    <2>3. Climbed(fsTree, Downs(c))
      BY <1>2, <1>5, <2>1, <2>2, ClimbedDown
    <2>4. Files!Go(t, Downs(c))
      BY <1>6, Outcomes
    <2> QED BY <1>4, <2>3, <2>4
  <1>7. CASE Files!Lookup(p) # "dir" /\ Files!Answer(t, "ALREADY_EXISTS")
    <2>1. fsTree[p] = "file"
      BY <1>2, <1>3, <1>5, <1>7, LookupIs DEF Kinds
    <2>2. ~NoFile(fsTree, c.path, 0)
      BY <1>2, <2>1, PathLength DEF NoFile
    <2>3. Climbed(fsTree, Files!Answered(c, "ALREADY_EXISTS"))
      BY <2>2 DEF Climbed, Files!Answered
    <2> QED BY <1>4, <1>7, <2>3 DEF Files!Answer
  <1> QED BY <1>6, <1>7 DEF Files!IsDir

LEMMA CreatedMkdir ==
  ASSUME Shapes, Shapes', Calm({"create_parents", "collect"}), Created, NEW t \in Thread, Files!Mkdir(t)
  PROVE  Created'
  <1> DEFINE c == fsCall[t]
             p == c.at
  <1>1. c.pc = "mkdir"
    BY DEF Files!Mkdir
  <1>2. c \in CallRecords /\ Placed(c) /\ c.op = "create_parents" /\ c.path \in TreePath /\ p \in TreePath /\ Prefix(p, c.path)
    BY <1>1, WhoseStep DEF Placed, Upward
  <1> HIDE DEF CallRecords
  <1>3. /\ NoFile(fsTree, c.path, Len(p) - 1)
        /\ \A q \in TreePath : q # p /\ Prefix(q, p) => fsTree[q] = "dir"
    BY <1>1, <1>2 DEF Created, Climbed
  <1>4. fsTree[p] # "file" /\ fsTree[p] \in Kinds
    <2>1. Len(p) > Len(p) - 1
      BY <1>2, PathLength
    <2>2. fsTree[p] \in Kinds
      BY <1>2 DEF Shapes
    <2> QED BY <1>2, <1>3, <2>1, <2>2 DEF NoFile
  <1>5. Files!ParentIsDir(p)
    BY <1>2, <1>3, AboveBelow DEF Files!ParentIsDir
  <1>6. ASSUME fsTree'[p] = "dir", \A q \in TreePath \ {p} : fsTree'[q] = fsTree[q], Files!Down(t)
        PROVE  Created'
    <2>1. fsTree' \in [TreePath -> Kinds] /\ Files!IsTree(fsTree')
      BY DEF Shapes
    <2>2. NoFile(fsTree', c.path, Len(p) - 1)
      BY <1>3, <1>6 DEF NoFile
    <2>3. Climbed(fsTree', Downs(c))
      BY <1>2, <1>6, <2>1, <2>2, ClimbedDown
    <2>4. Files!Go(t, Downs(c))
      BY <1>6, Outcomes
    <2>5. fsCall'[t] = Downs(c) /\ \A u \in Thread \ {t} : fsCall'[u] = fsCall[u]
      BY <2>4, Gone
    <2>6. \A q \in TreePath : fsTree'[q] = fsTree[q] \/ (fsTree[q] = "none" /\ fsTree'[q] = "dir")
      BY <1>4, <1>6 DEF Kinds
    <2> QED BY <2>3, <2>5, <2>6, CreatedKept
  <1>7. fsTree \in [TreePath -> Kinds]
    BY DEF Shapes
  <1>8. CASE fsTree[p] = "none"
    <2>1. fsTree' = [fsTree EXCEPT ![p] = "dir"] /\ Files!Down(t)
      BY <1>5, <1>8 DEF Files!Mkdir
    <2> QED BY <1>2, <1>6, <1>7, <2>1
  <1>9. CASE fsTree[p] # "none"
    <2>1. UNCHANGED fsTree /\ Files!Down(t)
      BY <1>9 DEF Files!Mkdir, Files!ExistsIsFine
    <2>2. fsTree[p] = "dir"
      BY <1>4, <1>9 DEF Kinds
    <2> QED BY <1>6, <2>1, <2>2
  <1> QED BY <1>8, <1>9

LEMMA CreatedNext ==
  ASSUME Shapes, Shapes', Created, [Files!Next]_(Files!vars)
  PROVE  Created'
  <1> DEFINE Ops == {"create_parents", "collect"}
  <1>1. CASE UNCHANGED Files!vars
    <2>1. UNCHANGED <<fsTree, fsCall, fsFirst>>
      BY <1>1 DEF Files!vars
    <2> QED BY <2>1 DEF Created, Calm
  <1>2. ASSUME NEW t \in Thread,
               \/ Files!Start(t)
               \/ Files!Fopen(t) \/ Files!Access(t) \/ Files!IsDir(t) \/ Files!Mkdir(t)
               \/ Files!Opendir(t) \/ Files!Readdir(t) \/ Files!Stat(t) \/ Files!Take(t)
        PROVE  Created'
    <2> SUFFICES ASSUME Calm({"create_parents", "collect"})'
                 PROVE  Created'
      BY DEF Created
    <2>1. Calm({"create_parents", "collect"}) /\ \A u \in Thread \ {t} : fsCall'[u] = fsCall[u]
      BY <1>2, Before
    <2>2. fsCall[t].op \in {"create_parents", "collect", "none"}
      BY <2>1 DEF Calm
    <2>3. ~Files!Fopen(t) /\ ~Files!Take(t)
      BY <2>2, WhoseStep DEF Files!Fopen, Files!Take
    <2>4. CASE Files!Opendir(t) \/ Files!Readdir(t) \/ Files!Stat(t)
      <3>1. UNCHANGED fsTree /\ fsCall[t].op # "create_parents"
        BY <2>4, WhoseStep DEF Files!Opendir, Files!Readdir, Files!Stat
      <3>2. PICK c : Files!Go(t, c) /\ c.op = fsCall[t].op
        BY <2>4, Moving DEF Moves
      <3>3. fsCall'[t].op # "create_parents"
        BY <3>1, <3>2, Gone
      <3> QED BY <2>1, <3>1, <3>3, CreatedKept
    <2> QED BY <1>2, <2>1, <2>3, <2>4, CreatedStart, CreatedAccess, CreatedIsDir, CreatedMkdir
  <1> QED BY <1>1, <1>2 DEF Files!Next

LEMMA CreatedMeans ==
  ASSUME Shapes, Created
  PROVE  Files!CreatedTogether
  <1> SUFFICES ASSUME NEW t \in Thread, Files!Done(t, "create_parents"), Files!Only(t, {"create_parents", "collect"})
               PROVE  (fsCall[t].answer = "NONE") = (fsTree[fsCall[t].path] = "dir")
    BY DEF Files!CreatedTogether
  <1> DEFINE c == fsCall[t]
  <1>1. c.pc = "done" /\ c.op = "create_parents"
    BY DEF Files!Done
  <1>2. Calm({"create_parents", "collect"})
    BY <1>1 DEF Files!Only, Calm
  <1>3. IF c.answer = "NONE" THEN fsTree[c.path] = "dir" ELSE ~NoFile(fsTree, c.path, 0)
    BY <1>1, <1>2 DEF Created, Climbed
  <1>4. c.path \in TreePath
    BY <1>1, WhoseStep DEF Placed
  <1>5. fsTree \in [TreePath -> Kinds] /\ Files!IsTree(fsTree)
    BY DEF Shapes
  <1>6. ~NoFile(fsTree, c.path, 0) => fsTree[c.path] # "dir"
    <2> SUFFICES ASSUME NEW q \in TreePath, Prefix(q, c.path), fsTree[q] = "file", fsTree[c.path] = "dir"
                 PROVE  FALSE
      BY DEF NoFile
    <2> QED BY <1>4, <1>5, BelowNothing
  <1> QED BY <1>3, <1>6

-----------------------------------------------------------------------------
(* Directories deleted together.                                           *)

LEMMA SweptPush ==
  ASSUME NEW f, NEW old, NEW s \in Seq(Frames), NEW p \in TreePath, NEW left \in SUBSET Kids(p),
         Swept(f, s, {p}), Known(old, s), \A q \in Kids(p) : f[q] # "none" => q \in left,
         old[p] = "dir", \A q \in left : old[q] # "none"
  PROVE  /\ Swept(f, Append(s, [dir |-> p, left |-> left]), {})
         /\ Known(old, Append(s, [dir |-> p, left |-> left]))
  <1> DEFINE x == [dir |-> p, left |-> left]
             r == Append(s, x)
             n == Len(s)
  <1>1. x \in Frames /\ x.dir = p /\ x.left = left
    BY DEF Frames, Kids
  <1> HIDE DEF x
  <1>2. Len(r) = n + 1 /\ r[n + 1] = x /\ n \in Nat
    BY <1>1, Pushed
  <1>3. \A i \in 1 .. n : r[i] = s[i]
    BY <1>1, Pushed
  <1> HIDE DEF r, n
  <1>4. ASSUME NEW k \in 1 .. Len(r), NEW q \in Kids(r[k].dir), f[q] # "none"
        PROVE  q \in r[k].left \/ (k < Len(r) /\ q = r[k + 1].dir)
    <2>1. CASE k = n + 1
      BY <1>1, <1>2, <1>4, <2>1
    <2>2. CASE k \in 1 .. n
      <3>1. \/ q \in s[k].left
            \/ k < n /\ q = s[k + 1].dir
            \/ k = n /\ q = p
        BY <1>3, <1>4, <2>2 DEF Swept, n
      <3> QED BY <1>1, <1>2, <1>3, <2>2, <3>1
    <2> QED BY <1>2, <2>1, <2>2
  <1>5. ASSUME NEW k \in 1 .. Len(r)
        PROVE  old[r[k].dir] = "dir" /\ \A q \in r[k].left : old[q] # "none"
    <2>1. CASE k = n + 1
      BY <1>1, <1>2, <2>1
    <2>2. CASE k \in 1 .. n
      BY <1>3, <2>2 DEF Known, n
    <2> QED BY <1>2, <2>1, <2>2
  <1> QED BY <1>4, <1>5 DEF Swept, Known, r, x

LEMMA SweptPick ==
  ASSUME NEW f, NEW old, NEW s \in Seq(Frames), s # << >>, Swept(f, s, {}), Known(old, s), NEW p \in Files!Last(s).left
  PROVE  /\ old[p] # "none"
         /\ Swept(f, Append(Files!Front(s), [dir |-> Files!Last(s).dir, left |-> Files!Last(s).left \ {p}]), {p})
         /\ Known(old, Append(Files!Front(s), [dir |-> Files!Last(s).dir, left |-> Files!Last(s).left \ {p}]))
  <1> DEFINE n == Len(s)
             x == [dir |-> Files!Last(s).dir, left |-> Files!Last(s).left \ {p}]
             r == Append(Files!Front(s), x)
  <1>1. n \in Nat \ {0} /\ Files!Last(s) = s[n] /\ s[n] \in Frames
    BY Popped
  <1>2. x \in Frames /\ x.dir = s[n].dir /\ x.left = s[n].left \ {p}
    BY <1>1 DEF Frames
  <1> HIDE DEF x
  <1>3. Len(r) = n /\ r[n] = x
    BY <1>2, Replaced
  <1>4. \A i \in 1 .. n - 1 : r[i] = s[i]
    BY <1>2, Replaced
  <1> HIDE DEF r, n
  <1>5. old[p] # "none"
    BY <1>1 DEF Known, n
  <1>6. \A k \in 1 .. n : r[k].dir = s[k].dir /\ r[k].left \subseteq s[k].left
    BY <1>1, <1>2, <1>3, <1>4
  <1>7. ASSUME NEW k \in 1 .. Len(r), NEW q \in Kids(r[k].dir), f[q] # "none"
        PROVE  q \in r[k].left \/ (k < Len(r) /\ q = r[k + 1].dir) \/ (k = Len(r) /\ q = p)
    <2>1. k \in 1 .. n /\ q \in Kids(s[k].dir)
      BY <1>3, <1>6, <1>7
    <2>2. \/ q \in s[k].left
          \/ k < n /\ q = s[k + 1].dir
      BY <1>7, <2>1 DEF Swept, n
    <2>3. CASE k = n
      BY <1>1, <1>2, <1>3, <2>2, <2>3
    <2>4. CASE k \in 1 .. n - 1
      <3>1. r[k] = s[k] /\ k + 1 \in 1 .. n
        BY <1>1, <1>4, <2>4
      <3> QED BY <1>3, <1>6, <2>2, <3>1
    <2> QED BY <1>1, <2>1, <2>3, <2>4
  <1>8. \A k \in 1 .. Len(r) : old[r[k].dir] = "dir" /\ \A q \in r[k].left : old[q] # "none"
    BY <1>3, <1>6 DEF Known, n
  <1> QED BY <1>5, <1>7, <1>8 DEF Swept, Known, r, x

LEMMA SweptPop ==
  ASSUME NEW f, NEW old, NEW s \in Seq(Frames), s # << >>, Swept(f, s, {}), Known(old, s), Files!Last(s).left = {}
  PROVE  /\ Swept(f, Files!Front(s), {Files!Last(s).dir}) /\ Known(old, Files!Front(s))
         /\ old[Files!Last(s).dir] = "dir"
         /\ \A q \in Kids(Files!Last(s).dir) : f[q] = "none"
  <1> DEFINE n == Len(s)
             r == Files!Front(s)
  <1>1. n \in Nat \ {0} /\ Files!Last(s) = s[n] /\ Len(r) = n - 1
    BY Popped
  <1>2. \A i \in 1 .. n - 1 : r[i] = s[i]
    BY Popped
  <1> HIDE DEF n, r
  <1>3. \A q \in Kids(s[n].dir) : f[q] = "none"
    BY <1>1 DEF Swept, n
  <1>4. old[s[n].dir] = "dir"
    BY <1>1 DEF Known, n
  <1>5. \A k \in 1 .. Len(r) : old[r[k].dir] = "dir" /\ \A q \in r[k].left : old[q] # "none"
    BY <1>1, <1>2 DEF Known, n
  <1>6. ASSUME NEW k \in 1 .. Len(r), NEW q \in Kids(r[k].dir), f[q] # "none"
        PROVE  q \in r[k].left \/ (k < Len(r) /\ q = r[k + 1].dir) \/ (k = Len(r) /\ q = s[n].dir)
    <2>1. k \in 1 .. n - 1 /\ r[k] = s[k] /\ k \in 1 .. n
      BY <1>1, <1>2
    <2>2. q \in s[k].left \/ q = s[k + 1].dir
      BY <1>6, <2>1 DEF Swept, n
    <2> QED BY <1>1, <1>2, <2>1, <2>2
  <1> QED BY <1>1, <1>3, <1>4, <1>5, <1>6 DEF Swept, Known, r

LEMMA SweptRest ==
  ASSUME NEW f, NEW s, NEW p, Swept(f, s, {p}), f[p] = "none"
  PROVE  Swept(f, s, {})
  BY DEF Swept

LEMMA ClearingKept ==
  ASSUME NEW f \in [TreePath -> Kinds], NEW g \in [TreePath -> Kinds], NEW old,
         \A q \in TreePath : g[q] = f[q] \/ g[q] = "none",
         NEW c \in CallRecords, Placed(c), c.op = "delete", Clearing(f, old, c)
  PROVE  Clearing(g, old, c)
  <1> HIDE DEF CallRecords
  <1>1. c.path \in TreePath /\ (c.pc # "done" => c.at \in TreePath)
    BY DEF Placed, Walking
  <1>2. \A s, cur : Swept(f, s, cur) => Swept(g, s, cur)
    BY DEF Swept, Kids
  <1>3. \A q \in TreePath : f[q] = "none" => g[q] = "none"
    OBVIOUS
  <1>4. \A d : (\A q \in Kids(d) : f[q] = "none") => \A q \in Kids(d) : g[q] = "none"
    BY <1>3 DEF Kids
  <1>5. c.pc = "remove" /\ f[c.at] # "dir" => g[c.at] # "dir"
    BY <1>1
  <1> QED BY <1>1, <1>2, <1>3, <1>4, <1>5 DEF Clearing

LEMMA ClearingOn ==
  ASSUME NEW f, NEW old, NEW c, c.op = "delete", NEW s, Swept(f, s, {}), Known(old, s),
         s = << >> => f[c.path] = "none"
  PROVE  Clearing(f, old, Onwards(c, s))
  <1>1. CASE s # << >>
    <2>1. Onwards(c, s) = Files!At(c, "readdir", c.at, s)
      BY <1>1 DEF Onwards
    <2> QED BY <2>1 DEF Clearing, Cur, Files!At
  <1>2. CASE s = << >>
    <2>1. Onwards(c, s) = Files!Answered(c, "NONE")
      BY <1>2 DEF Onwards
    <2> QED BY <1>2, <2>1 DEF Clearing, Files!Answered
  <1> QED BY <1>1, <1>2

LEMMA UnderPath ==
  ASSUME NEW path \in TreePath, NEW s \in Seq(Frames), NEW p \in TreePath, Walk(path, s, {p})
  PROVE  Prefix(path, p)
  <1>1. CASE s = << >>
    BY <1>1, PrefixOrder DEF Walk
  <1>2. CASE s # << >>
    <2>1. Len(s) \in Nat \ {0} /\ s[Len(s)] \in Frames
      BY <1>2, Popped
    <2>2. s[1].dir = path /\ p \in Kids(s[Len(s)].dir)
      BY <1>2 DEF Walk
    <2>3. Prefix(s[1].dir, s[Len(s)].dir)
      BY <2>1 DEF Walk
    <2>4. Prefix(s[Len(s)].dir, p) /\ s[Len(s)].dir \in TreePath
      BY <2>1, <2>2 DEF Kids, Frames
    <2> QED BY <2>2, <2>3, <2>4, PrefixOrder
  <1> QED BY <1>1, <1>2

LEMMA AskedKept ==
  ASSUME Shapes, NEW t \in Thread,
         \/ Files!Start(t)
         \/ Files!Fopen(t) \/ Files!Access(t) \/ Files!IsDir(t) \/ Files!Mkdir(t)
         \/ Files!Opendir(t) \/ Files!Readdir(t) \/ Files!Stat(t) \/ Files!Take(t)
  PROVE  \A u \in Thread : fsCall[u].op # "none" => fsCall'[u].op = fsCall[u].op /\ fsCall'[u].path = fsCall[u].path
  <1>1. CASE Files!Start(t)
    <2>1. fsCall[t].op = "none"
      BY <1>1, WhoseStep DEF Placed, Files!Start
    <2>2. \A u \in Thread \ {t} : fsCall'[u] = fsCall[u]
      BY <1>1, Gone DEF Files!Start
    <2> QED BY <2>1, <2>2
  <1>2. CASE ~Files!Start(t)
    <2>1. PICK c : Files!Go(t, c) /\ c.op = fsCall[t].op /\ c.path = fsCall[t].path
      BY <1>2, Moving DEF Moves
    <2>2. fsCall'[t] = c /\ \A u \in Thread \ {t} : fsCall'[u] = fsCall[u]
      BY <2>1, Gone
    <2> QED BY <2>1, <2>2
  <1> QED BY <1>1, <1>2

LEMMA DeletedKept ==
  ASSUME Shapes, Shapes', Calm({"delete", "rmdir", "collect"}), Deleted, fsFirst' = fsFirst, NEW t \in Thread,
         \A u \in Thread \ {t} : fsCall'[u] = fsCall[u],
         \A u \in Thread : fsCall[u].op # "none" => fsCall'[u].op = fsCall[u].op /\ fsCall'[u].path = fsCall[u].path,
         \A q \in TreePath : fsTree'[q] = fsTree[q] \/ (fsTree'[q] = "none" /\ Asked(q)),
         fsCall'[t].op = "delete" => Clearing(fsTree', fsFirst, fsCall'[t])
  PROVE  Deleted'
  <1>1. fsTree \in [TreePath -> Kinds] /\ fsTree' \in [TreePath -> Kinds]
    BY DEF Shapes
  <1>2. \A q : Asked(q) => Asked(q)'
    BY DEF Asked
  <1>3. \A q \in TreePath : fsTree'[q] # fsFirst'[q] => fsTree'[q] = "none" /\ Asked(q)'
    BY <1>2 DEF Deleted
  <1>4. ASSUME NEW u \in Thread \ {t}, fsCall'[u].op = "delete"
        PROVE  Clearing(fsTree', fsFirst', fsCall'[u])
    <2> DEFINE c == fsCall[u]
    <2>1. c \in CallRecords /\ Placed(c) /\ fsCall'[u] = c
      BY WhoseStep
    <2>2. c.op = "delete" /\ Clearing(fsTree, fsFirst, c)
      BY <1>4, <2>1 DEF Deleted
    <2> HIDE DEF c, CallRecords
    <2>3. Clearing(fsTree', fsFirst, c)
      BY <1>1, <2>1, <2>2, ClearingKept
    <2> QED BY <2>1, <2>3
  <1> QED BY <1>3, <1>4 DEF Deleted

(* What was there is a directory still, or gone, and nothing blocks it.    *)
LEMMA NotBlocked ==
  ASSUME Shapes, Calm({"delete", "rmdir", "collect"}), Deleted, NEW p \in TreePath
  PROVE  /\ fsTree[p] # "none" => fsFirst[p] = fsTree[p]
         /\ fsFirst[p] # "none" => Files!Lookup(p) = fsTree[p] /\ fsTree[p] \in {fsFirst[p], "none"}
  <1>1. \A q \in TreePath : fsTree[q] \in {fsFirst[q], "none"}
    BY DEF Deleted
  <1>2. fsFirst \in [TreePath -> Kinds] /\ Files!IsTree(fsFirst)
    BY DEF Shapes
  <1>3. ASSUME fsFirst[p] # "none", Files!Lookup(p) = "notdir"
        PROVE  FALSE
    <2>1. PICK q \in TreePath : q # p /\ Prefix(q, p) /\ fsTree[q] = "file"
      BY <1>3, LookupIs
    <2>2. fsFirst[q] = "dir"
      BY <1>2, <1>3, <2>1, BelowNothing
    <2> QED BY <1>1, <2>1, <2>2
  <1> QED BY <1>1, <1>3, LookupIs

LEMMA DeletedOpendir ==
  ASSUME Shapes, Shapes', Calm({"delete", "rmdir", "collect"}), Deleted, NEW t \in Thread,
         Files!Opendir(t), fsCall[t].op = "delete"
  PROVE  Deleted'
  <1> DEFINE c == fsCall[t]
             p == c.at
             s == c.stack
  <1>1. c.pc = "opendir" /\ UNCHANGED <<fsTree, fsFirst>>
    BY DEF Files!Opendir
  <1>2. /\ c \in CallRecords /\ c.op = "delete" /\ Files!Deleting(t)
        /\ c.path \in TreePath /\ p \in TreePath /\ s \in Seq(Frames)
    BY <1>1, WhoseStep, Typed
  <1> HIDE DEF CallRecords
  <1>3. /\ Swept(fsTree, s, {p}) /\ Known(fsFirst, s)
        /\ fsFirst[c.path] = "dir" => fsFirst[p] = "dir"
    BY <1>1, <1>2 DEF Deleted, Clearing, Cur
  <1>4. ASSUME NEW r, Files!Go(t, r), Clearing(fsTree, fsFirst, r)
        PROVE  Deleted'
    <2>1. fsCall'[t] = r /\ \A u \in Thread \ {t} : fsCall'[u] = fsCall[u]
      BY <1>4, Gone
    <2> QED BY <1>1, <1>4, <2>1, AskedKept, DeletedKept
  <1>5. CASE Files!Lookup(p) = "dir" /\ Files!Go(t, Files!At(c, "readdir", p, Append(s, Files!Frame(p))))
    <2>1. fsTree[p] = "dir" /\ fsFirst[p] = "dir"
      BY <1>2, <1>5, LookupIs, NotBlocked
    <2> DEFINE left == Files!Children(p)
               r == Append(s, [dir |-> p, left |-> left])
    <2>2. left \in SUBSET Kids(p) /\ \A q \in Kids(p) : q \in left <=> fsTree[q] # "none"
      BY <1>2, AboveBelow
    <2>3. \A q \in left : fsFirst[q] # "none"
      BY <2>2, NotBlocked DEF Kids
    <2> HIDE DEF left
    <2>4. Swept(fsTree, r, {}) /\ Known(fsFirst, r)
      BY <1>2, <1>3, <2>1, <2>2, <2>3, SweptPush
    <2>5. Append(s, Files!Frame(p)) = r
      BY DEF Files!Frame, left
    <2> HIDE DEF r
    <2>6. Clearing(fsTree, fsFirst, Files!At(c, "readdir", p, r))
      BY <2>4 DEF Clearing, Cur, Files!At
    <2> QED BY <1>4, <1>5, <2>5, <2>6
  <1>6. CASE Files!Lookup(p) = "none" /\ Files!Go(t, Files!At(c, "rmdir", p, s))
    <2>1. fsTree[p] = "none" /\ fsTree \in [TreePath -> Kinds] /\ Files!IsTree(fsTree)
      BY <1>2, <1>6, LookupIs DEF Shapes
    <2>2. \A q \in Kids(p) : fsTree[q] = "none"
      <3> SUFFICES ASSUME NEW q \in Kids(p), fsTree[q] # "none"
                   PROVE  FALSE
        OBVIOUS
      <3>1. q \in TreePath /\ Prefix(p, q) /\ q # p
        BY <1>2, PathLength DEF Kids
      <3> QED BY <1>2, <2>1, <3>1, BelowNothing
    <2>3. Clearing(fsTree, fsFirst, Files!At(c, "rmdir", p, s))
      BY <1>3, <2>2 DEF Clearing, Cur, Files!At
    <2> QED BY <1>4, <1>6, <2>3
  <1>7. CASE Files!Lookup(p) \in {"file", "notdir"} /\ Files!Answer(t, "error")
    <2>1. fsFirst[c.path] # "dir"
      BY <1>2, <1>3, <1>7, NotBlocked
    <2>2. Clearing(fsTree, fsFirst, Files!Answered(c, "error"))
      BY <2>1 DEF Clearing, Files!Answered
    <2> QED BY <1>4, <1>7, <2>2 DEF Files!Answer
  <1> QED BY <1>2, <1>5, <1>6, <1>7 DEF Files!Opendir

LEMMA DeletedReaddir ==
  ASSUME Shapes, Shapes', Calm({"delete", "rmdir", "collect"}), Deleted, NEW t \in Thread,
         Files!Readdir(t), fsCall[t].op = "delete"
  PROVE  Deleted'
  <1> DEFINE c == fsCall[t]
             s == c.stack
  <1>1. c.pc = "readdir" /\ UNCHANGED <<fsTree, fsFirst>>
    BY DEF Files!Readdir
  <1>2. /\ c \in CallRecords /\ c.op = "delete" /\ Files!Deleting(t) /\ Placed(c)
        /\ s \in Seq(Frames)
    BY <1>1, WhoseStep, Typed
  <1>3. s # << >>
    BY <1>1, <1>2 DEF Placed, Walking
  <1> HIDE DEF CallRecords
  <1>4. Swept(fsTree, s, {}) /\ Known(fsFirst, s)
    BY <1>1, <1>2 DEF Deleted, Clearing, Cur
  <1>5. ASSUME NEW r, Files!Go(t, r), Clearing(fsTree, fsFirst, r)
        PROVE  Deleted'
    <2>1. fsCall'[t] = r /\ \A u \in Thread \ {t} : fsCall'[u] = fsCall[u]
      BY <1>5, Gone
    <2> QED BY <1>1, <1>5, <2>1, AskedKept, DeletedKept
  <1>6. Files!Top(t) = Files!Last(s)
    BY DEF Files!Top
  <1>7. ASSUME NEW p \in Files!Last(s).left,
               Files!Go(t, Files!At(c, "stat", p, Append(Files!Front(s),
                          [dir |-> Files!Last(s).dir, left |-> Files!Last(s).left \ {p}])))
        PROVE  Deleted'
    <2> DEFINE r == Append(Files!Front(s), [dir |-> Files!Last(s).dir, left |-> Files!Last(s).left \ {p}])
    <2>1. fsFirst[p] # "none" /\ Swept(fsTree, r, {p}) /\ Known(fsFirst, r)
      BY <1>2, <1>3, <1>4, SweptPick
    <2> HIDE DEF r
    <2>2. Clearing(fsTree, fsFirst, Files!At(c, "stat", p, r))
      BY <2>1 DEF Clearing, Cur, Files!At
    <2> QED BY <1>5, <1>7, <2>2 DEF r
  <1>8. CASE Files!Last(s).left = {} /\ Files!Go(t, Files!At(c, "rmdir", Files!Last(s).dir, Files!Front(s)))
    <2> HIDE DEF s
    <2>1. /\ Swept(fsTree, Files!Front(s), {Files!Last(s).dir}) /\ Known(fsFirst, Files!Front(s))
          /\ fsFirst[Files!Last(s).dir] = "dir" /\ \A q \in Kids(Files!Last(s).dir) : fsTree[q] = "none"
      BY <1>2, <1>3, <1>4, <1>8, SweptPop
    <2> DEFINE p == Files!Last(s).dir
               r == Files!Front(s)
    <2> HIDE DEF p, r
    <2>2. Clearing(fsTree, fsFirst, Files!At(c, "rmdir", p, r))
      BY <2>1 DEF Clearing, Cur, Files!At, p, r
    <2> QED BY <1>5, <1>8, <2>2 DEF p, r
  <1> QED BY <1>2, <1>6, <1>7, <1>8 DEF Files!Readdir

LEMMA DeletedStat ==
  ASSUME Shapes, Shapes', Calm({"delete", "rmdir", "collect"}), Deleted, NEW t \in Thread,
         Files!Stat(t), fsCall[t].op = "delete"
  PROVE  Deleted'
  <1> DEFINE c == fsCall[t]
             p == c.at
             s == c.stack
  <1>1. c.pc = "stat" /\ UNCHANGED <<fsTree, fsFirst>>
    BY DEF Files!Stat
  <1>2. /\ c \in CallRecords /\ c.op = "delete" /\ Files!Deleting(t)
        /\ p \in TreePath /\ s \in Seq(Frames)
    BY <1>1, WhoseStep, Typed
  <1> HIDE DEF CallRecords
  <1>3. Swept(fsTree, s, {p}) /\ Known(fsFirst, s) /\ fsFirst[p] # "none"
    BY <1>1, <1>2 DEF Deleted, Clearing, Cur
  <1>4. ASSUME NEW r, Files!Go(t, r), Clearing(fsTree, fsFirst, r)
        PROVE  Deleted'
    <2>1. fsCall'[t] = r /\ \A u \in Thread \ {t} : fsCall'[u] = fsCall[u]
      BY <1>4, Gone
    <2> QED BY <1>1, <1>4, <2>1, AskedKept, DeletedKept
  <1>5. CASE Files!Lookup(p) = "dir"
    <2>1. Files!Go(t, Files!At(c, "opendir", p, s))
      BY <1>2, <1>5 DEF Files!Stat
    <2>2. fsFirst[p] = "dir"
      BY <1>2, <1>5, LookupIs, NotBlocked
    <2>3. Clearing(fsTree, fsFirst, Files!At(c, "opendir", p, s))
      BY <1>3, <2>2 DEF Clearing, Cur, Files!At
    <2> QED BY <1>4, <2>1, <2>3
  <1>6. CASE Files!Lookup(p) # "dir"
    <2>1. Files!Go(t, Files!At(c, "remove", p, s))
      BY <1>2, <1>6 DEF Files!Stat
    <2>2. fsTree[p] # "dir"
      BY <1>2, <1>6, LookupIs
    <2>3. Clearing(fsTree, fsFirst, Files!At(c, "remove", p, s))
      BY <1>3, <2>2 DEF Clearing, Cur, Files!At
    <2> QED BY <1>4, <2>1, <2>3
  <1> QED BY <1>5, <1>6

LEMMA DeletedTake ==
  ASSUME Shapes, Shapes', Calm({"delete", "rmdir", "collect"}), Deleted, NEW t \in Thread, Files!Take(t)
  PROVE  Deleted'
  <1> DEFINE c == fsCall[t]
             p == c.at
             s == c.stack
  <1>1. c.pc \in {"remove", "rmdir"} /\ fsFirst' = fsFirst
    BY DEF Files!Take
  <1>2. /\ c \in CallRecords /\ Placed(c) /\ c.op \in {"delete", "rmdir"}
        /\ c.path \in TreePath /\ p \in TreePath /\ s \in Seq(Frames)
    BY <1>1, WhoseStep, Typed
  <1>3. c.op = "delete" => Walk(c.path, s, {p})
    BY <1>1, <1>2 DEF Placed, Walking, Cur
  <1> HIDE DEF CallRecords
  <1>4. Asked(p)
    <2>1. Prefix(c.path, p)
      BY <1>1, <1>2, <1>3, UnderPath, PrefixOrder DEF Placed
    <2> QED BY <1>2, <2>1 DEF Asked
  <1>5. c.op = "delete" =>
          /\ Swept(fsTree, s, {p}) /\ Known(fsFirst, s)
          /\ c.pc = "remove" => fsFirst[p] # "none" /\ fsTree[p] # "dir"
          /\ c.pc = "rmdir" /\ fsFirst[c.path] = "dir" => fsFirst[p] = "dir"
          /\ c.pc = "rmdir" => \A q \in Kids(p) : fsTree[q] = "none"
    BY <1>1 DEF Deleted, Clearing, Cur
  <1>6. ASSUME NEW r, Files!Go(t, r), r.op = c.op, c.op = "delete" => Clearing(fsTree', fsFirst, r),
               \A q \in TreePath : fsTree'[q] = fsTree[q] \/ (fsTree'[q] = "none" /\ Asked(q))
        PROVE  Deleted'
    <2>1. fsCall'[t] = r /\ \A u \in Thread \ {t} : fsCall'[u] = fsCall[u]
      BY <1>6, Gone
    <2> QED BY <1>1, <1>6, <2>1, AskedKept, DeletedKept
  <1>7. fsTree \in [TreePath -> Kinds] /\ fsTree' \in [TreePath -> Kinds]
    BY DEF Shapes
  <1>8. ASSUME fsTree'[p] = "none", \A q \in TreePath \ {p} : fsTree'[q] = fsTree[q], Files!Onward(t, s)
        PROVE  Deleted'
    <2>1. \A q \in TreePath : fsTree'[q] = fsTree[q] \/ (fsTree'[q] = "none" /\ Asked(q))
      BY <1>2, <1>4, <1>8
    <2>2. Files!Go(t, Onwards(c, s)) /\ Onwards(c, s).op = c.op
      BY <1>2, <1>8, Outcomes, SameCall
    <2>3. ASSUME c.op = "delete"
          PROVE  Clearing(fsTree', fsFirst, Onwards(c, s))
      <3>1. Swept(fsTree', s, {p})
        BY <1>5, <1>8, <2>3 DEF Swept, Kids
      <3>2. Swept(fsTree', s, {})
        BY <1>8, <3>1, SweptRest
      <3>3. s = << >> => p = c.path
        BY <1>3, <2>3 DEF Walk
      <3> QED BY <1>5, <1>8, <2>3, <3>2, <3>3, ClearingOn
    <2> QED BY <1>6, <2>1, <2>2, <2>3
  <1> DEFINE takes == Files!Removable(p) /\ (c.pc = "rmdir" => fsTree[p] = "dir")
  <1>9. CASE takes
    <2>1. fsTree' = [fsTree EXCEPT ![p] = "none"] /\ Files!Onward(t, s)
      BY <1>9 DEF Files!Take
    <2> QED BY <1>2, <1>7, <1>8, <2>1
  <1>10. CASE ~takes /\ Files!Lookup(p) = "none"
    <2>1. UNCHANGED fsTree /\ Files!Onward(t, s)
      BY <1>10 DEF Files!Take
    <2>2. fsTree[p] = "none"
      BY <1>2, <1>10, LookupIs
    <2> QED BY <1>8, <2>1, <2>2
  <1>11. CASE ~takes /\ Files!Lookup(p) # "none"
    <2>1. UNCHANGED fsTree /\ Files!Go(t, Files!Answered(c, "error"))
      BY <1>11 DEF Files!Take, Files!Answer
    <2>2. Files!Answered(c, "error").op = c.op
      BY DEF Files!Answered
    <2>3. ASSUME c.op = "delete", fsFirst[c.path] = "dir"
          PROVE  FALSE
      <3>1. fsFirst[p] # "none"
        BY <1>1, <1>5, <2>3
      <3>2. Files!Lookup(p) = fsTree[p] /\ fsTree[p] \in {fsFirst[p], "none"}
        BY <1>2, <3>1, NotBlocked
      <3>3. fsTree[p] # "none" /\ fsTree[p] \in Kinds
        BY <1>2, <1>7, <1>11, <3>2
      <3>4. CASE c.pc = "remove"
        BY <1>5, <1>11, <2>3, <3>3, <3>4 DEF Files!Removable, Kinds
      <3>5. CASE c.pc = "rmdir"
        <4>1. fsTree[p] = "dir"
          BY <1>5, <2>3, <3>2, <3>3, <3>5
        <4>2. Files!Children(p) = {}
          BY <1>2, <1>5, <2>3, <3>5, AboveBelow
        <4> QED BY <1>11, <4>1, <4>2 DEF Files!Removable
      <3> QED BY <1>1, <3>4, <3>5
    <2>4. c.op = "delete" => Clearing(fsTree, fsFirst, Files!Answered(c, "error"))
      BY <2>3 DEF Clearing, Files!Answered
    <2> QED BY <1>6, <2>1, <2>2, <2>4
  <1> QED BY <1>9, <1>10, <1>11

LEMMA DeletedNext ==
  ASSUME Shapes, Shapes', Deleted, [Files!Next]_(Files!vars)
  PROVE  Deleted'
  <1>1. CASE UNCHANGED Files!vars
    <2>1. UNCHANGED <<fsTree, fsCall, fsFirst>>
      BY <1>1 DEF Files!vars
    <2> QED BY <2>1 DEF Deleted, Calm, Asked
  <1>2. ASSUME NEW t \in Thread,
               \/ Files!Start(t)
               \/ Files!Fopen(t) \/ Files!Access(t) \/ Files!IsDir(t) \/ Files!Mkdir(t)
               \/ Files!Opendir(t) \/ Files!Readdir(t) \/ Files!Stat(t) \/ Files!Take(t)
        PROVE  Deleted'
    <2> SUFFICES ASSUME Calm({"delete", "rmdir", "collect"})'
                 PROVE  Deleted'
      BY DEF Deleted
    <2>1. /\ Calm({"delete", "rmdir", "collect"}) /\ fsFirst' = fsFirst
          /\ \A u \in Thread \ {t} : fsCall'[u] = fsCall[u]
      BY <1>2, Before
    <2>2. \A u \in Thread : fsCall[u].op # "none" => fsCall'[u].op = fsCall[u].op /\ fsCall'[u].path = fsCall[u].path
      BY <1>2, AskedKept
    <2>3. fsCall[t].op \in {"delete", "rmdir", "collect", "none"}
      BY <2>1 DEF Calm
    <2>4. ~Files!Fopen(t) /\ ~Files!Access(t) /\ ~Files!IsDir(t) /\ ~Files!Mkdir(t)
      BY <2>3, WhoseStep DEF Files!Fopen, Files!Access, Files!IsDir, Files!Mkdir
    <2>5. CASE Files!Start(t)
      <3>1. PICK c \in TreeCall :
              Files!Go(t, [op |-> c.op, path |-> c.path, pc |-> Files!Entry(c.op), at |-> c.path, stack |-> << >>,
                           pass |-> "count", count |-> 0, list |-> {}, answer |-> "none"])
        BY <2>5 DEF Files!Start
      <3> DEFINE r == [op |-> c.op, path |-> c.path, pc |-> Files!Entry(c.op), at |-> c.path, stack |-> << >>,
                       pass |-> "count", count |-> 0, list |-> {}, answer |-> "none"]
      <3>2. r.op = c.op /\ r.path = c.path /\ r.at = c.path /\ r.stack = << >> /\ (c.op = "delete" => r.pc = "opendir")
        BY DEF Files!Entry
      <3>3. Files!Go(t, r) /\ UNCHANGED fsTree
        BY <2>5, <3>1 DEF Files!Start
      <3> HIDE DEF r
      <3>4. fsCall'[t] = r
        BY <3>3, Gone
      <3>5. r.op = "delete" => Clearing(fsTree, fsFirst, r)
        BY <3>2 DEF Clearing, Swept, Known
      <3> QED BY <2>1, <2>2, <3>3, <3>4, <3>5, DeletedKept
    <2>6. CASE (Files!Opendir(t) \/ Files!Readdir(t) \/ Files!Stat(t)) /\ fsCall[t].op # "delete"
      <3>1. UNCHANGED fsTree /\ fsCall[t].op = "collect"
        BY <2>6, WhoseStep DEF Files!Opendir, Files!Readdir, Files!Stat
      <3>2. fsCall'[t].op # "delete"
        BY <2>2, <3>1
      <3> QED BY <2>1, <2>2, <3>1, <3>2, DeletedKept
    <2> QED BY <1>2, <2>1, <2>4, <2>5, <2>6, DeletedOpendir, DeletedReaddir, DeletedStat, DeletedTake
  <1> QED BY <1>1, <1>2 DEF Files!Next

LEMMA DeletedMeans ==
  ASSUME Shapes, Deleted
  PROVE  Files!DeletedTogether
  <1> SUFFICES ASSUME NEW t \in Thread, Files!Done(t, "delete"), Files!Only(t, {"delete", "rmdir", "collect"})
               PROVE  /\ fsFirst[fsCall[t].path] = "dir" => fsCall[t].answer = "NONE"
                      /\ fsCall[t].answer = "NONE" => fsTree[fsCall[t].path] = "none"
                      /\ \A p \in TreePath :
                           fsTree[p] # fsFirst[p] =>
                             \E u \in Thread : Files!Deleting(u) /\ Files!IsPrefix(fsCall[u].path, p)
    BY DEF Files!DeletedTogether
  <1>1. fsCall[t].pc = "done" /\ fsCall[t].op = "delete"
    BY DEF Files!Done
  <1>2. Calm({"delete", "rmdir", "collect"})
    BY <1>1 DEF Files!Only, Calm
  <1>3. Clearing(fsTree, fsFirst, fsCall[t])
    BY <1>1, <1>2 DEF Deleted
  <1>4. \A p \in TreePath : fsTree[p] # fsFirst[p] => Asked(p)
    BY <1>2 DEF Deleted
  <1> QED BY <1>1, <1>3, <1>4 DEF Clearing, Asked, Files!Deleting, Prefix

-----------------------------------------------------------------------------
(* What a collection finds.                                                *)

LEMMA Covers ==
  ASSUME NEW f, NEW s
  PROVE  \A q : q \in Covered(f, s) <=> \E k \in 1 .. Len(s) : \E l \in s[k].left : q \in There(f, l)
  BY DEF Covered

LEMMA CoversNothing == \A f : Covered(f, << >>) = {}
  BY DEF Covered

LEMMA ThereBelow ==
  ASSUME NEW f \in [TreePath -> Kinds], Files!IsTree(f), NEW p \in TreePath
  PROVE  /\ There(f, p) \ {p} = UNION {There(f, l) : l \in {q \in Kids(p) : f[q] # "none"}}
         /\ f[p] # "none" => p \in There(f, p)
         /\ f[p] # "dir" => There(f, p) \ {p} = {}
         /\ IsFiniteSet(There(f, p)) /\ There(f, p) \subseteq TreePath
  <1>1. ASSUME NEW q \in There(f, p) \ {p}
        PROVE  \E l \in {k \in Kids(p) : f[k] # "none"} : q \in There(f, l)
    <2>1. q \in TreePath /\ Prefix(p, q) /\ p # q /\ f[q] # "none"
      BY DEF There
    <2>2. PICK l \in Kids(p) : Prefix(l, q)
      BY <2>1, OnTheWay
    <2>3. l \in TreePath
      BY DEF Kids
    <2>4. f[l] # "none"
      BY <2>1, <2>2, <2>3, BelowNothing
    <2> QED BY <2>1, <2>2, <2>4 DEF There
  <1>2. ASSUME NEW l \in Kids(p), NEW q \in There(f, l)
        PROVE  q \in There(f, p) \ {p}
    <2>1. l \in TreePath /\ Prefix(p, l) /\ Len(l) = Len(p) + 1
      BY DEF Kids
    <2>2. q \in TreePath /\ Prefix(l, q) /\ f[q] # "none"
      BY DEF There
    <2>3. Len(l) <= Len(q)
      BY <2>1, <2>2, PrefixIs
    <2>4. q # p
      BY <2>1, <2>3, PathLength
    <2> QED BY <2>1, <2>2, <2>4, PrefixOrder DEF There
  <1>3. There(f, p) \ {p} = UNION {There(f, l) : l \in {q \in Kids(p) : f[q] # "none"}}
    BY <1>1, <1>2
  <1>4. f[p] # "none" => p \in There(f, p)
    BY PrefixOrder DEF There
  <1>5. f[p] # "dir" => There(f, p) \ {p} = {}
    BY BelowNothing DEF There
  <1>6. There(f, p) \subseteq TreePath
    BY DEF There
  <1>7. IsFiniteSet(There(f, p))
    BY <1>6, TreeAssumption, FS_Subset
  <1> QED BY <1>3, <1>4, <1>5, <1>6, <1>7

LEMMA CoveredPush ==
  ASSUME NEW f \in [TreePath -> Kinds], Files!IsTree(f), NEW s \in Seq(Frames), NEW p \in TreePath,
         NEW left, left = {q \in Kids(p) : f[q] # "none"}, Existing(f, s)
  PROVE  /\ Covered(f, Append(s, [dir |-> p, left |-> left])) = Covered(f, s) \union (There(f, p) \ {p})
         /\ Existing(f, Append(s, [dir |-> p, left |-> left]))
  <1> DEFINE x == [dir |-> p, left |-> left]
             r == Append(s, x)
             n == Len(s)
  <1>1. x \in Frames /\ x.left = left
    BY DEF Frames, Kids
  <1> HIDE DEF x
  <1>2. Len(r) = n + 1 /\ r[n + 1] = x /\ n \in Nat
    BY <1>1, Pushed
  <1>3. \A i \in 1 .. n : r[i] = s[i]
    BY <1>1, Pushed
  <1> HIDE DEF r, n
  <1>4. \A q : q \in There(f, p) \ {p} <=> \E l \in left : q \in There(f, l)
    BY ThereBelow
  <1>5. \A q : q \in Covered(f, s) <=> \E k \in 1 .. n : \E l \in s[k].left : q \in There(f, l)
    BY Covers DEF n
  <1>6. \A q : q \in Covered(f, r) <=> \E k \in 1 .. n + 1 : \E l \in r[k].left : q \in There(f, l)
    BY <1>2, Covers
  <1>7. \A q : q \in Covered(f, r) <=> q \in Covered(f, s) \/ q \in There(f, p) \ {p}
    <2> SUFFICES ASSUME NEW q
                 PROVE  q \in Covered(f, r) <=> q \in Covered(f, s) \/ q \in There(f, p) \ {p}
      OBVIOUS
    <2>1. ASSUME q \in Covered(f, r)
          PROVE  q \in Covered(f, s) \/ q \in There(f, p) \ {p}
      <3>1. PICK k \in 1 .. n + 1 : \E l \in r[k].left : q \in There(f, l)
        BY <1>6, <2>1
      <3>2. CASE k = n + 1
        BY <1>1, <1>2, <1>4, <3>1, <3>2
      <3>3. CASE k \in 1 .. n
        BY <1>3, <1>5, <3>1, <3>3
      <3> QED BY <1>2, <3>2, <3>3
    <2>2. ASSUME q \in Covered(f, s)
          PROVE  q \in Covered(f, r)
      <3>1. PICK k \in 1 .. n : \E l \in s[k].left : q \in There(f, l)
        BY <1>5, <2>2
      <3>2. k \in 1 .. n + 1 /\ r[k] = s[k]
        BY <1>2, <1>3
      <3> QED BY <1>6, <3>1, <3>2
    <2>3. ASSUME q \in There(f, p) \ {p}
          PROVE  q \in Covered(f, r)
      <3>1. n + 1 \in 1 .. n + 1
        BY <1>2
      <3> QED BY <1>1, <1>2, <1>4, <1>6, <2>3, <3>1
    <2> QED BY <2>1, <2>2, <2>3
  <1>8. Existing(f, r)
    <2> SUFFICES ASSUME NEW k \in 1 .. n + 1, NEW l \in r[k].left
                 PROVE  f[l] # "none"
      BY <1>2 DEF Existing
    <2>1. CASE k = n + 1
      BY <1>1, <1>2, <2>1
    <2>2. CASE k \in 1 .. n
      BY <1>3, <2>2 DEF Existing, n
    <2> QED BY <1>2, <2>1, <2>2
  <1> QED BY <1>7, <1>8 DEF r, x

LEMMA CoveredPick ==
  ASSUME NEW f, NEW s \in Seq(Frames), s # << >>, Existing(f, s), NEW p \in Files!Last(s).left
  PROVE  LET r == Append(Files!Front(s), [dir |-> Files!Last(s).dir, left |-> Files!Last(s).left \ {p}])
         IN  Covered(f, s) = Covered(f, r) \union There(f, p) /\ Existing(f, r) /\ f[p] # "none"
  <1> DEFINE n == Len(s)
             x == [dir |-> Files!Last(s).dir, left |-> Files!Last(s).left \ {p}]
             r == Append(Files!Front(s), x)
  <1>1. n \in Nat \ {0} /\ Files!Last(s) = s[n] /\ s[n] \in Frames
    BY Popped
  <1>2. x \in Frames /\ x.left = s[n].left \ {p}
    BY <1>1 DEF Frames
  <1> HIDE DEF x
  <1>3. Len(r) = n /\ r[n] = x
    BY <1>2, Replaced
  <1>4. \A i \in 1 .. n - 1 : r[i] = s[i]
    BY <1>2, Replaced
  <1> HIDE DEF r, n
  <1>5. \A k \in 1 .. n : r[k].left = IF k = n THEN s[k].left \ {p} ELSE s[k].left
    <2> SUFFICES ASSUME NEW k \in 1 .. n
                 PROVE  r[k].left = IF k = n THEN s[k].left \ {p} ELSE s[k].left
      OBVIOUS
    <2>1. CASE k = n
      BY <1>2, <1>3, <2>1
    <2>2. CASE k # n
      <3>1. k \in 1 .. n - 1
        BY <1>1, <2>2
      <3> QED BY <1>4, <2>2, <3>1
    <2> QED BY <2>1, <2>2
  <1>6. p \in s[n].left /\ n \in 1 .. n
    BY <1>1
  <1>7. \A q : q \in Covered(f, s) <=> \E k \in 1 .. n : \E l \in s[k].left : q \in There(f, l)
    BY Covers DEF n
  <1>8. \A q : q \in Covered(f, r) <=> \E k \in 1 .. n : \E l \in r[k].left : q \in There(f, l)
    BY <1>3, Covers
  <1>9. \A q : q \in Covered(f, s) <=> q \in Covered(f, r) \/ q \in There(f, p)
    <2>1. \A k \in 1 .. n : \A l : l \in s[k].left <=> l \in r[k].left \/ (k = n /\ l = p)
      BY <1>5, <1>6
    <2> QED BY <1>6, <1>7, <1>8, <2>1, Zenon
  <1>10. Existing(f, r) /\ f[p] # "none"
    BY <1>3, <1>5, <1>6 DEF Existing, n
  <1> QED BY <1>9, <1>10 DEF r, x

LEMMA CoveredPop ==
  ASSUME NEW f, NEW s \in Seq(Frames), s # << >>, Existing(f, s), Files!Last(s).left = {}
  PROVE  Covered(f, Files!Front(s)) = Covered(f, s) /\ Existing(f, Files!Front(s))
  <1> DEFINE n == Len(s)
             r == Files!Front(s)
  <1>1. n \in Nat \ {0} /\ s[n].left = {} /\ Len(r) = n - 1
    BY Popped
  <1>2. \A i \in 1 .. n - 1 : r[i] = s[i]
    BY Popped
  <1> HIDE DEF r, n
  <1>3. \A q : q \in Covered(f, s) <=> \E k \in 1 .. n : \E l \in s[k].left : q \in There(f, l)
    BY Covers DEF n
  <1>4. \A q : q \in Covered(f, r) <=> \E k \in 1 .. n - 1 : \E l \in r[k].left : q \in There(f, l)
    BY <1>1, Covers
  <1>5. \A k \in 1 .. n : k \in 1 .. n - 1 \/ s[k].left = {}
    BY <1>1
  <1>6. \A k \in 1 .. n - 1 : k \in 1 .. n
    BY <1>1
  <1>7. \A q : q \in Covered(f, s) <=> q \in Covered(f, r)
    BY <1>2, <1>3, <1>4, <1>5, <1>6
  <1>8. Existing(f, r)
    BY <1>1, <1>2, <1>6 DEF Existing, n
  <1> QED BY <1>7, <1>8 DEF r

LEMMA NotCovered ==
  ASSUME NEW f, NEW path \in TreePath, NEW s \in Seq(Frames), NEW p \in TreePath, Walk(path, s, {p})
  PROVE  p \notin Covered(f, s)
  <1> SUFFICES ASSUME NEW k \in 1 .. Len(s), NEW l \in s[k].left, p \in There(f, l)
               PROVE  FALSE
    BY Covers
  <1> DEFINE n == Len(s)
  <1>1. n \in Nat \ {0} /\ s # << >> /\ k \in 1 .. n
    OBVIOUS
  <1>2. l \in Kids(s[k].dir) /\ Prefix(l, p)
    <2>1. s[k].left \subseteq Kids(s[k].dir)
      BY DEF Walk
    <2> QED BY <2>1 DEF There
  <1>3. p \in Kids(s[n].dir) \ s[n].left
    BY <1>1 DEF Walk
  <1>4. \A i \in 1 .. n : s[i].dir \in TreePath
    <2>1. \A i \in 1 .. n : s[i] \in Frames
      OBVIOUS
    <2> QED BY <2>1 DEF Frames
  <1>5. ASSUME NEW d \in Kids(s[k].dir) \ s[k].left, Prefix(d, p)
        PROVE  FALSE
    <2>1. Len(d) = Len(l) /\ d \in TreePath /\ l \in TreePath
      BY <1>2, <1>5 DEF Kids
    <2>2. d = l
      BY <1>2, <1>5, <2>1, PrefixOrder
    <2> QED BY <2>2
  <1>6. CASE k = n
    BY <1>3, <1>5, <1>6, PrefixOrder
  <1>7. CASE k \in 1 .. n - 1
    <2>1. s[k + 1].dir \in Kids(s[k].dir) \ s[k].left
      BY <1>7 DEF Walk
    <2>2. Prefix(s[k + 1].dir, s[n].dir)
      <3>1. k + 1 \in 1 .. n /\ n \in 1 .. Len(s)
        BY <1>1, <1>7
      <3> QED BY <3>1 DEF Walk
    <2>3. Prefix(s[n].dir, p) /\ s[n].dir \in TreePath /\ s[k + 1].dir \in TreePath
      BY <1>1, <1>3, <1>4, <1>7 DEF Kids
    <2> QED BY <1>5, <2>1, <2>2, <2>3, PrefixOrder
  <1> QED BY <1>1, <1>6, <1>7

LEMMA CountingOn ==
  ASSUME NEW f \in [TreePath -> Kinds], Files!IsTree(f),
         NEW c \in CallRecords, c.path \in TreePath, c.op = "collect",
         NEW s \in Seq(Frames), Tally(f, c, Covered(f, s)), Existing(f, s)
  PROVE  Counting(f, Onwards(c, s))
  <1> DEFINE all == There(f, c.path) \ {c.path}
  <1>1. c.pass \in {"count", "write"} /\ c.count \in Nat
    BY Typed
  <1>2. IsFiniteSet(all)
    BY ThereBelow, FS_RemoveElement
  <1> HIDE DEF CallRecords
  <1>3. CASE s # << >>
    <2> DEFINE r == Files!At(c, "readdir", c.at, s)
    <2>1. Onwards(c, s) = r
      BY <1>3 DEF Onwards
    <2>2. r.pc = "readdir" /\ r.path = c.path /\ r.stack = s /\ r.pass = c.pass /\ r.count = c.count /\ r.list = c.list
      BY DEF Files!At
    <2> HIDE DEF r
    <2>3. Remaining(f, r) = Covered(f, s)
      BY <2>2 DEF Remaining
    <2> QED BY <2>1, <2>2, <2>3 DEF Counting, Tally
  <1>4. s = << >> => Covered(f, s) = {}
    BY CoversNothing
  <1>5. CASE s = << >> /\ Files!WriteNext(c)
    <2> DEFINE r == Files!WritePass(c)
    <2>1. Onwards(c, s) = r
      BY <1>5 DEF Onwards
    <2>2. /\ r.pc = "opendir" /\ r.path = c.path /\ r.at = c.path /\ r.stack = << >>
          /\ r.pass = "write" /\ r.count = c.count /\ r.list = {}
      BY DEF Files!WritePass
    <2> HIDE DEF r
    <2>3. Remaining(f, r) = all
      BY <2>2, CoversNothing DEF Remaining
    <2>4. c.pass = "count"
      BY <1>5 DEF Files!WriteNext
    <2>5. c.count = Cardinality(all)
      <3>1. c.count + Cardinality({}) = Cardinality(all)
        BY <1>4, <1>5, <2>4 DEF Tally
      <3>2. Cardinality({}) = 0
        BY FS_EmptySet
      <3> HIDE DEF all
      <3> QED BY <1>1, <3>1, <3>2
    <2>6. Existing(f, << >>)
      BY DEF Existing
    <2>7. Tally(f, r, all)
      BY <2>2, <2>5 DEF Tally
    <2> HIDE DEF all
    <2>8. Counting(f, r)
      BY <2>2, <2>3, <2>6, <2>7 DEF Counting
    <2> QED BY <2>1, <2>8
  <1>6. CASE s = << >> /\ ~Files!WriteNext(c)
    <2> DEFINE r == Files!Answered(c, "NONE")
    <2>1. Onwards(c, s) = r
      BY <1>6 DEF Onwards
    <2>2. r.pc = "done" /\ r.path = c.path /\ r.count = c.count /\ r.list = c.list
      BY DEF Files!Answered
    <2> HIDE DEF r
    <2>3. c.count = Cardinality(all) /\ c.list = all
      <3>1. CASE c.pass = "write"
        BY <1>4, <1>6, <3>1 DEF Tally
      <3>2. CASE c.pass = "count"
        <4>1. c.count = 0 /\ c.list = {}
          BY <1>1, <1>6, <3>2 DEF Tally, Files!WriteNext
        <4>2. c.count + Cardinality({}) = Cardinality(all)
          BY <1>4, <1>6, <3>2 DEF Tally
        <4>3. all = {}
          <5>1. Cardinality({}) = 0
            BY FS_EmptySet
          <5> HIDE DEF all
          <5>2. Cardinality(all) = 0
            BY <4>1, <4>2, <5>1
          <5> QED BY <1>2, <5>2, FS_EmptySet
        <4>4. Cardinality(all) = 0
          BY <4>3, FS_EmptySet
        <4> HIDE DEF all
        <4> QED BY <4>1, <4>3, <4>4
      <3> QED BY <1>1, <3>1, <3>2
    <2> QED BY <2>1, <2>2, <2>3 DEF Counting
  <1> QED BY <1>3, <1>5, <1>6

LEMMA CountedKept ==
  ASSUME Calm({"collect"}), Counted, UNCHANGED fsTree, NEW t \in Thread,
         \A u \in Thread \ {t} : fsCall'[u] = fsCall[u],
         fsCall'[t].op = "collect" => Counting(fsTree, fsCall'[t])
  PROVE  Counted'
  BY DEF Counted

LEMMA CountedOpendir ==
  ASSUME Shapes, Calm({"collect"}), Counted, NEW t \in Thread, Files!Opendir(t)
  PROVE  Counted'
  <1> DEFINE c == fsCall[t]
             p == c.at
             s == c.stack
  <1>1. c.pc = "opendir" /\ UNCHANGED fsTree
    BY DEF Files!Opendir
  <1>2. /\ c \in CallRecords /\ Placed(c) /\ c.op \in {"delete", "collect"}
        /\ c.path \in TreePath /\ p \in TreePath /\ s \in Seq(Frames)
    BY <1>1, WhoseStep, Typed
  <1>3. c.op = "collect"
    BY <1>2 DEF Calm
  <1>4. ~Files!Deleting(t)
    BY <1>3, WhoseStep
  <1> HIDE DEF CallRecords
  <1>5. Counting(fsTree, c)
    BY <1>3 DEF Counted
  <1>6. /\ Tally(fsTree, c, Remaining(fsTree, c)) /\ Existing(fsTree, s)
        /\ s # << >> => fsTree[p] = "dir"
    BY <1>1, <1>5 DEF Counting
  <1>7. Remaining(fsTree, c) = Covered(fsTree, s) \union (There(fsTree, p) \ {p})
    BY <1>1 DEF Remaining
  <1>8. fsTree \in [TreePath -> Kinds] /\ Files!IsTree(fsTree)
    BY DEF Shapes
  <1>9. ASSUME NEW r, Files!Go(t, r), Counting(fsTree, r)
        PROVE  Counted'
    <2>1. fsCall'[t] = r /\ \A u \in Thread \ {t} : fsCall'[u] = fsCall[u]
      BY <1>9, Gone
    <2> QED BY <1>1, <1>9, <2>1, CountedKept
  <1>10. CASE Files!Lookup(p) = "dir"
    <2> DEFINE left == Files!Children(p)
               r == Append(s, [dir |-> p, left |-> left])
               x == Files!At(c, "readdir", p, r)
    <2>1. Files!Go(t, x)
      BY <1>4, <1>10 DEF Files!Opendir, Files!Frame
    <2>2. left = {q \in Kids(p) : fsTree[q] # "none"}
      BY <1>2, AboveBelow
    <2> HIDE DEF left
    <2>3. Covered(fsTree, r) = Covered(fsTree, s) \union (There(fsTree, p) \ {p}) /\ Existing(fsTree, r)
      BY <1>2, <1>6, <1>8, <2>2, CoveredPush
    <2> HIDE DEF r
    <2>4. x.pc = "readdir" /\ x.path = c.path /\ x.stack = r /\ x.pass = c.pass /\ x.count = c.count /\ x.list = c.list
      BY DEF Files!At
    <2> HIDE DEF x
    <2>5. Remaining(fsTree, x) = Remaining(fsTree, c)
      BY <1>7, <2>3, <2>4 DEF Remaining
    <2>6. Counting(fsTree, x)
      BY <1>6, <2>3, <2>4, <2>5 DEF Counting, Tally
    <2> QED BY <1>9, <2>1, <2>6
  <1>11. CASE Files!Lookup(p) # "dir"
    <2>1. Files!Onward(t, s)
      BY <1>4, <1>11 DEF Files!Opendir
    <2>2. fsTree[p] # "dir"
      BY <1>2, <1>11, LookupIs
    <2>3. There(fsTree, p) \ {p} = {}
      BY <1>2, <1>8, <2>2, ThereBelow
    <2>4. Remaining(fsTree, c) = Covered(fsTree, s)
      BY <1>7, <2>3
    <2>5. Counting(fsTree, Onwards(c, s))
      BY <1>2, <1>3, <1>6, <1>8, <2>4, CountingOn
    <2> QED BY <1>2, <1>9, <2>1, <2>5, Outcomes
  <1> QED BY <1>10, <1>11

LEMMA CountedReaddir ==
  ASSUME Shapes, Calm({"collect"}), Counted, NEW t \in Thread, Files!Readdir(t)
  PROVE  Counted'
  <1> DEFINE c == fsCall[t]
             s == c.stack
  <1>1. c.pc = "readdir" /\ UNCHANGED fsTree
    BY DEF Files!Readdir
  <1>2. /\ c \in CallRecords /\ Placed(c) /\ c.op \in {"delete", "collect"}
        /\ c.path \in TreePath /\ s \in Seq(Frames)
    BY <1>1, WhoseStep, Typed
  <1>3. c.op = "collect"
    BY <1>2 DEF Calm
  <1>4. ~Files!Deleting(t) /\ s # << >>
    BY <1>1, <1>2, <1>3, WhoseStep DEF Placed, Walking
  <1> HIDE DEF CallRecords
  <1>5. Counting(fsTree, c)
    BY <1>3 DEF Counted
  <1>6. Remaining(fsTree, c) = Covered(fsTree, s)
    BY <1>1 DEF Remaining
  <1>7. Tally(fsTree, c, Covered(fsTree, s)) /\ Existing(fsTree, s)
    BY <1>1, <1>5, <1>6 DEF Counting
  <1>8. fsTree \in [TreePath -> Kinds] /\ Files!IsTree(fsTree)
    BY DEF Shapes
  <1>9. ASSUME NEW r, Files!Go(t, r), Counting(fsTree, r)
        PROVE  Counted'
    <2>1. fsCall'[t] = r /\ \A u \in Thread \ {t} : fsCall'[u] = fsCall[u]
      BY <1>9, Gone
    <2> QED BY <1>1, <1>9, <2>1, CountedKept
  <1>10. Files!Top(t) = Files!Last(s)
    BY DEF Files!Top
  <1>11. ASSUME NEW p \in Files!Last(s).left,
                Files!Go(t, Files!At(c, "stat", p, Append(Files!Front(s),
                           [dir |-> Files!Last(s).dir, left |-> Files!Last(s).left \ {p}])))
         PROVE  Counted'
    <2> DEFINE r == Append(Files!Front(s), [dir |-> Files!Last(s).dir, left |-> Files!Last(s).left \ {p}])
               x == Files!At(c, "stat", p, r)
    <2>1. Covered(fsTree, s) = Covered(fsTree, r) \union There(fsTree, p) /\ Existing(fsTree, r) /\ fsTree[p] # "none"
      BY <1>2, <1>4, <1>7, CoveredPick
    <2> HIDE DEF r
    <2>2. x.pc = "stat" /\ x.at = p /\ x.path = c.path /\ x.stack = r /\ x.pass = c.pass /\ x.count = c.count /\ x.list = c.list
      BY DEF Files!At
    <2>3. Files!Go(t, x)
      BY <1>11 DEF r
    <2> HIDE DEF x
    <2>4. Remaining(fsTree, x) = Covered(fsTree, s)
      BY <2>1, <2>2 DEF Remaining
    <2>5. Counting(fsTree, x)
      BY <1>7, <2>1, <2>2, <2>4 DEF Counting, Tally
    <2> QED BY <1>9, <2>3, <2>5
  <1>12. CASE Files!Last(s).left = {} /\ Files!Onward(t, Files!Front(s))
    <2>1. Files!Front(s) \in Seq(Frames)
      BY <1>2, <1>4, Popped
    <2>2. Covered(fsTree, Files!Front(s)) = Covered(fsTree, s) /\ Existing(fsTree, Files!Front(s))
      BY <1>2, <1>4, <1>7, <1>12, CoveredPop
    <2>3. Counting(fsTree, Onwards(c, Files!Front(s)))
      BY <1>2, <1>3, <1>7, <1>8, <2>1, <2>2, CountingOn
    <2> QED BY <1>9, <1>12, <2>1, <2>3, Outcomes
  <1> QED BY <1>4, <1>10, <1>11, <1>12 DEF Files!Readdir

LEMMA CountedStat ==
  ASSUME Shapes, Calm({"collect"}), Counted, NEW t \in Thread, Files!Stat(t)
  PROVE  Counted'
  <1> DEFINE c == fsCall[t]
             p == c.at
             s == c.stack
             v == Files!Visited(c)
             all == There(fsTree, c.path) \ {c.path}
             rest == Remaining(fsTree, c)
  <1>1. c.pc = "stat" /\ UNCHANGED fsTree
    BY DEF Files!Stat
  <1>2. /\ c \in CallRecords /\ Placed(c) /\ c.op \in {"delete", "collect"}
        /\ c.path \in TreePath /\ p \in TreePath /\ s \in Seq(Frames)
    BY <1>1, WhoseStep, Typed
  <1>3. c.op = "collect" /\ c.pass \in {"count", "write"} /\ c.count \in Nat
    BY <1>2, Typed DEF Calm
  <1>4. ~Files!Deleting(t) /\ Walk(c.path, s, {p})
    BY <1>1, <1>2, <1>3, WhoseStep DEF Placed, Walking, Cur
  <1>5. /\ v.op = c.op /\ v.path = c.path /\ v.stack = s /\ v.pass = c.pass
        /\ c.pass = "count" => v.count = c.count + 1 /\ v.list = c.list
        /\ c.pass # "count" => v.count = c.count /\ v.list = c.list \union {p}
    BY <1>2, VisitedIs
  <1> HIDE DEF CallRecords, v
  <1>6. Counting(fsTree, c)
    BY <1>3 DEF Counted
  <1>7. Tally(fsTree, c, rest) /\ Existing(fsTree, s) /\ fsTree[p] # "none"
    BY <1>1, <1>6 DEF Counting
  <1>8. rest = Covered(fsTree, s) \union There(fsTree, p)
    BY <1>1 DEF Remaining
  <1>9. fsTree \in [TreePath -> Kinds] /\ Files!IsTree(fsTree)
    BY DEF Shapes
  <1>10. p \in There(fsTree, p) /\ p \notin Covered(fsTree, s) /\ IsFiniteSet(There(fsTree, c.path))
    BY <1>2, <1>4, <1>7, <1>9, ThereBelow, NotCovered
  <1>11. IsFiniteSet(all)
    BY <1>10, FS_RemoveElement
  <1>12. /\ rest \subseteq all /\ p \in rest
         /\ c.pass = "count" => c.count + Cardinality(rest) = Cardinality(all) /\ c.list = {}
         /\ c.pass = "write" => c.count = Cardinality(all) /\ c.list = all \ rest
    BY <1>7, <1>8, <1>10 DEF Tally
  <1> HIDE DEF all, rest
  <1>13. IsFiniteSet(rest)
    BY <1>11, <1>12, FS_Subset
  <1>14. Cardinality(rest \ {p}) = Cardinality(rest) - 1 /\ Cardinality(rest) \in Nat
    BY <1>12, <1>13, FS_RemoveElement, FS_CardinalityType
  <1>15. /\ rest \ {p} \subseteq all
         /\ v.pass = "count" => v.count + Cardinality(rest \ {p}) = Cardinality(all) /\ v.list = {}
         /\ v.pass = "write" => v.count = Cardinality(all) /\ v.list = all \ (rest \ {p})
    <2>1. CASE c.pass = "count"
      BY <1>3, <1>5, <1>12, <1>14, <2>1
    <2>2. CASE c.pass = "write"
      BY <1>5, <1>12, <2>2
    <2> QED BY <1>3, <2>1, <2>2
  <1>16. Tally(fsTree, v, rest \ {p})
    BY <1>5, <1>15 DEF Tally, all
  <1>17. ASSUME NEW pc \in {"opendir", "readdir"}, Files!Go(t, Files!At(v, pc, p, s)),
                rest \ {p} = Covered(fsTree, s) \union (IF pc = "opendir" THEN There(fsTree, p) \ {p} ELSE {}),
                pc = "opendir" => fsTree[p] = "dir"
         PROVE  Counted'
    <2> DEFINE x == Files!At(v, pc, p, s)
    <2>1. x.pc = pc /\ x.at = p /\ x.path = c.path /\ x.stack = s /\ x.pass = v.pass /\ x.count = v.count /\ x.list = v.list
      BY <1>5 DEF Files!At
    <2>2. fsCall'[t] = x /\ \A u \in Thread \ {t} : fsCall'[u] = fsCall[u]
      BY <1>17, Gone
    <2> HIDE DEF x
    <2>3. Remaining(fsTree, x) = rest \ {p}
      BY <1>17, <2>1 DEF Remaining
    <2>4. Tally(fsTree, x, rest \ {p})
      BY <1>5, <1>16, <2>1 DEF Tally
    <2>5. Counting(fsTree, x)
      BY <1>7, <1>17, <2>1, <2>3, <2>4 DEF Counting
    <2> QED BY <1>1, <2>2, <2>5, CountedKept
  <1>18. CASE Files!Lookup(p) = "dir"
    <2>1. Files!Go(t, Files!At(v, "opendir", p, s))
      BY <1>4, <1>18 DEF Files!Stat, v
    <2>2. fsTree[p] = "dir"
      BY <1>2, <1>18, LookupIs
    <2>3. rest \ {p} = Covered(fsTree, s) \union (There(fsTree, p) \ {p})
      BY <1>8, <1>10
    <2> QED BY <1>17, <2>1, <2>2, <2>3
  <1>19. CASE Files!Lookup(p) # "dir"
    <2>1. Files!Go(t, Files!At(v, "readdir", p, s))
      BY <1>4, <1>19 DEF Files!Stat, v
    <2>2. fsTree[p] # "dir"
      BY <1>2, <1>19, LookupIs
    <2>3. There(fsTree, p) \ {p} = {}
      BY <1>2, <1>9, <2>2, ThereBelow
    <2>4. rest \ {p} = Covered(fsTree, s)
      BY <1>8, <1>10, <2>3
    <2> QED BY <1>17, <2>1, <2>4
  <1> QED BY <1>18, <1>19

LEMMA CountedNext ==
  ASSUME Shapes, Shapes', Counted, [Files!Next]_(Files!vars)
  PROVE  Counted'
  <1>1. CASE UNCHANGED Files!vars
    <2>1. UNCHANGED <<fsTree, fsCall, fsFirst>>
      BY <1>1 DEF Files!vars
    <2> QED BY <2>1 DEF Counted, Calm
  <1>2. ASSUME NEW t \in Thread,
               \/ Files!Start(t)
               \/ Files!Fopen(t) \/ Files!Access(t) \/ Files!IsDir(t) \/ Files!Mkdir(t)
               \/ Files!Opendir(t) \/ Files!Readdir(t) \/ Files!Stat(t) \/ Files!Take(t)
        PROVE  Counted'
    <2> SUFFICES ASSUME Calm({"collect"})'
                 PROVE  Counted'
      BY DEF Counted
    <2>1. Calm({"collect"}) /\ \A u \in Thread \ {t} : fsCall'[u] = fsCall[u]
      BY <1>2, Before
    <2>2. fsCall[t].op \in {"collect", "none"}
      BY <2>1 DEF Calm
    <2>3. ~Files!Fopen(t) /\ ~Files!Access(t) /\ ~Files!IsDir(t) /\ ~Files!Mkdir(t) /\ ~Files!Take(t)
      BY <2>2, WhoseStep DEF Files!Fopen, Files!Access, Files!IsDir, Files!Mkdir, Files!Take
    <2>4. CASE Files!Start(t)
      <3>1. PICK c \in TreeCall :
              Files!Go(t, [op |-> c.op, path |-> c.path, pc |-> Files!Entry(c.op), at |-> c.path, stack |-> << >>,
                           pass |-> "count", count |-> 0, list |-> {}, answer |-> "none"])
        BY <2>4 DEF Files!Start
      <3> DEFINE r == [op |-> c.op, path |-> c.path, pc |-> Files!Entry(c.op), at |-> c.path, stack |-> << >>,
                       pass |-> "count", count |-> 0, list |-> {}, answer |-> "none"]
                 all == There(fsTree, c.path) \ {c.path}
      <3>2. /\ r.op = c.op /\ r.path = c.path /\ r.at = c.path /\ r.stack = << >> /\ (c.op = "collect" => r.pc = "opendir")
            /\ r.pass = "count" /\ r.count = 0 /\ r.list = {}
        BY DEF Files!Entry
      <3>3. Files!Go(t, r) /\ UNCHANGED fsTree /\ c.path \in TreePath
        BY <2>4, <3>1, TreeAssumption DEF Files!Start
      <3> HIDE DEF r
      <3>4. fsCall'[t] = r
        BY <3>3, Gone
      <3>5. IsFiniteSet(all)
        <4>1. fsTree \in [TreePath -> Kinds] /\ Files!IsTree(fsTree)
          BY DEF Shapes
        <4>2. IsFiniteSet(There(fsTree, c.path))
          BY <3>3, <4>1, ThereBelow
        <4> QED BY <4>2, FS_RemoveElement
      <3>6. Cardinality(all) \in Nat
        BY <3>5, FS_CardinalityType
      <3>7. ASSUME r.op = "collect"
            PROVE  Counting(fsTree, r)
        <4>1. Remaining(fsTree, r) = all
          BY <3>2, <3>7, CoversNothing DEF Remaining
        <4>2. Tally(fsTree, r, all)
          BY <3>2, <3>6 DEF Tally
        <4>3. Existing(fsTree, << >>)
          BY DEF Existing
        <4> HIDE DEF all
        <4> QED BY <3>2, <3>7, <4>1, <4>2, <4>3 DEF Counting
      <3> QED BY <2>1, <3>3, <3>4, <3>7, CountedKept
    <2> QED BY <1>2, <2>1, <2>3, <2>4, CountedOpendir, CountedReaddir, CountedStat
  <1> QED BY <1>1, <1>2 DEF Files!Next

LEMMA CountedMeans ==
  ASSUME Shapes, Counted
  PROVE  Files!Collected
  <1> SUFFICES ASSUME NEW t \in Thread, Files!Done(t, "collect"), Files!Only(t, {"collect"})
               PROVE  LET there == {p \in Files!Below(fsCall[t].path) : fsTree[p] # "none"}
                      IN  fsCall[t].count = Files!Cardinality(there) /\ fsCall[t].list = there
    BY DEF Files!Collected
  <1> DEFINE c == fsCall[t]
             all == There(fsTree, c.path) \ {c.path}
  <1>1. c.pc = "done" /\ c.op = "collect"
    BY DEF Files!Done
  <1>2. Calm({"collect"})
    BY <1>1 DEF Files!Only, Calm
  <1>3. c.count = Cardinality(all) /\ c.list = all
    BY <1>1, <1>2 DEF Counted, Counting
  <1>4. c.path \in TreePath
    BY <1>1, WhoseStep DEF Placed
  <1>5. {p \in Files!Below(c.path) : fsTree[p] # "none"} = all
    BY <1>4, AboveBelow DEF There
  <1>6. Files!Cardinality(all) = Cardinality(all)
    BY Zenon DEF Cardinality, Files!Cardinality
  <1> QED BY <1>3, <1>5, <1>6

(* Whatever the tree, the threads and their calls: what the calls report   *)
(* of directories created, deleted and collected together is so.           *)
THEOREM FilesAgreed == Files!Spec => []FilesAgree
  <1> DEFINE Inv == Shapes /\ Created /\ Deleted /\ Counted
  <1>1. Files!Init => Inv
    <2> SUFFICES ASSUME Files!Init
                 PROVE  Inv
      OBVIOUS
    <2>1. Shapes
      BY ShapesInit
    <2>2. \A t \in Thread : fsCall[t].op = "none"
      BY DEF Files!Init, Files!Idle
    <2>3. fsTree = fsFirst
      BY DEF Files!Init
    <2> QED BY <2>1, <2>2, <2>3 DEF Created, Deleted, Counted
  <1>2. Inv /\ [Files!Next]_(Files!vars) => Inv'
    <2>1. Shapes /\ [Files!Next]_(Files!vars) => Shapes'
      BY ShapesNext
    <2> QED BY <2>1, CreatedNext, DeletedNext, CountedNext
  <1>3. Inv => FilesAgree
    BY CreatedMeans, DeletedMeans, CountedMeans DEF FilesAgree, Files!FilesAgree
  <1> QED BY <1>1, <1>2, <1>3, PTL DEF Files!Spec
=============================================================================
