------------------------------ MODULE FileTree ------------------------------
(***************************************************************************)
(* The operations of n_filesystem.c and n_paths.c (POSIX) on a tree of     *)
(* directories that other threads or processes change at the same time:    *)
(* creating a directory with its parents, deleting one with its contents,  *)
(* collecting the paths below one in two passes, and opening a file for    *)
(* writing.  Every system call is a step.  Each thread makes one call.     *)
(*                                                                         *)
(* A path is the sequence of its components below a directory that always  *)
(* exists ("." or "/"), where every recursion stops.  A directory is read  *)
(* whole by the first readdir, taken as one step with opendir.  There are  *)
(* no symbolic links.                                                      *)
(***************************************************************************)
EXTENDS Integers, Sequences, FiniteSets, SequencesExt

CONSTANTS Threads,
          Paths,   \* the paths of the model, closed under prefixes
          Calls    \* calls a thread may make: operation, path

VARIABLES
  tree,   \* "dir", "file" or "none" per path
  call,   \* per thread: its call
  first   \* the tree at the start (a history variable)

vars == <<tree, call, first>>

Above(p) == {q \in Paths : q # p /\ IsPrefix(q, p)}
Below(p) == {q \in Paths : q # p /\ IsPrefix(p, q)}
Children(p) == {q \in Below(p) : Len(q) = Len(p) + 1 /\ tree[q] # "none"}
IsTree(f) == \A p \in Paths : f[p] # "none" => \A q \in Above(p) : f[q] = "dir"

Idle == [op |-> "none", pc |-> "idle", path |-> << >>, at |-> << >>, stack |-> << >>,
         pass |-> "count", count |-> 0, list |-> {}, answer |-> "none"]

Init ==
  /\ tree \in {f \in [Paths -> {"none", "dir", "file"}] : IsTree(f)}
  /\ first = tree
  /\ call = [t \in Threads |-> Idle]

-----------------------------------------------------------------------------
(* What the kernel answers.                                                *)

Lookup(p) ==
  IF tree[p] # "none" THEN tree[p]
  ELSE IF \E q \in Above(p) : tree[q] = "file" THEN "notdir" ELSE "none"

ParentIsDir(p) == \A q \in Above(p) : tree[q] = "dir"
Removable(p) == tree[p] = "file" \/ (tree[p] = "dir" /\ Children(p) = {})

-----------------------------------------------------------------------------

Go(t, c) == call' = [call EXCEPT ![t] = c]

(* Where a call goes on, and how it ends.                                  *)
At(c, pc, at, stack) ==
  [op |-> c.op, path |-> c.path, pc |-> pc, at |-> at, stack |-> stack,
   pass |-> c.pass, count |-> c.count, list |-> c.list, answer |-> c.answer]

Answered(c, error) ==
  [op |-> c.op, path |-> c.path, pc |-> "done", at |-> c.at, stack |-> c.stack,
   pass |-> c.pass, count |-> c.count, list |-> c.list, answer |-> error]

Answer(t, error) == Go(t, Answered(call[t], error))

(* The first system call of an operation.                                  *)
Entry(op) ==
  IF op = "create_parents" THEN "access"
  ELSE IF op \in {"delete", "collect"} THEN "opendir"
  ELSE IF op = "rmdir" THEN "rmdir" ELSE "fopen"

Start(t) ==
  /\ call[t].pc = "idle"
  /\ \E c \in Calls :
       Go(t, [op |-> c.op, path |-> c.path, pc |-> Entry(c.op), at |-> c.path, stack |-> << >>,
              pass |-> "count", count |-> 0, list |-> {}, answer |-> "none"])
  /\ UNCHANGED <<tree, first>>

(* fopen with "w" creates the file when its directory is there.            *)
Fopen(t) ==
  /\ call[t].pc = "fopen"
  /\ LET p == call[t].at IN
     IF ParentIsDir(p) /\ tree[p] # "dir"
       THEN tree' = [tree EXCEPT ![p] = "file"] /\ Answer(t, "NONE")
       ELSE UNCHANGED tree /\ Answer(t, "error")
  /\ UNCHANGED first

(* create_parents goes up to the first path that exists ...                *)
Access(t) ==
  /\ call[t].pc = "access"
  /\ LET p == call[t].at IN
     \/ Lookup(p) \in {"dir", "file"} /\ Go(t, At(call[t], "is_dir", p, << >>))
     \/ Lookup(p) = "notdir" /\ Answer(t, "error")
     \/ Lookup(p) = "none" /\ Len(p) > 1 /\ Go(t, At(call[t], "access", Front(p), << >>))
     \/ Lookup(p) = "none" /\ Len(p) = 1 /\ Go(t, At(call[t], "mkdir", p, << >>))
  /\ UNCHANGED <<tree, first>>

(* ... and comes down again.                                               *)
Down(t) ==
  IF call[t].at = call[t].path THEN Answer(t, "NONE")
  ELSE Go(t, At(call[t], "mkdir", SubSeq(call[t].path, 1, Len(call[t].at) + 1), << >>))

IsDir(t) ==
  /\ call[t].pc = "is_dir"
  /\ IF Lookup(call[t].at) = "dir" THEN Down(t) ELSE Answer(t, "ALREADY_EXISTS")
  /\ UNCHANGED <<tree, first>>

(* Mutant: a directory that appeared since it was looked for is an error.  *)
ExistsFails(p) == FALSE

(* EEXIST is success, whatever it is that exists.                          *)
ExistsIsFine(p) == tree[p] # "none"

Mkdir(t) ==
  /\ call[t].pc = "mkdir"
  /\ LET p == call[t].at IN
     \/ /\ tree[p] = "none" /\ ParentIsDir(p)
        /\ tree' = [tree EXCEPT ![p] = "dir"]
        /\ Down(t)
     \/ /\ tree[p] # "none" \/ ~ParentIsDir(p)
        /\ UNCHANGED tree
        /\ IF ExistsIsFine(p) THEN Down(t) ELSE Answer(t, "error")
  /\ UNCHANGED first

-----------------------------------------------------------------------------
(* Deleting and collecting walk the tree with a frame per open directory.  *)

Frame(p) == [dir |-> p, left |-> Children(p)]
Top(t) == Last(call[t].stack)

Deleting(t) == call[t].op \in {"delete", "rmdir"}

(* A pass of a walk is over when its last directory is closed; the first  *)
(* one counts, the second writes into an array of that length.             *)
WriteNext(c) == c.pass = "count" /\ c.count > 0

WritePass(c) ==
  [op |-> c.op, path |-> c.path, pc |-> "opendir", at |-> c.path, stack |-> << >>,
   pass |-> "write", count |-> c.count, list |-> {}, answer |-> c.answer]

Onward(t, stack) ==
  IF stack # << >> THEN Go(t, At(call[t], "readdir", call[t].at, stack))
  ELSE IF ~Deleting(t) /\ WriteNext(call[t]) THEN Go(t, WritePass(call[t]))
  ELSE Answer(t, "NONE")

Opendir(t) ==
  /\ call[t].pc = "opendir"
  /\ LET p == call[t].at IN
     \/ /\ Lookup(p) = "dir"
        /\ Go(t, At(call[t], "readdir", p, Append(call[t].stack, Frame(p))))
     \/ Lookup(p) # "dir" /\ ~Deleting(t) /\ Onward(t, call[t].stack)
     \/ Lookup(p) = "none" /\ Deleting(t) /\ Go(t, At(call[t], "rmdir", p, call[t].stack))
     \/ Lookup(p) \in {"file", "notdir"} /\ Deleting(t) /\ Answer(t, "error")
  /\ UNCHANGED <<tree, first>>

Readdir(t) ==
  /\ call[t].pc = "readdir"
  /\ \/ \E p \in Top(t).left :
          Go(t, At(call[t], "stat", p,
                   Append(Front(call[t].stack), [dir |-> Top(t).dir, left |-> Top(t).left \ {p}])))
     \/ /\ Top(t).left = {}  \* closedir
        /\ IF Deleting(t)
             THEN Go(t, At(call[t], "rmdir", Top(t).dir, Front(call[t].stack)))
             ELSE Onward(t, Front(call[t].stack))
  /\ UNCHANGED <<tree, first>>

(* The callback of a collection.                                           *)
Visited(c) ==
  IF c.pass = "count" THEN [c EXCEPT !.count = @ + 1] ELSE [c EXCEPT !.list = @ \union {c.at}]

(* An entry that has gone is no directory.                                 *)
Stat(t) ==
  /\ call[t].pc = "stat"
  /\ LET p == call[t].at
         is_dir == Lookup(p) = "dir"
     IN  IF Deleting(t)
           THEN Go(t, At(call[t], IF is_dir THEN "opendir" ELSE "remove", p, call[t].stack))
           ELSE Go(t, At(Visited(call[t]), IF is_dir THEN "opendir" ELSE "readdir", p, call[t].stack))
  /\ UNCHANGED <<tree, first>>

(* remove() takes a file or an empty directory; rmdir() only the latter.   *)
Take(t) ==
  /\ call[t].pc \in {"remove", "rmdir"}
  /\ LET p == call[t].at
         takes == Removable(p) /\ (call[t].pc = "rmdir" => tree[p] = "dir")
     IN  \/ /\ takes
            /\ tree' = [tree EXCEPT ![p] = "none"]
            /\ Onward(t, call[t].stack)
         \/ /\ ~takes
            /\ UNCHANGED tree
            /\ IF Lookup(p) = "none" THEN Onward(t, call[t].stack) ELSE Answer(t, "error")
  /\ UNCHANGED first

Next ==
  \E t \in Threads :
    \/ Start(t) \/ Fopen(t)
    \/ Access(t) \/ IsDir(t) \/ Mkdir(t)
    \/ Opendir(t) \/ Readdir(t) \/ Stat(t) \/ Take(t)

Spec == Init /\ [][Next]_vars

-----------------------------------------------------------------------------

Done(t, op) == call[t].pc = "done" /\ call[t].op = op
Only(t, ops) == \A u \in Threads \ {t} : call[u].op \in ops \union {"none"}

(* Threads that create overlapping directories do not fail each other: the *)
(* call succeeds, with its directory there, unless a file stands in the    *)
(* way.                                                                    *)
CreatedTogether ==
  \A t \in Threads :
    Done(t, "create_parents") /\ Only(t, {"create_parents", "collect"}) =>
      (call[t].answer = "NONE") = (tree[call[t].path] = "dir")

(* Nor do threads that delete overlapping directories: what was asked to   *)
(* go is gone, and nothing that no thread asked for.                       *)
DeletedTogether ==
  \A t \in Threads :
    Done(t, "delete") /\ Only(t, {"delete", "rmdir", "collect"}) =>
      /\ first[call[t].path] = "dir" => call[t].answer = "NONE"
      /\ call[t].answer = "NONE" => tree[call[t].path] = "none"
      /\ \A p \in Paths :
           tree[p] # first[p] => \E u \in Threads : Deleting(u) /\ IsPrefix(call[u].path, p)

(* A collection that meets no change finds all that is there, once.        *)
Collected ==
  \A t \in Threads :
    Done(t, "collect") /\ Only(t, {"collect"}) =>
      LET there == {p \in Below(call[t].path) : tree[p] # "none"}
      IN  call[t].count = Cardinality(there) /\ call[t].list = there

FilesAgree == CreatedTogether /\ DeletedTogether /\ Collected
=============================================================================
