----------------------------- MODULE Processes -----------------------------
(***************************************************************************)
(* Child processes, their pipes and their channels (n_process.c, POSIX).   *)
(* Several threads of the parent start children, look at them, kill them   *)
(* and give them up while the children run and exit and a captured signal  *)
(* (Signals) may interrupt a system call.  Every system call is a step.    *)
(*                                                                         *)
(* The kernel side is external: descriptor tables in which a new           *)
(* descriptor takes the lowest free number, copied by fork, stripped of    *)
(* the close-on-exec entries by execve; zombies that keep their process    *)
(* id until waitpid; ids used again after that.  An end of a connection is *)
(* named by the call that made it, the stream and the side: side 0 is the  *)
(* parent's.                                                               *)
(*                                                                         *)
(* The callers' contract: calls on one object do not overlap.  A retry     *)
(* after EINTR is a stutter.                                               *)
(***************************************************************************)
EXTENDS Integers, Sequences, FiniteSets, SequencesExt

CONSTANTS Threads,    \* each with an object of its own
          Pids,       \* process ids, natural numbers
          MaxFd,      \* bound: descriptors are 0 .. MaxFd
          MaxSpawns,  \* bound: calls that start a child
          Closed,     \* the sets of standard descriptors closed at the start
          SignalCaptured,  \* the program captures a signal (Signals)
          Null

ASSUME PidsAssumption == Pids \subseteq Nat
ASSUME FdsAssumption == MaxFd \in Nat \ 0 .. 1
ASSUME SpawnsAssumption == MaxSpawns \in Nat

VARIABLES
  files,      \* the parent's descriptor table
  cloexec,    \* the parent's descriptors closed by execve
  child,      \* per process id: a child, or Null when the id is unused
  process,    \* per thread: its NexusProcess, or Null
  channel,    \* per thread: the socket of its NexusProcessChildChannel, or Null
  call,       \* per thread: the call under way
  spawned     \* the number of calls that start a child

objects == <<process, channel>>
vars == <<files, cloexec, child, objects, call, spawned>>

Fds == 0 .. MaxFd
Standard == 0 .. 2
Kinds == {"piped", "channel", "captured", "spawn_wait"}

(* The socket pairs a kind of spawn makes, in order; those whose parent    *)
(* end is marked close-on-exec are the same, except for spawn_piped.       *)
Streams(kind) ==
  IF kind = "piped" THEN <<"stdin", "stdout">>
  ELSE IF kind = "channel" THEN <<"channel">>
  ELSE IF kind = "captured" THEN <<"channel", "stderr">>
  ELSE << >>

Marked(kind) == kind \in {"channel", "captured"}

Calling(pc, kind, spawn) ==
  [pc |-> pc, kind |-> kind, pairs |-> << >>, spawn |-> spawn, pid |-> Null]

Idle == Calling("idle", Null, 0)

(* A descriptor table holds ends, Null where a number is free.             *)
Inherited == <<0, "inherited", 0>>
End(spawn, stream, side) == <<spawn, stream, side>>
Ends == Nat \X {"inherited", "stdin", "stdout", "stderr", "channel"} \X {0, 1}
Tables == [Fds -> Ends \cup {Null}]

(* What an object, and a process id, may stand for.                        *)
Objects ==
  [pid : Pids, running : BOOLEAN, waited : BOOLEAN, spawn : Nat,
   stdin : Fds \cup {Null}, stdout : Fds \cup {Null}, stderr : Fds \cup {Null}]

Children ==
  [state : {"forked", "running", "dying", "zombie"}, spawn : Nat, kind : Kinds,
   pairs : Seq(Fds \X Fds), table : Tables, marked : SUBSET Fds, crowded : BOOLEAN]

ASSUME NullAssumption ==
  Null \notin Objects /\ Null \notin Children /\ Null \notin Ends /\ Null \notin Nat

Lowest(table) == Min({fd \in Fds : table[fd] = Null})
WithoutFds(table, fds) == [fd \in Fds |-> IF fd \in fds THEN Null ELSE table[fd]]

Init ==
  /\ \E closed \in Closed :
       files = [fd \in Fds |-> IF fd \in Standard \ closed THEN Inherited ELSE Null]
  /\ cloexec = {}
  /\ child = [p \in Pids |-> Null]
  /\ process = [h \in Threads |-> Null]
  /\ channel = [h \in Threads |-> Null]
  /\ call = [t \in Threads |-> Idle]
  /\ spawned = 0

At(t, pc) == call[t].pc = pc
Goto(t, pc) == call' = [call EXCEPT ![t].pc = pc]
Return(t) == call' = [call EXCEPT ![t] = Idle]

(***************************************************************************)
(* nexus_process_posix_socket_close on a set of descriptors of the parent. *)
(***************************************************************************)
CloseFds(fds) ==
  /\ files' = WithoutFds(files, fds)
  /\ cloexec' = cloexec \ fds

(***************************************************************************)
(* Starting a child.                                                       *)
(***************************************************************************)
AfterPairs(kind) == IF Marked(kind) THEN "mark" ELSE "fork"

(* The objects are allocated; without memory nothing happens.              *)
Spawn(t, kind) ==
  /\ At(t, "idle")
  /\ kind # "spawn_wait" => process[t] = Null /\ channel[t] = Null
  /\ spawned < MaxSpawns
  /\ spawned' = spawned + 1
  /\ call' = [call EXCEPT ![t] =
       Calling(IF kind = "spawn_wait" THEN "fork" ELSE "pair", kind, spawned + 1)]
  /\ UNCHANGED <<files, cloexec, child, objects>>

(* Mutant: the failure paths forget the second pair.                       *)
AbandonFirstPair(t) ==
  /\ CloseFds(IF call[t].pairs = << >> THEN {} ELSE Range(call[t].pairs[1]))
  /\ Return(t)
  /\ UNCHANGED child

(* Every failure path closes the ends made so far, frees the objects and   *)
(* returns.                                                                *)
OpenedEnds(t) == UNION {Range(call[t].pairs[i]) : i \in DOMAIN call[t].pairs}

Abandon(t) ==
  /\ CloseFds(OpenedEnds(t))
  /\ Return(t)
  /\ UNCHANGED child

Fails(t) ==
  /\ call[t].pc \in {"pair", "mark", "fork"}
  /\ Abandon(t)
  /\ UNCHANGED <<objects, spawned>>

(* When no two numbers are free the call fails, which is Fails.            *)
Socketpair(t) ==
  LET c == call[t]
      stream == Streams(c.kind)[Len(c.pairs) + 1]
      near == Lowest(files)
      kept == [files EXCEPT ![near] = End(c.spawn, stream, 0)]
      far == Lowest(kept)
      done == Len(c.pairs) + 1 = Len(Streams(c.kind))
  IN /\ c.pc = "pair"
     /\ \E a, b \in Fds : a # b /\ files[a] = Null /\ files[b] = Null
     /\ files' = [kept EXCEPT ![far] = End(c.spawn, stream, 1)]
     /\ call' = [call EXCEPT ![t] =
          [pc |-> IF done THEN AfterPairs(c.kind) ELSE "pair", kind |-> c.kind,
           pairs |-> Append(c.pairs, <<near, far>>), spawn |-> c.spawn, pid |-> c.pid]]
     /\ UNCHANGED <<cloexec, child, objects, spawned>>

(* Mutant: only the end of the channel is marked.                          *)
MarkFirst(t) ==
  /\ call[t].pc = "mark"
  /\ cloexec' = cloexec \cup {call[t].pairs[1][1]}
  /\ Goto(t, "fork")
  /\ UNCHANGED <<files, child, objects, spawned>>

(* F_GETFD and F_SETFD on the parent's ends; then the name of the child's  *)
(* channel end is put in a copy of the environment.                        *)
Mark(t) ==
  LET c == call[t] IN
  /\ c.pc = "mark"
  /\ cloexec' = cloexec \cup {c.pairs[i][1] : i \in DOMAIN c.pairs}
  /\ Goto(t, "fork")
  /\ UNCHANGED <<files, child, objects, spawned>>

(* Another thread is between the creation of its pairs and the end of its  *)
(* spawn.                                                                  *)
Crowded(t) == \E u \in Threads \ {t} : call[u].pairs # << >>

Fork(t) ==
  LET c == call[t]
      pid == Min({p \in Pids : child[p] = Null})
  IN /\ c.pc = "fork"
     /\ \E p \in Pids : child[p] = Null
     /\ child' = [child EXCEPT ![pid] =
          [state |-> "forked", spawn |-> c.spawn, kind |-> c.kind, pairs |-> c.pairs,
           table |-> files, marked |-> cloexec, crowded |-> Crowded(t)]]
     /\ call' = [call EXCEPT ![t] =
          [pc |-> IF c.kind = "spawn_wait" THEN "reap" ELSE "publish", kind |-> c.kind,
           pairs |-> c.pairs, spawn |-> c.spawn, pid |-> pid]]
     /\ UNCHANGED <<files, cloexec, objects, spawned>>

(* The parent keeps the near ends and fills in its objects.                *)
NearEnd(c, stream) ==
  LET i == CHOOSE i \in DOMAIN Streams(c.kind) : Streams(c.kind)[i] = stream
  IN IF stream \in Range(Streams(c.kind)) THEN c.pairs[i][1] ELSE Null

Publish(t) ==
  LET c == call[t] IN
  /\ c.pc = "publish"
  /\ CloseFds({c.pairs[i][2] : i \in DOMAIN c.pairs})
  /\ process' = [process EXCEPT ![t] =
       [pid |-> c.pid, running |-> TRUE, waited |-> FALSE, spawn |-> c.spawn,
        stdin |-> NearEnd(c, "stdin"), stdout |-> NearEnd(c, "stdout"),
        stderr |-> NearEnd(c, "stderr")]]
  /\ channel' = [channel EXCEPT ![t] = NearEnd(c, "channel")]
  /\ Return(t)
  /\ UNCHANGED <<child, spawned>>

(***************************************************************************)
(* The child, from fork to exec: it closes the parent's ends, puts its own *)
(* ends in the place of standard streams one dup2 after the other, and     *)
(* closes the originals unless they were in place.                         *)
(***************************************************************************)
Redirects(c) ==
  IF c.kind = "piped" THEN {<<c.pairs[1][2], 0>>, <<c.pairs[2][2], 1>>}
  ELSE IF c.kind = "captured" THEN {<<c.pairs[2][2], 2>>}
  ELSE {}

Dup2(table, from, to) == [table EXCEPT ![to] = table[from]]

Redirected(c, table) ==
  IF c.kind = "piped" THEN Dup2(Dup2(table, c.pairs[1][2], 0), c.pairs[2][2], 1)
  ELSE IF c.kind = "captured" THEN Dup2(table, c.pairs[2][2], 2)
  ELSE table

(* Mutant: the redirected ends stay open under their own numbers too.      *)
ArrangedTwice(c) ==
  Redirected(c, WithoutFds(c.table, {c.pairs[i][1] : i \in DOMAIN c.pairs}))

Arranged(c) ==
  LET near  == {c.pairs[i][1] : i \in DOMAIN c.pairs}
      moved == {r \in Redirects(c) : r[1] # r[2]}
  IN WithoutFds(Redirected(c, WithoutFds(c.table, near)), {r[1] : r \in moved})

StillMarked(c) ==
  (c.marked \ {c.pairs[i][1] : i \in DOMAIN c.pairs}) \ {r[2] : r \in Redirects(c)}

Exec(p) ==
  /\ child[p] # Null /\ child[p].state = "forked"
  /\ child' = [child EXCEPT ![p] =
       [state |-> "running", spawn |-> child[p].spawn, kind |-> child[p].kind, pairs |-> child[p].pairs,
        table |-> WithoutFds(Arranged(child[p]), StillMarked(child[p])),
        marked |-> {}, crowded |-> child[p].crowded]]
  /\ UNCHANGED <<files, cloexec, objects, call, spawned>>

Ended(p) ==
  child' = [child EXCEPT ![p] =
    [state |-> "zombie", spawn |-> child[p].spawn, kind |-> child[p].kind, pairs |-> << >>,
     table |-> [fd \in Fds |-> Null], marked |-> {}, crowded |-> FALSE]]

(* A child that cannot redirect its streams or execute its program exits   *)
(* at once; a program exits when it likes.                                 *)
Exit(p) ==
  /\ child[p] # Null /\ child[p].state \in {"forked", "running"}
  /\ Ended(p)
  /\ UNCHANGED <<files, cloexec, objects, call, spawned>>

Die(p) ==
  /\ child[p] # Null /\ child[p].state = "dying"
  /\ Ended(p)
  /\ UNCHANGED <<files, cloexec, objects, call, spawned>>

(***************************************************************************)
(* Looking at a child, and giving it up.                                   *)
(***************************************************************************)
Zombie(p) == child[p] # Null /\ child[p].state = "zombie"

(* Mutant: a reaped child still has to be waited for (as on Windows).      *)
ReapedUnwaited(h) ==
  /\ process' = [process EXCEPT ![h].running = FALSE]
  /\ child' = [child EXCEPT ![process[h].pid] = Null]

Reaped(h) ==
  LET pid == process[h].pid IN
  /\ process' = [process EXCEPT ![h].running = FALSE, ![h].waited = TRUE]
  /\ child' = [child EXCEPT ![pid] = Null]

(* nexus_process_running_get: waitpid with WNOHANG.                        *)
Exited(h) == process[h].running /\ Zombie(process[h].pid)
Polled(h) == IF Exited(h) THEN Reaped(h) ELSE UNCHANGED <<process, child>>
SaysRunning(h) == process[h].running /\ ~Exited(h)

Calls(t) == At(t, "idle") /\ process[t] # Null

RunningGet(t) ==
  /\ Calls(t)
  /\ Exited(t)   \* otherwise nothing changes
  /\ Polled(t)
  /\ UNCHANGED <<files, cloexec, channel, call, spawned>>

(* nexus_process_wait starts; a call of it on a reaped child only answers. *)
WaitCall(t) ==
  /\ Calls(t) /\ ~process[t].waited
  /\ call' = [call EXCEPT ![t] = Calling("wait", "wait", 0)]
  /\ UNCHANGED <<files, cloexec, child, objects, spawned>>

(* terminate, and destroy up to its own call of running_get.               *)
TerminateCall(t) ==
  /\ Calls(t)
  /\ Polled(t)
  /\ IF SaysRunning(t)
       THEN call' = [call EXCEPT ![t] = Calling("kill", "terminate", 0)]
       ELSE UNCHANGED call
  /\ UNCHANGED <<files, cloexec, channel, spawned>>

(* Mutant: destroy waits for the child and does not kill it.               *)
DestroyByWaiting(t) ==
  /\ Calls(t)
  /\ Polled(t)
  /\ call' = [call EXCEPT ![t] = Calling("wait", "destroy", 0)]
  /\ UNCHANGED <<files, cloexec, channel, spawned>>

DestroyCall(t) ==
  /\ Calls(t)
  /\ Polled(t)
  /\ call' = [call EXCEPT ![t] = Calling(IF SaysRunning(t) THEN "poll" ELSE "wait", "destroy", 0)]
  /\ UNCHANGED <<files, cloexec, channel, spawned>>

(* destroy calls terminate, which asks running_get once more.              *)
PollAgain(t) ==
  /\ At(t, "poll")
  /\ Polled(t)
  /\ Goto(t, IF SaysRunning(t) THEN "kill" ELSE "wait")
  /\ UNCHANGED <<files, cloexec, channel, spawned>>

(* SIGKILL to whatever child has the id by now; a zombie ignores it, and   *)
(* ESRCH is not an error.                                                  *)
Kill(t) ==
  LET pid == process[t].pid IN
  /\ At(t, "kill")
  /\ child' = IF child[pid] # Null /\ child[pid].state \in {"forked", "running"}
                THEN [child EXCEPT ![pid].state = "dying"] ELSE child
  /\ IF call[t].kind = "destroy" THEN Goto(t, "wait") ELSE Return(t)
  /\ UNCHANGED <<files, cloexec, objects, spawned>>

(* waitpid blocks until the child is a zombie.                             *)
Wait(t) ==
  /\ At(t, "wait")
  /\ \/ process[t].waited /\ UNCHANGED <<process, child>>
     \/ ~process[t].waited /\ Zombie(process[t].pid) /\ Reaped(t)
  /\ IF call[t].kind = "destroy" THEN Goto(t, "close") ELSE Return(t)
  /\ UNCHANGED <<files, cloexec, channel, spawned>>

Streamed(t) == {process[t].stdin, process[t].stdout, process[t].stderr} \ {Null}

DestroyClose(t) ==
  /\ At(t, "close")
  /\ CloseFds(Streamed(t))
  /\ process' = [process EXCEPT ![t] = Null]
  /\ Return(t)
  /\ UNCHANGED <<child, channel, spawned>>

StdinClose(t) ==
  /\ Calls(t) /\ process[t].stdin # Null
  /\ CloseFds({process[t].stdin})
  /\ process' = [process EXCEPT ![t].stdin = Null]
  /\ UNCHANGED <<child, channel, call, spawned>>

ChannelDestroy(t) ==
  /\ At(t, "idle") /\ channel[t] # Null
  /\ CloseFds({channel[t]})
  /\ channel' = [channel EXCEPT ![t] = Null]
  /\ UNCHANGED <<child, process, call, spawned>>

(* nexus_process_spawn_wait waits without an object, and does not retry:   *)
(* a captured signal that arrives first makes waitpid fail with EINTR.     *)
SpawnWaitReap(t) ==
  /\ At(t, "reap")
  /\ \/ Zombie(call[t].pid) /\ child' = [child EXCEPT ![call[t].pid] = Null]
     \/ SignalCaptured /\ UNCHANGED child
  /\ Return(t)
  /\ UNCHANGED <<files, cloexec, objects, spawned>>

(***************************************************************************)
(* The next-state relation                                                 *)
(***************************************************************************)
Step(t) ==
  \/ Socketpair(t) \/ Mark(t) \/ Fork(t) \/ Fails(t) \/ Publish(t)
  \/ PollAgain(t) \/ Kill(t) \/ Wait(t) \/ DestroyClose(t) \/ SpawnWaitReap(t)

CallOf(t) ==
  \/ \E kind \in Kinds : Spawn(t, kind)
  \/ RunningGet(t) \/ WaitCall(t) \/ TerminateCall(t) \/ DestroyCall(t)
  \/ StdinClose(t) \/ ChannelDestroy(t)

Kernel(p) == Exec(p) \/ Exit(p) \/ Die(p)

Next ==
  \/ \E t \in Threads : Step(t) \/ CallOf(t)
  \/ \E p \in Pids : Kernel(p)

Spec == Init /\ [][Next]_vars

(***************************************************************************)
(* Properties                                                              *)
(***************************************************************************)
Holds(h) == (IF process[h] = Null THEN {} ELSE Streamed(h)) \cup ({channel[h]} \ {Null})

(* Every descriptor the library opened in the parent belongs to one owner, *)
(* a live object or a spawn under way, on every path out of a spawn that   *)
(* fails half-way; and no object holds a number that is closed or that has *)
(* become another's.                                                       *)
Owned ==
  /\ \A fd \in Fds : files[fd] \notin {Null, Inherited} =>
       \/ \E h \in Threads : fd \in Holds(h)
       \/ \E t \in Threads : fd \in OpenedEnds(t)
  /\ \A h \in Threads :
       /\ \A fd \in Holds(h) : files[fd] # Null /\ files[fd][3] = 0
       /\ process[h] # Null => \A fd \in Streamed(h) : files[fd][1] = process[h].spawn
       /\ \A g \in Threads \ {h} : Holds(g) \cap Holds(h) = {}

(* The child's program finds the far ends where the call promises them,    *)
(* each once, and neither end of its own pipes elsewhere: it would never   *)
(* see the end of its input.                                               *)
Places(c) ==
  IF c.kind = "piped" THEN {<<0, End(c.spawn, "stdin", 1)>>, <<1, End(c.spawn, "stdout", 1)>>}
  ELSE IF c.kind = "channel" THEN {<<c.pairs[1][2], End(c.spawn, "channel", 1)>>}
  ELSE IF c.kind = "captured"
    THEN {<<c.pairs[1][2], End(c.spawn, "channel", 1)>>, <<2, End(c.spawn, "stderr", 1)>>}
  ELSE {}

Running(p) == child[p] # Null /\ child[p].state = "running"

Wired ==
  \A p \in Pids : Running(p) =>
    LET c == child[p] IN
    {<<fd, c.table[fd]>> : fd \in {fd \in Fds : c.table[fd] # Null /\ c.table[fd][1] = c.spawn}}
      = Places(c)

(* What a child inherits of other children's pipes is at most the parent's *)
(* end of a stdin or stdout: never an end of a channel or of a captured    *)
(* stderr, nor a far end, unless another thread was in the middle of a     *)
(* spawn at the fork.                                                      *)
Apart ==
  \A p \in Pids : Running(p) /\ ~child[p].crowded =>
    \A fd \in Fds :
      LET end == child[p].table[fd] IN
      end \notin {Null, Inherited} /\ end[1] # child[p].spawn =>
        end[2] \in {"stdin", "stdout"} /\ end[3] = 0

(* An object whose child is not known to be dead names its own child,      *)
(* though ids are used again: a wait reaps, and a kill reaches, nobody     *)
(* else.  A child that an object was made for is never left behind.        *)
Reaping ==
  /\ \A h \in Threads : process[h] # Null =>
       /\ process[h].running = ~process[h].waited
       /\ ~process[h].waited =>
            /\ child[process[h].pid] # Null
            /\ child[process[h].pid].spawn = process[h].spawn
  /\ \A t \in Threads : At(t, "kill") => ~process[t].waited
  /\ \A p \in Pids : child[p] # Null /\ child[p].kind # "spawn_wait" =>
       \/ \E h \in Threads : process[h] # Null /\ process[h].pid = p /\ ~process[h].waited
       \/ \E t \in Threads : At(t, "publish") /\ call[t].pid = p

(* destroy blocks only on a child that is dead or has been killed, so it   *)
(* returns whatever the child does.                                        *)
NoHang ==
  \A t \in Threads : At(t, "wait") /\ call[t].kind = "destroy" =>
    process[t].waited \/ child[process[t].pid].state \in {"dying", "zombie"}

(* nexus.h: spawn_wait "starts executable_path in a child process and      *)
(* waits for completion": no child of spawn_wait outlives the call.        *)
WaitsForCompletion ==
  \A p \in Pids : child[p] # Null /\ child[p].kind = "spawn_wait" =>
    \E t \in Threads : At(t, "reap") /\ call[t].pid = p
=============================================================================
