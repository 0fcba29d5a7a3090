-------------------------- MODULE ProcessesProofs --------------------------
(***************************************************************************)
(* For any number of threads, process ids, descriptors and spawns, and     *)
(* with any standard descriptors closed at the start: every child is       *)
(* reaped by its own object and nobody else's, destroy never waits for a   *)
(* child that may run on, every descriptor the library opens has one owner *)
(* that closes it, and a child inherits no more of the other children's    *)
(* pipes than the parent's end of a stdin or stdout.  With at most one     *)
(* closed, its program finds its own ends where the call promises them.    *)
(***************************************************************************)
EXTENDS Processes, WellFoundedInduction, TLAPS

-----------------------------------------------------------------------------
(* A set of naturals has a least element.                                  *)
LEMMA LeastNatural ==
  ASSUME NEW S \in SUBSET Nat, S # {}
  PROVE  \E m \in S : \A j \in S : m <= j
  <1> DEFINE R == OpToRel(<, Nat)
  <1>1. IsWellFoundedOn(R, Nat)
    BY NatLessThanWellFounded
  <1>2. \A x, y \in Nat : x < y => <<x, y>> \in R
    BY DEF OpToRel
  <1>3. \E x \in S : \A y \in S : <<y, x>> \notin R
    <2> HIDE DEF R
    <2> QED BY <1>1, WFMin
  <1>4. PICK m \in S : \A j \in S : <<j, m>> \notin R
    BY <1>3
  <1>5. \A j \in S : ~(j < m)
    <2> HIDE DEF R
    <2> QED BY <1>2, <1>4
  <1> QED BY <1>5

-----------------------------------------------------------------------------
Starting == {"pair", "mark", "fork", "publish", "reap"}
Ending == {"poll", "kill", "wait", "close"}

CallRecords ==
  [pc : {"idle"} \cup Starting \cup Ending,
   kind : Kinds \cup {"wait", "terminate", "destroy", Null},
   pairs : Seq(Fds \X Fds), spawn : Nat, pid : Pids \cup {Null}]

TypeOK ==
  /\ files \in Tables
  /\ cloexec \in SUBSET Fds
  /\ child \in [Pids -> Children \cup {Null}]
  /\ process \in [Threads -> Objects \cup {Null}]
  /\ channel \in [Threads -> Fds \cup {Null}]
  /\ call \in [Threads -> CallRecords]
  /\ spawned \in Nat

(* Where a call is says what its record and its thread's objects hold.     *)
Shaped(t) ==
  LET c == call[t] IN
  /\ c.pc \in Starting => c.kind \in Kinds
  /\ c.pc \in {"pair", "mark", "publish"} => c.kind # "spawn_wait"
  /\ c.pc = "reap" => c.kind = "spawn_wait"
  /\ c.pc \in Starting /\ c.kind # "spawn_wait" => process[t] = Null /\ channel[t] = Null
  /\ c.pc = "pair" => Len(c.pairs) < Len(Streams(c.kind))
  /\ c.pc \in Starting \ {"pair"} => Len(c.pairs) = Len(Streams(c.kind))
  /\ c.pc \in {"publish", "reap"} => c.pid \in Pids
  /\ c.pc \in Ending => process[t] # Null
  /\ c.pc \notin Starting => c.pairs = << >>
  /\ c.pc = "kill" => ~process[t].waited
  /\ c.pc = "close" => process[t].waited

AllShaped == \A t \in Threads : Shaped(t)

(* A child that has not executed its program has all its pairs.            *)
AllForked ==
  \A p \in Pids : child[p] # Null /\ child[p].state = "forked" =>
    Len(child[p].pairs) = Len(Streams(child[p].kind))

(* The child a call is making, and the child an object still has to reap.  *)
Made(t) == IF At(t, "publish") \/ At(t, "reap") THEN call[t].pid ELSE Null
Kept(t) == IF process[t] # Null /\ ~process[t].waited THEN process[t].pid ELSE Null

(* A child has at most one claimant, it is the child the claimant started, *)
(* and a child an object is made for has one.                              *)
Claimed ==
  /\ \A t \in Threads : Kept(t) # Null =>
       /\ child[Kept(t)] # Null
       /\ child[Kept(t)].spawn = process[t].spawn
       /\ child[Kept(t)].kind # "spawn_wait"
  /\ \A t \in Threads : Made(t) # Null =>
       /\ child[Made(t)] # Null
       /\ child[Made(t)].spawn = call[t].spawn
       /\ child[Made(t)].kind = call[t].kind
  /\ \A t, u \in Threads :
       /\ Kept(t) # Null /\ t # u => Kept(t) # Kept(u)
       /\ Made(t) # Null /\ t # u => Made(t) # Made(u)
       /\ Made(t) # Null => Made(t) # Kept(u)
  /\ \A p \in Pids : child[p] # Null /\ child[p].kind # "spawn_wait" =>
       \E t \in Threads : Kept(t) = p \/ Made(t) = p
  /\ \A t \in Threads : process[t] # Null => process[t].running = ~process[t].waited

(* A destroy that blocks, blocks on a child that is dead or dies.          *)
Settled(t) ==
  At(t, "wait") /\ call[t].kind = "destroy" =>
    process[t].waited \/ child[process[t].pid].state \in {"dying", "zombie"}

IInv == TypeOK /\ AllShaped /\ AllForked /\ Claimed /\ NoHang

-----------------------------------------------------------------------------
(* Null is none of the values it stands beside.                            *)
LEMMA NullIsNothing ==
  /\ Null \notin Objects /\ Null \notin Children /\ Null \notin Ends /\ Null \notin Nat
  /\ Null \notin Pids /\ Null \notin Fds
  <1>1. \A n \in Nat : n # Null
    BY NullAssumption
  <1>2. Null \notin Pids
    BY <1>1, PidsAssumption, Zenon
  <1>3. Fds \subseteq Nat
    BY FdsAssumption DEF Fds
  <1>4. Null \notin Fds
    BY <1>1, <1>3, Zenon
  <1> QED BY NullAssumption, <1>2, <1>4, Zenon

(* The lengths of the lists of streams.                                    *)
LEMMA StreamsLength ==
  ASSUME NEW kind \in Kinds
  PROVE  /\ Len(Streams(kind)) \in 0 .. 2
         /\ Streams(kind) \in Seq({"stdin", "stdout", "stderr", "channel"})
         /\ kind = "spawn_wait" <=> Len(Streams(kind)) = 0
         /\ ~Marked(kind) => AfterPairs(kind) = "fork"
         /\ Marked(kind) => AfterPairs(kind) = "mark" /\ kind # "spawn_wait"
  <1>1. Streams(kind) \in Seq({"stdin", "stdout", "stderr", "channel"})
    <2> DEFINE S == {"stdin", "stdout", "stderr", "channel"}
    <2>1. \A x, y \in S : <<x, y>> \in Seq(S) /\ <<x>> \in Seq(S)
      OBVIOUS
    <2>2. << >> \in Seq(S)
      OBVIOUS
    <2>3. "stdin" \in S /\ "stdout" \in S /\ "stderr" \in S /\ "channel" \in S
      OBVIOUS
    <2> HIDE DEF S
    <2>4. CASE kind = "piped"
      BY <2>1, <2>3, <2>4 DEF Streams, S
    <2>5. CASE kind = "channel"
      BY <2>1, <2>3, <2>5 DEF Streams, S
    <2>6. CASE kind = "captured"
      BY <2>1, <2>3, <2>6 DEF Streams, S
    <2>7. CASE kind = "spawn_wait"
      BY <2>2, <2>7 DEF Streams, S
    <2> QED BY <2>4, <2>5, <2>6, <2>7 DEF Kinds
  <1>2. Len(Streams(kind)) \in 0 .. 2 /\ (kind = "spawn_wait" <=> Len(Streams(kind)) = 0)
    BY DEF Kinds, Streams
  <1> QED BY <1>1, <1>2 DEF Marked, AfterPairs

(* A free number is found when there is one, and tables stay tables.       *)
LEMMA LowestFree ==
  ASSUME NEW table \in Tables, \E fd \in Fds : table[fd] = Null
  PROVE  /\ Lowest(table) \in Fds /\ table[Lowest(table)] = Null
         /\ \A fd \in Fds : table[fd] = Null => Lowest(table) <= fd
  <1> DEFINE S == {fd \in Fds : table[fd] = Null}
  <1>1. S \in SUBSET Nat /\ S # {}
    BY FdsAssumption DEF Fds
  <1>2. \E m \in S : \A j \in S : m <= j
    BY <1>1, LeastNatural
  <1>3. Min(S) \in S /\ \A j \in S : Min(S) <= j
    <2> HIDE DEF S
    <2> QED BY <1>2 DEF Min
  <1> QED BY <1>3 DEF Lowest

LEMMA WithoutFdsTable ==
  ASSUME NEW table \in Tables, NEW fds
  PROVE  WithoutFds(table, fds) \in Tables
  BY DEF Tables, WithoutFds

-----------------------------------------------------------------------------
LEMMA OthersShaped ==
  ASSUME AllShaped, NEW t \in Threads,
         \A u \in Threads \ {t} :
           call'[u] = call[u] /\ process'[u] = process[u] /\ channel'[u] = channel[u],
         Shaped(t)'
  PROVE  AllShaped'
  BY DEF AllShaped, Shaped

LEMMA IdleShaped ==
  /\ Idle \in CallRecords
  /\ Idle.pc = "idle" /\ Idle.pairs = << >>
  BY DEF CallRecords, Idle, Calling

LEMMA SpawnShaped ==
  ASSUME TypeOK, AllShaped, NEW t \in Threads, NEW kind \in Kinds, Spawn(t, kind)
  PROVE  TypeOK' /\ AllShaped'
  <1> DEFINE c == [pc |-> IF kind = "spawn_wait" THEN "fork" ELSE "pair", kind |-> kind,
                   pairs |-> << >>, spawn |-> spawned + 1, pid |-> Null]
  <1>1. call' = [call EXCEPT ![t] = c]
    BY DEF Spawn, Calling
  <1>2. c \in CallRecords
    BY DEF CallRecords, TypeOK, Starting
  <1>3. TypeOK'
    BY <1>1, <1>2 DEF TypeOK, Spawn, objects
  <1>4. Shaped(t)'
    <2>1. call'[t] = c
      BY <1>1 DEF TypeOK
    <2>2. kind # "spawn_wait" => process'[t] = Null /\ channel'[t] = Null
      BY DEF Spawn, objects
    <2>3. Len(c.pairs) = 0
      OBVIOUS
    <2> QED BY <2>1, <2>2, <2>3, StreamsLength DEF Shaped, Starting, Ending
  <1> QED BY <1>1, <1>3, <1>4, OthersShaped DEF TypeOK, Spawn, objects

LEMMA SocketpairShaped ==
  ASSUME TypeOK, AllShaped, NEW t \in Threads, Socketpair(t)
  PROVE  /\ TypeOK' /\ AllShaped'
         /\ process[t] = Null /\ channel[t] = Null
         /\ \E near, far \in Fds : LET stream == Streams(call[t].kind)[Len(call[t].pairs) + 1] IN
              /\ near <= far /\ near # far /\ files[near] = Null /\ files[far] = Null
              /\ files' = [fd \in Fds |-> IF fd = near THEN End(call[t].spawn, stream, 0)
                                         ELSE IF fd = far THEN End(call[t].spawn, stream, 1)
                                         ELSE files[fd]]
              /\ End(call[t].spawn, stream, 0) \in Ends /\ End(call[t].spawn, stream, 1) \in Ends
              /\ call' = [call EXCEPT ![t] = call'[t]]
              /\ call'[t].pairs = Append(call[t].pairs, <<near, far>>)
              /\ call'[t].spawn = call[t].spawn /\ call'[t].kind = call[t].kind
  <1> DEFINE c == call[t]
             stream == Streams(c.kind)[Len(c.pairs) + 1]
             near == Lowest(files)
             kept == [files EXCEPT ![near] = End(c.spawn, stream, 0)]
             far == Lowest(kept)
             pc == IF Len(c.pairs) + 1 = Len(Streams(c.kind)) THEN AfterPairs(c.kind) ELSE "pair"
             d == [pc |-> pc, kind |-> c.kind, pairs |-> Append(c.pairs, <<near, far>>),
                   spawn |-> c.spawn, pid |-> c.pid]
  <1>1. PICK a, b \in Fds : a # b /\ files[a] = Null /\ files[b] = Null
    BY DEF Socketpair
  <1>2. /\ c \in CallRecords /\ c.pc = "pair" /\ c.kind \in Kinds
        /\ c.kind # "spawn_wait" /\ Len(c.pairs) < Len(Streams(c.kind))
        /\ process[t] = Null /\ channel[t] = Null
    BY DEF Socketpair, TypeOK, AllShaped, Shaped, Starting
  <1>3. Len(c.pairs) \in Nat /\ c.pairs \in Seq(Fds \X Fds) /\ c.spawn \in Nat
    BY <1>2 DEF CallRecords
  <1>4. stream \in {"stdin", "stdout", "stderr", "channel"}
    <2>1. Len(c.pairs) + 1 \in 1 .. Len(Streams(c.kind))
      BY <1>2, <1>3, StreamsLength
    <2> QED BY <1>2, <2>1 DEF Streams, Kinds
  <1>5. End(c.spawn, stream, 0) \in Ends /\ End(c.spawn, stream, 1) \in Ends
    BY <1>3, <1>4 DEF End, Ends
  <1>6. near \in Fds /\ files[near] = Null /\ \A fd \in Fds : files[fd] = Null => near <= fd
    BY <1>1, LowestFree DEF TypeOK
  <1>7. kept \in Tables /\ kept[near] # Null
    BY <1>5, <1>6, NullIsNothing DEF TypeOK, Tables
  <1>8. far \in Fds /\ kept[far] = Null
    <2>1. \E fd \in Fds : kept[fd] = Null
      BY <1>1, <1>6 DEF TypeOK, Tables
    <2> HIDE DEF kept
    <2> QED BY <1>7, <2>1, LowestFree
  <1>9. files' \in Tables
    BY <1>5, <1>7, <1>8 DEF Socketpair, Tables
  <1>10. call' = [call EXCEPT ![t] = d]
    BY DEF Socketpair
  <1>11. Append(c.pairs, <<near, far>>) \in Seq(Fds \X Fds)
         /\ Len(Append(c.pairs, <<near, far>>)) = Len(c.pairs) + 1
    <2> HIDE DEF near, far, c
    <2> QED BY <1>3, <1>6, <1>8
  <1>12. pc \in {"pair", "mark", "fork"} /\ (pc = "pair" <=> Len(c.pairs) + 1 # Len(Streams(c.kind)))
    BY <1>2 DEF AfterPairs
  <1> HIDE DEF near, far, pc, c
  <1>13. d \in CallRecords
    BY <1>2, <1>11, <1>12 DEF CallRecords, Starting
  <1>14. TypeOK'
    BY <1>9, <1>10, <1>13 DEF TypeOK, Socketpair, objects
  <1>15. Shaped(t)'
    <2>1. call'[t] = d /\ process'[t] = Null /\ channel'[t] = Null
      BY <1>2, <1>10 DEF TypeOK, Socketpair, objects
    <2> QED BY <2>1, <1>2, <1>3, <1>11, <1>12, StreamsLength DEF Shaped, Starting, Ending
  <1>16. AllShaped'
    BY <1>10, <1>15, OthersShaped DEF TypeOK, Socketpair, objects
  <1>17. call'[t] = d
    BY <1>10 DEF TypeOK
  <1>18. near # far /\ files[far] = Null
    BY <1>6, <1>7, <1>8 DEF kept, TypeOK, Tables
  <1>21. near <= far
    BY <1>6, <1>8, <1>18
  <1>19. files' = [fd \in Fds |-> IF fd = near THEN End(c.spawn, stream, 0)
                                 ELSE IF fd = far THEN End(c.spawn, stream, 1) ELSE files[fd]]
    <2>1. files' = [kept EXCEPT ![far] = End(c.spawn, stream, 1)]
      BY DEF Socketpair, kept, near, far, c
    <2> QED BY <2>1, <1>6, <1>8, <1>18 DEF kept, TypeOK, Tables
  <1> HIDE DEF d, stream
  <1>20. /\ call'[t].pairs = Append(c.pairs, <<near, far>>)
         /\ call'[t].spawn = c.spawn /\ call'[t].kind = c.kind
    BY <1>17 DEF d
  <1> QED BY <1>2, <1>5, <1>6, <1>8, <1>10, <1>14, <1>16, <1>17, <1>18, <1>19, <1>20, <1>21 DEF c, stream

(* A step of a call that stays a start of the same kind.                   *)
LEMMA MarkShaped ==
  ASSUME TypeOK, AllShaped, NEW t \in Threads, Mark(t)
  PROVE  TypeOK' /\ AllShaped'
  <1>1. call[t].pairs \in Seq(Fds \X Fds) /\ call[t] \in CallRecords
    BY DEF TypeOK, CallRecords
  <1>2. cloexec' \in SUBSET Fds
    BY <1>1 DEF Mark, TypeOK
  <1>3. call' = [call EXCEPT ![t].pc = "fork"]
    BY DEF Mark, Goto
  <1>4. call'[t] \in CallRecords
    BY <1>1, <1>3 DEF TypeOK, CallRecords, Starting
  <1>5. TypeOK'
    BY <1>2, <1>3, <1>4 DEF TypeOK, Mark, objects
  <1>6. Shaped(t)'
    BY <1>1, <1>3 DEF AllShaped, Shaped, Mark, objects, TypeOK, CallRecords, Starting, Ending
  <1> QED BY <1>3, <1>5, <1>6, OthersShaped DEF TypeOK, Mark, objects

LEMMA FailsShaped ==
  ASSUME TypeOK, AllShaped, NEW t \in Threads, Fails(t)
  PROVE  TypeOK' /\ AllShaped'
  <1>1. call' = [call EXCEPT ![t] = Idle]
    BY DEF Fails, Abandon, Return
  <1>2. TypeOK'
    BY <1>1, IdleShaped, WithoutFdsTable DEF TypeOK, Fails, Abandon, CloseFds, objects
  <1>3. Shaped(t)'
    BY <1>1, IdleShaped DEF Shaped, TypeOK, Starting, Ending
  <1> QED BY <1>1, <1>2, <1>3, OthersShaped DEF TypeOK, Fails, Abandon, objects

LEMMA ForkShaped ==
  ASSUME TypeOK, AllShaped, NEW t \in Threads, Fork(t)
  PROVE  /\ TypeOK' /\ AllShaped'
         /\ \E pid \in Pids :
              /\ child[pid] = Null
              /\ child'[pid] # Null
              /\ child'[pid].spawn = call[t].spawn /\ child'[pid].kind = call[t].kind
              /\ Len(child'[pid].pairs) = Len(Streams(child'[pid].kind))
              /\ child' = [child EXCEPT ![pid] = child'[pid]]
              /\ call' = [call EXCEPT ![t] = call'[t]]
              /\ call'[t].pid = pid /\ call'[t].spawn = call[t].spawn /\ call'[t].kind = call[t].kind
              /\ call'[t].pairs = call[t].pairs
              /\ call'[t].pc = IF call[t].kind = "spawn_wait" THEN "reap" ELSE "publish"
  <1> DEFINE c == call[t]
             pid == Min({p \in Pids : child[p] = Null})
             made == [state |-> "forked", spawn |-> c.spawn, kind |-> c.kind, pairs |-> c.pairs,
                      table |-> files, marked |-> cloexec, crowded |-> Crowded(t)]
             pc == IF c.kind = "spawn_wait" THEN "reap" ELSE "publish"
             d == [pc |-> pc, kind |-> c.kind, pairs |-> c.pairs, spawn |-> c.spawn, pid |-> pid]
  <1>1. pid \in Pids /\ child[pid] = Null
    <2> DEFINE S == {p \in Pids : child[p] = Null}
    <2>1. S \in SUBSET Nat /\ S # {}
      BY PidsAssumption DEF Fork
    <2>2. \E m \in S : \A j \in S : m <= j
      BY <2>1, LeastNatural
    <2>3. Min(S) \in S
      <3> HIDE DEF S
      <3> QED BY <2>2 DEF Min
    <2> QED BY <2>3
  <1>2. /\ c.pc = "fork"
        /\ child' = [child EXCEPT ![pid] = made]
        /\ call' = [call EXCEPT ![t] = d]
        /\ UNCHANGED <<files, cloexec, objects, spawned>>
    BY DEF Fork
  <1> HIDE DEF pid
  <1>3. c \in CallRecords /\ c.kind \in Kinds /\ Shaped(t)
    BY <1>2 DEF AllShaped, Shaped, TypeOK, Starting
  <1>5. made \in Children
    <2>1. Crowded(t) \in BOOLEAN
      BY DEF Crowded
    <2> QED BY <1>3, <2>1 DEF Children, CallRecords, TypeOK
  <1>6. d \in CallRecords
    BY <1>1, <1>3 DEF CallRecords, Starting
  <1> HIDE DEF made
  <1>7. child' \in [Pids -> Children \cup {Null}] /\ child'[pid] = made
    BY <1>1, <1>2, <1>5 DEF TypeOK
  <1>8. TypeOK'
    <2> HIDE DEF d
    <2> QED BY <1>2, <1>6, <1>7 DEF TypeOK, objects
  <1>9. call'[t] = d
    BY <1>2 DEF TypeOK
  <1>10. Shaped(t)'
    BY <1>1, <1>2, <1>3, <1>9 DEF Shaped, objects, Starting, Ending
  <1>11. AllShaped'
    BY <1>2, <1>10, OthersShaped DEF TypeOK, objects
  <1>12. made # Null
    BY <1>5, NullIsNothing
  <1>13. child' = [child EXCEPT ![pid] = child'[pid]] /\ call' = [call EXCEPT ![t] = call'[t]]
    <2> HIDE DEF d
    <2> QED BY <1>2, <1>7, <1>9, Zenon
  <1>14. /\ child'[pid].spawn = c.spawn /\ child'[pid].kind = c.kind
         /\ child'[pid].pairs = c.pairs
    BY <1>7 DEF made
  <1>15. Len(c.pairs) = Len(Streams(c.kind))
    BY <1>2, <1>3 DEF Shaped, Starting
  <1> QED BY <1>1, <1>7, <1>8, <1>9, <1>11, <1>12, <1>13, <1>14, <1>15

LEMMA PublishShaped ==
  ASSUME TypeOK, AllShaped, NEW t \in Threads, Publish(t)
  PROVE  /\ TypeOK' /\ AllShaped'
         /\ process' = [process EXCEPT ![t] = process'[t]]
         /\ process'[t] # Null
         /\ process'[t].pid = call[t].pid /\ process'[t].spawn = call[t].spawn
         /\ process'[t].running /\ ~process'[t].waited
         /\ process'[t].stdin = NearEnd(call[t], "stdin")
         /\ process'[t].stdout = NearEnd(call[t], "stdout")
         /\ process'[t].stderr = NearEnd(call[t], "stderr")
         /\ channel' = [channel EXCEPT ![t] = NearEnd(call[t], "channel")]
         /\ call' = [call EXCEPT ![t] = Idle]
  <1> DEFINE c == call[t]
             object == [pid |-> c.pid, running |-> TRUE, waited |-> FALSE, spawn |-> c.spawn,
                        stdin |-> NearEnd(c, "stdin"), stdout |-> NearEnd(c, "stdout"),
                        stderr |-> NearEnd(c, "stderr")]
  <1>1. /\ c \in CallRecords /\ c.kind \in Kinds /\ c.pid \in Pids
        /\ Len(c.pairs) = Len(Streams(c.kind))
    BY DEF Publish, TypeOK, AllShaped, Shaped, Starting
  <1>2. ASSUME NEW stream \in {"stdin", "stdout", "stderr", "channel"}
        PROVE  NearEnd(c, stream) \in Fds \cup {Null}
    <2>1. SUFFICES ASSUME stream \in Range(Streams(c.kind))
                   PROVE  NearEnd(c, stream) \in Fds
      BY DEF NearEnd
    <2> DEFINE S == Streams(c.kind)
               j == CHOOSE i \in DOMAIN S : S[i] = stream
    <2>2. \E i \in DOMAIN S : S[i] = stream
      BY <2>1 DEF Range
    <2>3. j \in DOMAIN S
      <3> HIDE DEF S
      <3> QED BY <2>2
    <2>4. DOMAIN S = 1 .. Len(S)
      BY <1>1, StreamsLength
    <2>5. c.pairs \in Seq(Fds \X Fds)
      BY <1>1 DEF CallRecords
    <2> HIDE DEF c
    <2>6. c.pairs[j] \in Fds \X Fds
      <3> HIDE DEF j, S
      <3> QED BY <1>1, <2>3, <2>4, <2>5 DEF S
    <2> QED BY <2>1, <2>6 DEF NearEnd
  <1>3. object \in Objects
    BY <1>1, <1>2 DEF Objects, CallRecords
  <1>4. /\ process' = [process EXCEPT ![t] = object]
        /\ channel' = [channel EXCEPT ![t] = NearEnd(c, "channel")]
        /\ call' = [call EXCEPT ![t] = Idle]
        /\ UNCHANGED <<child, spawned>>
    BY DEF Publish, Return
  <1>5. files' \in Tables /\ cloexec' \in SUBSET Fds
    BY WithoutFdsTable DEF Publish, CloseFds, TypeOK
  <1>6. channel' \in [Threads -> Fds \cup {Null}]
    BY <1>2, <1>4 DEF TypeOK
  <1>7. process' \in [Threads -> Objects \cup {Null}] /\ process'[t] = object
    <2> HIDE DEF object
    <2> QED BY <1>3, <1>4 DEF TypeOK
  <1>8. TypeOK'
    BY <1>4, <1>5, <1>6, <1>7, IdleShaped DEF TypeOK
  <1>9. Shaped(t)'
    BY <1>4, IdleShaped DEF Shaped, TypeOK, Starting, Ending
  <1>10. AllShaped'
    BY <1>4, <1>9, OthersShaped DEF TypeOK
  <1>11. object # Null
    BY <1>3, NullIsNothing
  <1> QED BY <1>4, <1>7, <1>8, <1>10, <1>11

-----------------------------------------------------------------------------
(* Reaping a child changes two flags of its object and frees its id.       *)
LEMMA ReapedFacts ==
  ASSUME TypeOK, NEW h \in Threads, process[h] # Null, Reaped(h)
  PROVE  /\ process' \in [Threads -> Objects \cup {Null}]
         /\ child' \in [Pids -> Children \cup {Null}]
         /\ process' = [process EXCEPT ![h] = process'[h]]
         /\ process'[h] # Null
         /\ process'[h].waited /\ ~process'[h].running
         /\ process'[h].pid = process[h].pid /\ process'[h].spawn = process[h].spawn
         /\ process'[h].stdin = process[h].stdin /\ process'[h].stdout = process[h].stdout
         /\ process'[h].stderr = process[h].stderr
         /\ child' = [child EXCEPT ![process[h].pid] = Null]
  <1> DEFINE object == [process[h] EXCEPT !.running = FALSE, !.waited = TRUE]
  <1>1. process[h] \in Objects
    BY DEF TypeOK
  <1>2. object \in Objects /\ object.waited /\ ~object.running
        /\ object.pid = process[h].pid /\ object.spawn = process[h].spawn
        /\ object.stdin = process[h].stdin /\ object.stdout = process[h].stdout
        /\ object.stderr = process[h].stderr
    BY <1>1 DEF Objects
  <1>3. process' = [process EXCEPT ![h] = object]
    BY DEF Reaped
  <1> HIDE DEF object
  <1>4. process'[h] = object /\ process' \in [Threads -> Objects \cup {Null}]
    BY <1>2, <1>3 DEF TypeOK
  <1>5. child' \in [Pids -> Children \cup {Null}]
    BY DEF Reaped, TypeOK
  <1> QED BY <1>2, <1>3, <1>4, <1>5, NullIsNothing DEF Reaped

(* running_get reaps an exited child and otherwise changes nothing.        *)
LEMMA PolledFacts ==
  ASSUME TypeOK, AllShaped, Claimed, NEW h \in Threads, process[h] # Null, Polled(h)
  PROVE  \/ Reaped(h) /\ ~process[h].waited /\ ~SaysRunning(h)
         \/ UNCHANGED <<process, child>> /\ (SaysRunning(h) <=> ~process[h].waited)
  <1>1. process[h].running = ~process[h].waited /\ process[h] \in Objects
    BY DEF Claimed, TypeOK
  <1> QED BY <1>1 DEF Polled, Exited, SaysRunning, Objects

-----------------------------------------------------------------------------
(* The table a child's program starts with.                                *)
LEMMA ArrangedTable ==
  ASSUME NEW c \in Children, Len(c.pairs) = Len(Streams(c.kind))
  PROVE  Arranged(c) \in Tables
  <1> DEFINE start == WithoutFds(c.table, {c.pairs[i][1] : i \in DOMAIN c.pairs})
  <1>1. start \in Tables
    BY WithoutFdsTable DEF Children
  <1>2. c.pairs \in Seq(Fds \X Fds) /\ c.kind \in Kinds
    BY DEF Children
  <1>3. ASSUME NEW table \in Tables, NEW from \in Fds, NEW to \in Fds
        PROVE  Dup2(table, from, to) \in Tables
    BY DEF Dup2, Tables
  <1>4. 0 \in Fds /\ 1 \in Fds /\ 2 \in Fds
    BY FdsAssumption DEF Fds
  <1>5. c.kind \in {"piped", "captured"} => c.pairs[1][2] \in Fds /\ c.pairs[2][2] \in Fds
    BY <1>2 DEF Streams
  <1>6. ASSUME NEW table \in Tables
        PROVE  Redirected(c, table) \in Tables
    <2>1. CASE c.kind = "piped"
      <3>1. Dup2(table, c.pairs[1][2], 0) \in Tables
        BY <2>1, <1>3, <1>4, <1>5
      <3>2. Dup2(Dup2(table, c.pairs[1][2], 0), c.pairs[2][2], 1) \in Tables
        BY <2>1, <3>1, <1>3, <1>4, <1>5
      <3> QED BY <2>1, <3>2 DEF Redirected
    <2>2. CASE c.kind = "captured"
      BY <2>2, <1>3, <1>4, <1>5 DEF Redirected
    <2>3. CASE c.kind \notin {"piped", "captured"}
      BY <2>3 DEF Redirected
    <2> QED BY <2>1, <2>2, <2>3
  <1> HIDE DEF start
  <1>7. Redirected(c, start) \in Tables
    BY <1>1, <1>6
  <1> QED BY <1>7, WithoutFdsTable DEF Arranged, start

(* What the kernel does to a child leaves it the same child, which does    *)
(* not come back to life.                                                  *)
LEMMA KernelFacts ==
  ASSUME TypeOK, AllForked, NEW p \in Pids, Kernel(p)
  PROVE  /\ TypeOK' /\ AllForked'
         /\ child[p] # Null /\ child'[p] # Null
         /\ child' = [child EXCEPT ![p] = child'[p]]
         /\ child'[p].spawn = child[p].spawn /\ child'[p].kind = child[p].kind
         /\ child[p].state \in {"dying", "zombie"} => child'[p].state \in {"dying", "zombie"}
         /\ UNCHANGED <<process, channel, call>>
  <1> DEFINE after == [state |-> "running", spawn |-> child[p].spawn, kind |-> child[p].kind,
                       pairs |-> child[p].pairs,
                       table |-> WithoutFds(Arranged(child[p]), StillMarked(child[p])),
                       marked |-> {}, crowded |-> child[p].crowded]
             dead == [state |-> "zombie", spawn |-> child[p].spawn, kind |-> child[p].kind,
                      pairs |-> << >>, table |-> [fd \in Fds |-> Null],
                      marked |-> {}, crowded |-> FALSE]
  <1>1. child[p] # Null /\ child[p] \in Children
    BY DEF Kernel, Exec, Exit, Die, TypeOK
  <1>2. UNCHANGED <<files, cloexec, process, channel, call, spawned>>
    BY DEF Kernel, Exec, Exit, Die, objects
  <1>3. CASE Exec(p)
    <2>1. Arranged(child[p]) \in Tables
      BY <1>1, <1>3, ArrangedTable DEF Exec, AllForked
    <2>2. after \in Children
      BY <1>1, <2>1, WithoutFdsTable DEF Children
    <2>3. child' = [child EXCEPT ![p] = after] /\ child[p].state = "forked"
      BY <1>3 DEF Exec
    <2>4. after.state = "running" /\ after.spawn = child[p].spawn /\ after.kind = child[p].kind
      OBVIOUS
    <2> HIDE DEF after
    <2>5. child' \in [Pids -> Children \cup {Null}] /\ child'[p] = after
      BY <2>2, <2>3 DEF TypeOK
    <2>6. TypeOK'
      BY <1>2, <2>5 DEF TypeOK
    <2>7. AllForked'
      BY <2>3, <2>4, <2>5 DEF AllForked, TypeOK
    <2> QED BY <1>1, <1>2, <2>2, <2>3, <2>4, <2>5, <2>6, <2>7, NullIsNothing
  <1>4. CASE Exit(p) \/ Die(p)
    <2>1. dead \in Children
      <3>1. << >> \in Seq(Fds \X Fds) /\ [fd \in Fds |-> Null] \in Tables
        BY DEF Tables
      <3> QED BY <1>1, <3>1 DEF Children
    <2>2. child' = [child EXCEPT ![p] = dead]
      BY <1>4 DEF Exit, Die, Ended
    <2>3. dead.state = "zombie" /\ dead.spawn = child[p].spawn /\ dead.kind = child[p].kind
      OBVIOUS
    <2> HIDE DEF dead
    <2>4. child' \in [Pids -> Children \cup {Null}] /\ child'[p] = dead
      BY <2>1, <2>2 DEF TypeOK
    <2>5. TypeOK'
      BY <1>2, <2>4 DEF TypeOK
    <2>6. AllForked'
      BY <2>2, <2>3, <2>4 DEF AllForked, TypeOK
    <2> QED BY <1>1, <1>2, <2>1, <2>2, <2>3, <2>4, <2>5, <2>6, NullIsNothing
  <1> QED BY <1>3, <1>4 DEF Kernel

-----------------------------------------------------------------------------
(* Looking at a child, with or without the first step of what follows.     *)
LEMMA RunningGetShaped ==
  ASSUME TypeOK, AllShaped, NEW t \in Threads, RunningGet(t)
  PROVE  TypeOK' /\ AllShaped' /\ Reaped(t) /\ process[t] # Null /\ At(t, "idle")
  <1>1. Reaped(t) /\ process[t] # Null /\ call[t].pc = "idle"
    BY DEF RunningGet, Polled, Calls, At
  <1>2. TypeOK'
    BY <1>1, ReapedFacts DEF TypeOK, RunningGet
  <1>3. Shaped(t)'
    BY <1>1 DEF AllShaped, Shaped, RunningGet, Starting, Ending
  <1> QED BY <1>1, <1>2, <1>3, ReapedFacts, OthersShaped DEF TypeOK, RunningGet, At

LEMMA WaitCallShaped ==
  ASSUME TypeOK, AllShaped, NEW t \in Threads, WaitCall(t)
  PROVE  TypeOK' /\ AllShaped'
  <1>1. call' = [call EXCEPT ![t] = Calling("wait", "wait", 0)] /\ process[t] # Null
    BY DEF WaitCall, Calls
  <1>2. Calling("wait", "wait", 0) \in CallRecords
    BY DEF Calling, CallRecords, Ending
  <1>3. TypeOK'
    BY <1>1, <1>2 DEF TypeOK, WaitCall, objects
  <1>4. Shaped(t)'
    BY <1>1 DEF Shaped, TypeOK, WaitCall, objects, Calling, Starting, Ending
  <1> QED BY <1>1, <1>3, <1>4, OthersShaped DEF TypeOK, WaitCall, objects

LEMMA TerminateCallShaped ==
  ASSUME TypeOK, AllShaped, Claimed, NEW t \in Threads, TerminateCall(t)
  PROVE  TypeOK' /\ AllShaped'
  <1>1. process[t] # Null /\ call[t].pc = "idle" /\ Polled(t) /\ UNCHANGED <<files, cloexec, channel, spawned>>
    BY DEF TerminateCall, Calls, At
  <1>2. Calling("kill", "terminate", 0) \in CallRecords
    BY DEF Calling, CallRecords, Ending
  <1>3. CASE SaysRunning(t)
    <2>1. UNCHANGED <<process, child>> /\ ~process[t].waited
      BY <1>1, <1>3, PolledFacts
    <2>2. call' = [call EXCEPT ![t] = Calling("kill", "terminate", 0)]
      BY <1>3 DEF TerminateCall
    <2>3. TypeOK'
      BY <1>1, <1>2, <2>1, <2>2 DEF TypeOK
    <2>4. Shaped(t)'
      BY <1>1, <2>1, <2>2 DEF Shaped, TypeOK, Calling, Starting, Ending
    <2> QED BY <1>1, <2>1, <2>2, <2>3, <2>4, OthersShaped DEF TypeOK
  <1>4. CASE ~SaysRunning(t)
    <2>1. UNCHANGED call
      BY <1>4 DEF TerminateCall
    <2>2. CASE UNCHANGED <<process, child>>
      BY <1>1, <2>1, <2>2 DEF TypeOK, AllShaped, Shaped
    <2>3. CASE Reaped(t)
      <3>1. TypeOK'
        BY <1>1, <2>1, <2>3, ReapedFacts DEF TypeOK
      <3>2. Shaped(t)'
        BY <1>1, <2>1 DEF AllShaped, Shaped, Starting, Ending
      <3> QED BY <1>1, <2>1, <2>3, <3>1, <3>2, ReapedFacts, OthersShaped DEF TypeOK
    <2> QED BY <1>1, <2>2, <2>3, PolledFacts
  <1> QED BY <1>3, <1>4

LEMMA DestroyCallShaped ==
  ASSUME TypeOK, AllShaped, Claimed, NEW t \in Threads, DestroyCall(t)
  PROVE  TypeOK' /\ AllShaped'
  <1> DEFINE c == Calling(IF SaysRunning(t) THEN "poll" ELSE "wait", "destroy", 0)
  <1>1. /\ process[t] # Null /\ Polled(t)
        /\ call' = [call EXCEPT ![t] = c]
        /\ UNCHANGED <<files, cloexec, channel, spawned>>
    BY DEF DestroyCall, Calls
  <1>2. c \in CallRecords /\ c.pc \in {"poll", "wait"} /\ c.pairs = << >>
    BY DEF Calling, CallRecords, Ending
  <1> HIDE DEF c
  <1>3. /\ process' \in [Threads -> Objects \cup {Null}]
        /\ child' \in [Pids -> Children \cup {Null}]
        /\ process'[t] # Null
        /\ process' = [process EXCEPT ![t] = process'[t]]
    <2>1. CASE Reaped(t)
      BY <1>1, <2>1, ReapedFacts
    <2>2. CASE UNCHANGED <<process, child>>
      BY <1>1, <2>2 DEF TypeOK
    <2> QED BY <1>1, <2>1, <2>2, PolledFacts
  <1>4. TypeOK'
    BY <1>1, <1>2, <1>3 DEF TypeOK
  <1>5. Shaped(t)'
    BY <1>1, <1>2, <1>3 DEF Shaped, TypeOK, Starting, Ending
  <1> QED BY <1>1, <1>3, <1>4, <1>5, OthersShaped DEF TypeOK

LEMMA PollAgainShaped ==
  ASSUME TypeOK, AllShaped, Claimed, NEW t \in Threads, PollAgain(t)
  PROVE  TypeOK' /\ AllShaped' /\ process[t] # Null
  <1> DEFINE pc == IF SaysRunning(t) THEN "kill" ELSE "wait"
  <1>1. /\ call[t].pc = "poll" /\ Polled(t)
        /\ call' = [call EXCEPT ![t].pc = pc]
        /\ UNCHANGED <<files, cloexec, channel, spawned>>
    BY DEF PollAgain, At, Goto
  <1>2. process[t] # Null /\ call[t].pairs = << >> /\ call[t] \in CallRecords
    BY <1>1 DEF AllShaped, Shaped, TypeOK, Starting, Ending
  <1>3. call'[t] \in CallRecords /\ call'[t].pc = pc /\ call'[t].pairs = << >>
    BY <1>1, <1>2 DEF TypeOK, CallRecords, Ending
  <1>4. /\ process' \in [Threads -> Objects \cup {Null}]
        /\ child' \in [Pids -> Children \cup {Null}]
        /\ process'[t] # Null
        /\ process' = [process EXCEPT ![t] = process'[t]]
        /\ pc = "kill" => ~process'[t].waited
    <2>1. CASE Reaped(t) /\ ~SaysRunning(t)
      BY <1>2, <2>1, ReapedFacts
    <2>2. CASE UNCHANGED <<process, child>> /\ (SaysRunning(t) <=> ~process[t].waited)
      BY <1>2, <2>2 DEF TypeOK
    <2> QED BY <1>1, <1>2, <2>1, <2>2, PolledFacts
  <1>5. pc \in {"kill", "wait"}
    OBVIOUS
  <1> HIDE DEF pc
  <1>6. TypeOK'
    BY <1>1, <1>3, <1>4 DEF TypeOK
  <1>7. Shaped(t)'
    BY <1>3, <1>4, <1>5 DEF Shaped, Starting, Ending
  <1> QED BY <1>1, <1>2, <1>4, <1>6, <1>7, OthersShaped DEF TypeOK

(* A kill leaves every child the same child.                               *)
LEMMA KillFacts ==
  ASSUME TypeOK, AllShaped, AllForked, NEW t \in Threads, Kill(t)
  PROVE  /\ TypeOK' /\ AllShaped' /\ AllForked'
         /\ \A p \in Pids :
              /\ (child'[p] = Null) <=> (child[p] = Null)
              /\ child[p] # Null =>
                   /\ child'[p].spawn = child[p].spawn /\ child'[p].kind = child[p].kind
                   /\ child[p].state \in {"dying", "zombie"} => child'[p].state \in {"dying", "zombie"}
                   /\ p = process[t].pid => child'[p].state \in {"dying", "zombie"}
  <1> DEFINE pid == process[t].pid
             dying == [child[pid] EXCEPT !.state = "dying"]
  <1>1. /\ call[t].pc = "kill" /\ call[t] \in CallRecords
        /\ process[t] # Null /\ process[t] \in Objects /\ call[t].pairs = << >>
        /\ UNCHANGED <<files, cloexec, process, channel, spawned>>
    BY DEF Kill, At, TypeOK, AllShaped, Shaped, objects, Starting, Ending
  <1>2. pid \in Pids
    BY <1>1 DEF Objects
  <1>3. \/ /\ child[pid] # Null /\ child[pid].state \in {"forked", "running"}
           /\ child' = [child EXCEPT ![pid] = dying]
        \/ ~(child[pid] # Null /\ child[pid].state \in {"forked", "running"}) /\ child' = child
    BY DEF Kill
  <1>4. child[pid] # Null =>
          /\ dying \in Children /\ dying.state = "dying"
          /\ dying.spawn = child[pid].spawn /\ dying.kind = child[pid].kind
    BY <1>2 DEF TypeOK, Children
  <1>5. ASSUME NEW p \in Pids, child[p] # Null
        PROVE  child[p].state \in {"forked", "running", "dying", "zombie"}
    BY <1>5 DEF TypeOK, Children
  <1>6. child' \in [Pids -> Children \cup {Null}]
    <2> HIDE DEF dying, pid
    <2> QED BY <1>2, <1>3, <1>4 DEF TypeOK
  <1>7. \A p \in Pids :
          /\ (child'[p] = Null) <=> (child[p] = Null)
          /\ child[p] # Null =>
               /\ child'[p].spawn = child[p].spawn /\ child'[p].kind = child[p].kind
               /\ child[p].state \in {"dying", "zombie"} => child'[p].state \in {"dying", "zombie"}
               /\ p = pid => child'[p].state \in {"dying", "zombie"}
    <2> HIDE DEF dying, pid
    <2> QED BY <1>2, <1>3, <1>4, <1>5, NullIsNothing DEF TypeOK
  <1>8. AllForked'
    <2> HIDE DEF dying, pid
    <2> QED BY <1>2, <1>3, <1>4 DEF AllForked, TypeOK
  <1>9. \/ call[t].kind = "destroy" /\ call' = [call EXCEPT ![t].pc = "wait"]
        \/ call' = [call EXCEPT ![t] = Idle]
    BY DEF Kill, Goto, Return
  <1>10. /\ call' \in [Threads -> CallRecords] /\ call'[t].pairs = << >>
         /\ call'[t].pc \in {"wait", "idle"} /\ \A u \in Threads \ {t} : call'[u] = call[u]
    <2>1. CASE call' = [call EXCEPT ![t].pc = "wait"]
      BY <1>1, <2>1 DEF TypeOK, CallRecords, Ending
    <2>2. CASE call' = [call EXCEPT ![t] = Idle]
      BY <2>2, IdleShaped DEF TypeOK
    <2> QED BY <1>9, <2>1, <2>2
  <1>11. TypeOK'
    BY <1>1, <1>6, <1>10 DEF TypeOK
  <1>12. Shaped(t)'
    BY <1>1, <1>10 DEF Shaped, Starting, Ending
  <1> QED BY <1>1, <1>7, <1>8, <1>10, <1>11, <1>12, OthersShaped

LEMMA WaitShaped ==
  ASSUME TypeOK, AllShaped, NEW t \in Threads, Wait(t)
  PROVE  /\ TypeOK' /\ AllShaped' /\ process[t] # Null
         /\ call'[t].pc \in {"close", "idle"} /\ \A u \in Threads \ {t} : call'[u] = call[u]
  <1>1. /\ call[t].pc = "wait" /\ call[t] \in CallRecords
        /\ process[t] # Null /\ call[t].pairs = << >>
        /\ UNCHANGED <<files, cloexec, channel, spawned>>
    BY DEF Wait, At, TypeOK, AllShaped, Shaped, Starting, Ending
  <1>2. /\ process' \in [Threads -> Objects \cup {Null}]
        /\ child' \in [Pids -> Children \cup {Null}]
        /\ process'[t] # Null /\ process'[t].waited
        /\ process' = [process EXCEPT ![t] = process'[t]]
    <2>1. CASE Reaped(t)
      BY <1>1, <2>1, ReapedFacts
    <2>2. CASE process[t].waited /\ UNCHANGED <<process, child>>
      BY <1>1, <2>2 DEF TypeOK
    <2> QED BY <2>1, <2>2 DEF Wait
  <1>3. \/ call[t].kind = "destroy" /\ call' = [call EXCEPT ![t].pc = "close"]
        \/ call' = [call EXCEPT ![t] = Idle]
    BY DEF Wait, Goto, Return
  <1>4. /\ call' \in [Threads -> CallRecords] /\ call'[t].pairs = << >>
        /\ call'[t].pc \in {"close", "idle"} /\ \A u \in Threads \ {t} : call'[u] = call[u]
    <2>1. CASE call' = [call EXCEPT ![t].pc = "close"]
      BY <1>1, <2>1 DEF TypeOK, CallRecords, Ending
    <2>2. CASE call' = [call EXCEPT ![t] = Idle]
      BY <2>2, IdleShaped DEF TypeOK
    <2> QED BY <1>3, <2>1, <2>2
  <1>5. TypeOK'
    BY <1>1, <1>2, <1>4 DEF TypeOK
  <1>6. Shaped(t)'
    BY <1>1, <1>2, <1>4 DEF Shaped, Starting, Ending
  <1> QED BY <1>1, <1>2, <1>4, <1>5, <1>6, OthersShaped DEF TypeOK

LEMMA DestroyCloseShaped ==
  ASSUME TypeOK, AllShaped, NEW t \in Threads, DestroyClose(t)
  PROVE  /\ TypeOK' /\ AllShaped' /\ process[t] # Null /\ process[t].waited
         /\ call' = [call EXCEPT ![t] = Idle]
  <1>1. /\ call[t].pc = "close" /\ process[t] # Null /\ process[t].waited
        /\ call' = [call EXCEPT ![t] = Idle]
        /\ process' = [process EXCEPT ![t] = Null]
        /\ UNCHANGED <<child, channel, spawned>>
    BY DEF DestroyClose, Return, At, AllShaped, Shaped, Ending
  <1>2. TypeOK'
    BY <1>1, IdleShaped, WithoutFdsTable DEF TypeOK, DestroyClose, CloseFds
  <1>3. Shaped(t)'
    BY <1>1, IdleShaped DEF Shaped, TypeOK, Starting, Ending
  <1> QED BY <1>1, <1>2, <1>3, OthersShaped DEF TypeOK

LEMMA StdinCloseShaped ==
  ASSUME TypeOK, AllShaped, NEW t \in Threads, StdinClose(t)
  PROVE  /\ TypeOK' /\ AllShaped'
         /\ process' = [process EXCEPT ![t] = process'[t]]
         /\ process[t] # Null /\ process'[t] # Null
         /\ process'[t].pid = process[t].pid /\ process'[t].spawn = process[t].spawn
         /\ process'[t].waited = process[t].waited /\ process'[t].running = process[t].running
  <1> DEFINE object == [process[t] EXCEPT !.stdin = Null]
  <1>1. /\ call[t].pc = "idle" /\ process[t] # Null /\ process[t] \in Objects
        /\ process' = [process EXCEPT ![t] = object]
        /\ UNCHANGED <<child, channel, call, spawned>>
    BY DEF StdinClose, Calls, At, TypeOK
  <1>2. /\ object \in Objects
        /\ object.pid = process[t].pid /\ object.spawn = process[t].spawn
        /\ object.waited = process[t].waited /\ object.running = process[t].running
    BY <1>1 DEF Objects
  <1> HIDE DEF object
  <1>3. process' \in [Threads -> Objects \cup {Null}] /\ process'[t] = object
    BY <1>1, <1>2 DEF TypeOK
  <1>4. TypeOK'
    BY <1>1, <1>3, WithoutFdsTable DEF TypeOK, StdinClose, CloseFds
  <1>5. Shaped(t)'
    BY <1>1 DEF AllShaped, Shaped, Starting, Ending
  <1> QED BY <1>1, <1>2, <1>3, <1>4, <1>5, OthersShaped, NullIsNothing DEF TypeOK

LEMMA ChannelDestroyShaped ==
  ASSUME TypeOK, AllShaped, NEW t \in Threads, ChannelDestroy(t)
  PROVE  TypeOK' /\ AllShaped'
  <1>1. /\ call[t].pc = "idle"
        /\ channel' = [channel EXCEPT ![t] = Null]
        /\ UNCHANGED <<child, process, call, spawned>>
    BY DEF ChannelDestroy, At
  <1>2. TypeOK'
    BY <1>1, WithoutFdsTable DEF TypeOK, ChannelDestroy, CloseFds
  <1>3. Shaped(t)'
    BY <1>1 DEF AllShaped, Shaped, Starting, Ending
  <1> QED BY <1>1, <1>2, <1>3, OthersShaped DEF TypeOK

LEMMA SpawnWaitReapShaped ==
  ASSUME TypeOK, AllShaped, NEW t \in Threads, SpawnWaitReap(t)
  PROVE  /\ TypeOK' /\ AllShaped'
         /\ call[t].pc = "reap" /\ call[t].pid \in Pids /\ call[t].kind = "spawn_wait"
         /\ call' = [call EXCEPT ![t] = Idle]
         /\ \/ child' = [child EXCEPT ![call[t].pid] = Null]
            \/ UNCHANGED child
  <1>1. /\ call[t].pc = "reap" /\ call[t].pid \in Pids /\ call[t].kind = "spawn_wait"
        /\ call' = [call EXCEPT ![t] = Idle]
        /\ \/ child' = [child EXCEPT ![call[t].pid] = Null]
           \/ UNCHANGED child
        /\ UNCHANGED <<files, cloexec, process, channel, spawned>>
    BY DEF SpawnWaitReap, Return, At, AllShaped, Shaped, objects
  <1>2. TypeOK'
    BY <1>1, IdleShaped DEF TypeOK
  <1>3. Shaped(t)'
    BY <1>1, IdleShaped DEF Shaped, TypeOK, Starting, Ending
  <1> QED BY <1>1, <1>2, <1>3, OthersShaped DEF TypeOK

-----------------------------------------------------------------------------
(* A step that moves no claim and changes no child's identity.             *)
LEMMA SteadyClaims ==
  ASSUME TypeOK, Claimed,
         \A t \in Threads : Kept(t)' = Kept(t) /\ Made(t)' = Made(t),
         \A t \in Threads : Kept(t) # Null => process'[t].spawn = process[t].spawn,
         \A t \in Threads : Made(t) # Null =>
           call'[t].spawn = call[t].spawn /\ call'[t].kind = call[t].kind,
         \A t \in Threads : process'[t] # Null => process'[t].running = ~process'[t].waited,
         \A p \in Pids : (child'[p] = Null) <=> (child[p] = Null),
         \A p \in Pids : child[p] # Null =>
           child'[p].spawn = child[p].spawn /\ child'[p].kind = child[p].kind
  PROVE  Claimed'
  <1>1. \A t \in Threads : Kept(t) # Null => Kept(t) \in Pids
    BY DEF Kept, TypeOK, Objects
  <1>2. \A t \in Threads : Made(t) # Null => Made(t) \in Pids
    BY DEF Made, TypeOK, CallRecords
  <1>3. ASSUME NEW t \in Threads, Kept(t)' # Null
        PROVE  /\ child'[Kept(t)'] # Null
               /\ child'[Kept(t)'].spawn = process'[t].spawn
               /\ child'[Kept(t)'].kind # "spawn_wait"
    <2>1. Kept(t)' = Kept(t) /\ Kept(t) # Null /\ Kept(t) \in Pids
      BY <1>1, <1>3
    <2>2. child[Kept(t)] # Null /\ child[Kept(t)].spawn = process[t].spawn
          /\ child[Kept(t)].kind # "spawn_wait"
      BY <2>1 DEF Claimed
    <2> QED BY <2>1, <2>2
  <1>4. ASSUME NEW t \in Threads, Made(t)' # Null
        PROVE  /\ child'[Made(t)'] # Null
               /\ child'[Made(t)'].spawn = call'[t].spawn
               /\ child'[Made(t)'].kind = call'[t].kind
    <2>1. Made(t)' = Made(t) /\ Made(t) # Null /\ Made(t) \in Pids
      BY <1>2, <1>4
    <2>2. child[Made(t)] # Null /\ child[Made(t)].spawn = call[t].spawn
          /\ child[Made(t)].kind = call[t].kind
      BY <2>1 DEF Claimed
    <2> QED BY <2>1, <2>2
  <1>5. ASSUME NEW t \in Threads, NEW u \in Threads
        PROVE  /\ Kept(t)' # Null /\ t # u => Kept(t)' # Kept(u)'
               /\ Made(t)' # Null /\ t # u => Made(t)' # Made(u)'
               /\ Made(t)' # Null => Made(t)' # Kept(u)'
    BY DEF Claimed
  <1>6. ASSUME NEW p \in Pids, child'[p] # Null, child'[p].kind # "spawn_wait"
        PROVE  \E t \in Threads : Kept(t)' = p \/ Made(t)' = p
    <2>1. child[p] # Null /\ child[p].kind # "spawn_wait"
      BY <1>6
    <2>2. PICK t \in Threads : Kept(t) = p \/ Made(t) = p
      BY <2>1 DEF Claimed
    <2> QED BY <2>2
  <1> QED BY <1>3, <1>4, <1>5, <1>6 DEF Claimed

(* A child's only claimant reaps it.                                       *)
LEMMA ReapedClaims ==
  ASSUME TypeOK, Claimed, NEW h \in Threads, process[h] # Null, Reaped(h), ~process[h].waited,
         \A t \in Threads : Made(t)' = Made(t) /\ (Made(t) # Null =>
           call'[t].spawn = call[t].spawn /\ call'[t].kind = call[t].kind)
  PROVE  Claimed'
  <1> DEFINE pid == process[h].pid
  <1>1. /\ process' = [process EXCEPT ![h] = process'[h]] /\ process'[h].waited
        /\ ~process'[h].running /\ process'[h] # Null /\ process' \in [Threads -> Objects \cup {Null}]
        /\ child' = [child EXCEPT ![pid] = Null]
    BY ReapedFacts
  <1>2. Kept(h) = pid /\ pid \in Pids /\ pid # Null /\ Kept(h)' = Null
    BY <1>1, NullIsNothing DEF Kept, TypeOK, Objects
  <1>3. \A t \in Threads \ {h} : Kept(t)' = Kept(t) /\ process'[t] = process[t] /\ Kept(t) # pid
    BY <1>1, <1>2 DEF Kept, TypeOK, Claimed
  <1>4. \A t \in Threads : Made(t) # Null => Made(t) # pid
    BY <1>2 DEF Claimed
  <1>5. \A p \in Pids : child'[p] = IF p = pid THEN Null ELSE child[p]
    BY <1>1 DEF TypeOK
  <1>6. \A t \in Threads : (Kept(t) # Null => Kept(t) \in Pids) /\ (Made(t) # Null => Made(t) \in Pids)
    BY DEF Kept, Made, TypeOK, Objects, CallRecords
  <1> HIDE DEF pid
  <1>7. ASSUME NEW t \in Threads, Kept(t)' # Null
        PROVE  /\ child'[Kept(t)'] # Null
               /\ child'[Kept(t)'].spawn = process'[t].spawn
               /\ child'[Kept(t)'].kind # "spawn_wait"
    <2>1. Kept(t)' = Kept(t) /\ Kept(t) # Null /\ Kept(t) \in Pids /\ Kept(t) # pid /\ process'[t] = process[t]
      BY <1>2, <1>3, <1>6, <1>7
    <2>2. child[Kept(t)] # Null /\ child[Kept(t)].spawn = process[t].spawn
          /\ child[Kept(t)].kind # "spawn_wait"
      BY <2>1 DEF Claimed
    <2> QED BY <1>5, <2>1, <2>2
  <1>8. ASSUME NEW t \in Threads, Made(t)' # Null
        PROVE  /\ child'[Made(t)'] # Null
               /\ child'[Made(t)'].spawn = call'[t].spawn
               /\ child'[Made(t)'].kind = call'[t].kind
    <2>1. Made(t)' = Made(t) /\ Made(t) # Null /\ Made(t) \in Pids /\ Made(t) # pid
      BY <1>4, <1>6, <1>8
    <2>2. child[Made(t)] # Null /\ child[Made(t)].spawn = call[t].spawn
          /\ child[Made(t)].kind = call[t].kind
      BY <2>1 DEF Claimed
    <2> QED BY <1>5, <2>1, <2>2
  <1>9. ASSUME NEW t \in Threads, NEW u \in Threads
        PROVE  /\ Kept(t)' # Null /\ t # u => Kept(t)' # Kept(u)'
               /\ Made(t)' # Null /\ t # u => Made(t)' # Made(u)'
               /\ Made(t)' # Null => Made(t)' # Kept(u)'
    BY <1>2, <1>3 DEF Claimed
  <1>10. ASSUME NEW p \in Pids, child'[p] # Null, child'[p].kind # "spawn_wait"
         PROVE  \E t \in Threads : Kept(t)' = p \/ Made(t)' = p
    <2>1. p # pid /\ child[p] # Null /\ child[p].kind # "spawn_wait"
      BY <1>5, <1>10
    <2>2. PICK t \in Threads : Kept(t) = p \/ Made(t) = p
      BY <2>1 DEF Claimed
    <2> QED BY <1>2, <1>3, <2>1, <2>2
  <1>11. \A t \in Threads : process'[t] # Null => process'[t].running = ~process'[t].waited
    <2>1. process'[h].running = ~process'[h].waited
      BY <1>1, NullIsNothing DEF Objects
    <2> QED BY <1>3, <2>1 DEF Claimed
  <1> QED BY <1>7, <1>8, <1>9, <1>10, <1>11 DEF Claimed

(* The new child's id was free, so nobody claims it yet.                   *)
LEMMA ForkClaims ==
  ASSUME TypeOK, AllShaped, Claimed, NEW t \in Threads, Fork(t)
  PROVE  Claimed'
  <1>1. PICK pid \in Pids :
          /\ child[pid] = Null
          /\ child'[pid] # Null
          /\ child'[pid].spawn = call[t].spawn /\ child'[pid].kind = call[t].kind
          /\ child' = [child EXCEPT ![pid] = child'[pid]]
          /\ call' = [call EXCEPT ![t] = call'[t]]
          /\ call'[t].pid = pid /\ call'[t].spawn = call[t].spawn /\ call'[t].kind = call[t].kind
          /\ call'[t].pc = IF call[t].kind = "spawn_wait" THEN "reap" ELSE "publish"
    BY ForkShaped
  <1>2. UNCHANGED process /\ call[t].pc = "fork"
    BY DEF Fork, objects
  <1>3. /\ \A u \in Threads : Kept(u)' = Kept(u)
        /\ \A u \in Threads \ {t} : Made(u)' = Made(u) /\ call'[u] = call[u]
        /\ Made(t) = Null /\ Made(t)' = pid
    BY <1>1, <1>2 DEF Kept, Made, At, TypeOK
  <1>4. \A u \in Threads : (Kept(u) # Null => Kept(u) \in Pids) /\ (Made(u) # Null => Made(u) \in Pids)
    BY DEF Kept, Made, TypeOK, Objects, CallRecords
  <1>5. \A u \in Threads : Kept(u) # pid /\ Made(u) # pid
    BY <1>1, NullIsNothing DEF Claimed
  <1>6. \A p \in Pids \ {pid} : child'[p] = child[p]
    BY <1>1 DEF TypeOK
  <1>7. ASSUME NEW u \in Threads, Kept(u)' # Null
        PROVE  /\ child'[Kept(u)'] # Null
               /\ child'[Kept(u)'].spawn = process'[u].spawn
               /\ child'[Kept(u)'].kind # "spawn_wait"
    <2>1. Kept(u)' = Kept(u) /\ Kept(u) # Null /\ Kept(u) \in Pids /\ Kept(u) # pid
      BY <1>3, <1>4, <1>5, <1>7
    <2>2. child[Kept(u)] # Null /\ child[Kept(u)].spawn = process[u].spawn
          /\ child[Kept(u)].kind # "spawn_wait"
      BY <2>1 DEF Claimed
    <2> QED BY <1>2, <1>6, <2>1, <2>2
  <1>8. ASSUME NEW u \in Threads, Made(u)' # Null
        PROVE  /\ child'[Made(u)'] # Null
               /\ child'[Made(u)'].spawn = call'[u].spawn
               /\ child'[Made(u)'].kind = call'[u].kind
    <2>1. CASE u = t
      BY <1>1, <1>3, <2>1
    <2>2. CASE u # t
      <3>1. Made(u)' = Made(u) /\ Made(u) # Null /\ Made(u) \in Pids /\ Made(u) # pid /\ call'[u] = call[u]
        BY <1>3, <1>4, <1>5, <1>8, <2>2
      <3>2. child[Made(u)] # Null /\ child[Made(u)].spawn = call[u].spawn
            /\ child[Made(u)].kind = call[u].kind
        BY <3>1 DEF Claimed
      <3> QED BY <1>6, <3>1, <3>2
    <2> QED BY <2>1, <2>2
  <1>9. ASSUME NEW u \in Threads, NEW v \in Threads
        PROVE  /\ Kept(u)' # Null /\ u # v => Kept(u)' # Kept(v)'
               /\ Made(u)' # Null /\ u # v => Made(u)' # Made(v)'
               /\ Made(u)' # Null => Made(u)' # Kept(v)'
    BY <1>3, <1>5 DEF Claimed
  <1>10. ASSUME NEW p \in Pids, child'[p] # Null, child'[p].kind # "spawn_wait"
         PROVE  \E u \in Threads : Kept(u)' = p \/ Made(u)' = p
    <2>1. CASE p = pid
      BY <1>3, <2>1
    <2>2. CASE p # pid
      <3>1. PICK u \in Threads : Kept(u) = p \/ Made(u) = p
        BY <1>6, <1>10, <2>2 DEF Claimed
      <3>2. u # t \/ Kept(u) = p
        BY <1>3, <3>1, NullIsNothing
      <3> QED BY <1>3, <3>1, <3>2
    <2> QED BY <2>1, <2>2
  <1>11. \A u \in Threads : process'[u] # Null => process'[u].running = ~process'[u].waited
    BY <1>2 DEF Claimed
  <1> QED BY <1>7, <1>8, <1>9, <1>10, <1>11 DEF Claimed

(* The claim passes from the call to the object.                           *)
LEMMA PublishClaims ==
  ASSUME TypeOK, AllShaped, Claimed, NEW t \in Threads, Publish(t)
  PROVE  Claimed'
  <1> DEFINE pid == call[t].pid
  <1>1. /\ call[t].pc = "publish" /\ process[t] = Null /\ pid \in Pids
        /\ call[t].kind # "spawn_wait" /\ UNCHANGED child
    BY DEF Publish, At, AllShaped, Shaped, Starting
  <1>2. /\ process' = [process EXCEPT ![t] = process'[t]]
        /\ process'[t] # Null
        /\ process'[t].pid = pid /\ process'[t].spawn = call[t].spawn
        /\ process'[t].running /\ ~process'[t].waited
        /\ call' = [call EXCEPT ![t] = Idle] /\ TypeOK'
    BY PublishShaped
  <1>3. /\ \A u \in Threads \ {t} : Kept(u)' = Kept(u) /\ Made(u)' = Made(u)
                                   /\ process'[u] = process[u] /\ call'[u] = call[u]
        /\ Made(t) = pid /\ Made(t)' = Null /\ Kept(t) = Null /\ Kept(t)' = pid /\ pid # Null
    BY <1>1, <1>2, IdleShaped, NullIsNothing DEF Kept, Made, At, TypeOK
  <1>4. child[pid] # Null /\ child[pid].spawn = call[t].spawn /\ child[pid].kind # "spawn_wait"
    BY <1>1, <1>3 DEF Claimed
  <1> HIDE DEF pid
  <1>5. ASSUME NEW u \in Threads, Kept(u)' # Null
        PROVE  /\ child'[Kept(u)'] # Null
               /\ child'[Kept(u)'].spawn = process'[u].spawn
               /\ child'[Kept(u)'].kind # "spawn_wait"
    <2>1. CASE u = t
      BY <1>1, <1>2, <1>3, <1>4, <2>1
    <2>2. CASE u # t
      BY <1>1, <1>3, <1>5, <2>2 DEF Claimed
    <2> QED BY <2>1, <2>2
  <1>6. ASSUME NEW u \in Threads, Made(u)' # Null
        PROVE  /\ child'[Made(u)'] # Null
               /\ child'[Made(u)'].spawn = call'[u].spawn
               /\ child'[Made(u)'].kind = call'[u].kind
    BY <1>1, <1>3, <1>6 DEF Claimed
  <1>7. ASSUME NEW u \in Threads, NEW v \in Threads
        PROVE  /\ Kept(u)' # Null /\ u # v => Kept(u)' # Kept(v)'
               /\ Made(u)' # Null /\ u # v => Made(u)' # Made(v)'
               /\ Made(u)' # Null => Made(u)' # Kept(v)'
    BY <1>3 DEF Claimed
  <1>8. ASSUME NEW p \in Pids, child'[p] # Null, child'[p].kind # "spawn_wait"
        PROVE  \E u \in Threads : Kept(u)' = p \/ Made(u)' = p
    <2>1. PICK u \in Threads : Kept(u) = p \/ Made(u) = p
      BY <1>1, <1>8 DEF Claimed
    <2> QED BY <1>3, <2>1, NullIsNothing
  <1>9. \A u \in Threads : process'[u] # Null => process'[u].running = ~process'[u].waited
    <2>1. process'[t] \in Objects
      BY <1>2 DEF TypeOK
    <2>2. process'[t].running = ~process'[t].waited
      BY <1>2, <2>1 DEF Objects
    <2> QED BY <1>3, <2>2 DEF Claimed
  <1> QED BY <1>5, <1>6, <1>7, <1>8, <1>9 DEF Claimed

(* spawn_wait reaps its child, or forgets it.                              *)
LEMMA SpawnWaitReapClaims ==
  ASSUME TypeOK, AllShaped, Claimed, NEW t \in Threads, SpawnWaitReap(t)
  PROVE  Claimed'
  <1> DEFINE pid == call[t].pid
  <1>1. /\ call[t].pc = "reap" /\ pid \in Pids /\ call[t].kind = "spawn_wait"
        /\ call' = [call EXCEPT ![t] = Idle] /\ UNCHANGED process
        /\ \/ child' = [child EXCEPT ![pid] = Null]
           \/ UNCHANGED child
    BY SpawnWaitReapShaped DEF SpawnWaitReap, objects
  <1>2. /\ \A u \in Threads : Kept(u)' = Kept(u)
        /\ \A u \in Threads \ {t} : Made(u)' = Made(u) /\ call'[u] = call[u]
        /\ Made(t) = pid /\ Made(t)' = Null /\ pid # Null
    BY <1>1, IdleShaped, NullIsNothing DEF Kept, Made, At, TypeOK
  <1>3. child[pid] # Null /\ child[pid].kind = "spawn_wait"
    BY <1>1, <1>2 DEF Claimed
  <1>4. /\ \A u \in Threads : Kept(u) # pid
        /\ \A u \in Threads \ {t} : Made(u) # pid
    BY <1>2 DEF Claimed
  <1>5. \A u \in Threads : (Kept(u) # Null => Kept(u) \in Pids) /\ (Made(u) # Null => Made(u) \in Pids)
    BY DEF Kept, Made, TypeOK, Objects, CallRecords
  <1>6. \A p \in Pids \ {pid} : child'[p] = child[p]
    BY <1>1 DEF TypeOK
  <1>7. child'[pid] = Null \/ child'[pid] = child[pid]
    BY <1>1 DEF TypeOK
  <1> HIDE DEF pid
  <1>8. ASSUME NEW u \in Threads, Kept(u)' # Null
        PROVE  /\ child'[Kept(u)'] # Null
               /\ child'[Kept(u)'].spawn = process'[u].spawn
               /\ child'[Kept(u)'].kind # "spawn_wait"
    <2>1. Kept(u)' = Kept(u) /\ Kept(u) # Null /\ Kept(u) \in Pids /\ Kept(u) # pid
      BY <1>2, <1>4, <1>5, <1>8
    <2>2. child[Kept(u)] # Null /\ child[Kept(u)].spawn = process[u].spawn
          /\ child[Kept(u)].kind # "spawn_wait"
      BY <2>1 DEF Claimed
    <2> QED BY <1>1, <1>6, <2>1, <2>2
  <1>9. ASSUME NEW u \in Threads, Made(u)' # Null
        PROVE  /\ child'[Made(u)'] # Null
               /\ child'[Made(u)'].spawn = call'[u].spawn
               /\ child'[Made(u)'].kind = call'[u].kind
    <2>1. Made(u)' = Made(u) /\ Made(u) # Null /\ Made(u) \in Pids /\ Made(u) # pid /\ call'[u] = call[u]
      BY <1>2, <1>4, <1>5, <1>9
    <2>2. child[Made(u)] # Null /\ child[Made(u)].spawn = call[u].spawn
          /\ child[Made(u)].kind = call[u].kind
      BY <2>1 DEF Claimed
    <2> QED BY <1>6, <2>1, <2>2
  <1>10. ASSUME NEW u \in Threads, NEW v \in Threads
         PROVE  /\ Kept(u)' # Null /\ u # v => Kept(u)' # Kept(v)'
                /\ Made(u)' # Null /\ u # v => Made(u)' # Made(v)'
                /\ Made(u)' # Null => Made(u)' # Kept(v)'
    BY <1>2 DEF Claimed
  <1>11. ASSUME NEW p \in Pids, child'[p] # Null, child'[p].kind # "spawn_wait"
         PROVE  \E u \in Threads : Kept(u)' = p \/ Made(u)' = p
    <2>1. p # pid /\ child'[p] = child[p]
      BY <1>3, <1>6, <1>7, <1>11
    <2>2. PICK u \in Threads : Kept(u) = p \/ Made(u) = p
      BY <1>11, <2>1 DEF Claimed
    <2> QED BY <1>2, <2>1, <2>2
  <1>12. \A u \in Threads : process'[u] # Null => process'[u].running = ~process'[u].waited
    BY <1>1 DEF Claimed
  <1> QED BY <1>8, <1>9, <1>10, <1>11, <1>12 DEF Claimed

-----------------------------------------------------------------------------
LEMMA SettledStays ==
  ASSUME TypeOK, AllShaped, NEW u \in Threads, Settled(u),
         process'[u] = process[u], call'[u] = call[u],
         Kept(u) # Null /\ child[Kept(u)].state \in {"dying", "zombie"} =>
           child'[Kept(u)].state \in {"dying", "zombie"}
  PROVE  Settled(u)'
  <1>1. SUFFICES ASSUME call[u].pc = "wait", call[u].kind = "destroy", ~process[u].waited
                 PROVE  child'[process[u].pid].state \in {"dying", "zombie"}
    BY DEF Settled, At
  <1>2. process[u] # Null /\ process[u] \in Objects
    BY <1>1 DEF AllShaped, Shaped, Ending, TypeOK
  <1>3. Kept(u) = process[u].pid /\ Kept(u) # Null
    BY <1>1, <1>2, NullIsNothing DEF Kept, Objects
  <1> QED BY <1>1, <1>3 DEF Settled, At

(* A step of one thread that touches no child another one claims.          *)
LEMMA OthersSettled ==
  ASSUME TypeOK, AllShaped, NoHang, NEW t \in Threads,
         \A u \in Threads \ {t} : process'[u] = process[u] /\ call'[u] = call[u],
         \A u \in Threads \ {t} : Kept(u) # Null /\ child[Kept(u)].state \in {"dying", "zombie"} =>
           child'[Kept(u)].state \in {"dying", "zombie"},
         Settled(t)'
  PROVE  NoHang'
  <1>1. \A u \in Threads : Settled(u)
    BY DEF NoHang, Settled
  <1>2. \A u \in Threads : Settled(u)'
    BY <1>1, SettledStays
  <1> QED BY <1>2 DEF NoHang, Settled

(* No child that another thread claims disappears when one is reaped.      *)
LEMMA ReapedSettled ==
  ASSUME TypeOK, Claimed, NEW t \in Threads, process[t] # Null, Reaped(t), ~process[t].waited
  PROVE  \A u \in Threads \ {t} :
           process'[u] = process[u] /\ (Kept(u) # Null => child'[Kept(u)] = child[Kept(u)])
  <1>1. Kept(t) = process[t].pid /\ Kept(t) # Null
    BY NullIsNothing DEF Kept, TypeOK, Objects
  <1>2. \A u \in Threads \ {t} : Kept(u) # Null => Kept(u) # process[t].pid /\ Kept(u) \in Pids
    BY <1>1 DEF Claimed, Kept, TypeOK, Objects
  <1> QED BY <1>2, ReapedFacts DEF TypeOK

-----------------------------------------------------------------------------
LEMMA InitInv ==
  ASSUME Init
  PROVE  IInv
  <1>1. TypeOK
    <2>1. files \in Tables
      BY FdsAssumption DEF Init, Tables, Ends, Inherited, Standard, Fds
    <2> QED BY <2>1, IdleShaped DEF Init, TypeOK
  <1>2. \A t \in Threads : call[t].pc = "idle" /\ call[t].pairs = << >> /\ process[t] = Null
    BY IdleShaped DEF Init
  <1>3. AllShaped /\ NoHang
    BY <1>2 DEF AllShaped, Shaped, NoHang, At, Starting, Ending
  <1>4. AllForked
    BY DEF Init, AllForked
  <1>5. \A t \in Threads : Kept(t) = Null /\ Made(t) = Null
    BY <1>2 DEF Kept, Made, At
  <1>6. Claimed
    BY <1>2, <1>5 DEF Init, Claimed
  <1> QED BY <1>1, <1>3, <1>4, <1>6 DEF IInv

(* Steps of a thread's call that leave all children alone.                 *)
LEMMA QuietStep ==
  ASSUME IInv, NEW t \in Threads, TypeOK', AllShaped', UNCHANGED <<child, process>>,
         \A u \in Threads \ {t} : call'[u] = call[u],
         call[t].pc \notin {"publish", "reap"}, call'[t].pc \notin {"publish", "reap"},
         call'[t].pc # "wait" \/ call'[t].kind # "destroy"
  PROVE  IInv'
  <1>1. \A u \in Threads : Kept(u)' = Kept(u) /\ Made(u)' = Made(u)
    BY DEF Kept, Made, At
  <1>2. \A u \in Threads : Made(u) # Null => call'[u] = call[u]
    BY DEF Made, At
  <1>3. Claimed'
    BY <1>1, <1>2, SteadyClaims DEF IInv, Claimed
  <1>4. NoHang'
    BY OthersSettled DEF IInv, Settled, At
  <1>5. AllForked'
    BY DEF IInv, AllForked
  <1> QED BY <1>3, <1>4, <1>5 DEF IInv

LEMMA StartInv ==
  ASSUME IInv, NEW t \in Threads,
         \/ \E kind \in Kinds : Spawn(t, kind)
         \/ Socketpair(t) \/ Mark(t) \/ Fails(t) \/ WaitCall(t)
  PROVE  IInv'
  <1>1. CASE \E kind \in Kinds : Spawn(t, kind)
    <2>1. PICK kind \in Kinds : Spawn(t, kind)
      BY <1>1
    <2>2. TypeOK' /\ AllShaped'
      BY <2>1, SpawnShaped DEF IInv
    <2> QED BY <2>1, <2>2, QuietStep DEF IInv, TypeOK, Spawn, At, objects, Calling
  <1>2. CASE Socketpair(t)
    <2>1. TypeOK' /\ AllShaped'
      BY <1>2, SocketpairShaped DEF IInv
    <2>2. call[t].pc = "pair" /\ UNCHANGED <<child, process>> /\ \A u \in Threads \ {t} : call'[u] = call[u]
      BY <1>2 DEF Socketpair, objects, IInv, TypeOK
    <2>3. call'[t].pc \in {"pair", "mark", "fork"}
      BY <1>2 DEF Socketpair, IInv, TypeOK, AfterPairs
    <2> QED BY <2>1, <2>2, <2>3, QuietStep
  <1>3. CASE Mark(t)
    <2>1. TypeOK' /\ AllShaped'
      BY <1>3, MarkShaped DEF IInv
    <2>2. /\ call[t].pc = "mark" /\ UNCHANGED <<child, process>>
          /\ call' = [call EXCEPT ![t].pc = "fork"] /\ call[t] \in CallRecords
      BY <1>3 DEF Mark, Goto, objects, IInv, TypeOK
    <2>3. call'[t].pc = "fork"
      BY <2>2 DEF IInv, TypeOK, CallRecords
    <2> QED BY <2>1, <2>2, <2>3, QuietStep DEF IInv, TypeOK
  <1>4. CASE Fails(t)
    <2>1. TypeOK' /\ AllShaped'
      BY <1>4, FailsShaped DEF IInv
    <2>2. /\ call[t].pc \in {"pair", "mark", "fork"} /\ UNCHANGED <<child, process>>
          /\ call' = [call EXCEPT ![t] = Idle]
      BY <1>4 DEF Fails, Abandon, Return, objects
    <2> QED BY <2>1, <2>2, IdleShaped, QuietStep DEF IInv, TypeOK
  <1>5. CASE WaitCall(t)
    <2>1. TypeOK' /\ AllShaped'
      BY <1>5, WaitCallShaped DEF IInv
    <2>2. /\ call[t].pc = "idle" /\ UNCHANGED <<child, process>>
          /\ call' = [call EXCEPT ![t] = Calling("wait", "wait", 0)]
      BY <1>5 DEF WaitCall, Calls, At, objects
    <2>3. call'[t].pc = "wait" /\ call'[t].kind = "wait"
      BY <2>2 DEF IInv, TypeOK, Calling
    <2> QED BY <2>1, <2>2, <2>3, QuietStep DEF IInv, TypeOK
  <1> QED BY <1>1, <1>2, <1>3, <1>4, <1>5

LEMMA ForkInv ==
  ASSUME IInv, NEW t \in Threads, Fork(t)
  PROVE  IInv'
  <1>1. TypeOK' /\ AllShaped' /\ Claimed'
    BY ForkShaped, ForkClaims DEF IInv
  <1>2. PICK pid \in Pids :
          /\ child[pid] = Null
          /\ Len(child'[pid].pairs) = Len(Streams(child'[pid].kind))
          /\ child' = [child EXCEPT ![pid] = child'[pid]]
          /\ call' = [call EXCEPT ![t] = call'[t]]
          /\ call'[t].pc = IF call[t].kind = "spawn_wait" THEN "reap" ELSE "publish"
    BY ForkShaped DEF IInv
  <1>3. \A p \in Pids \ {pid} : child'[p] = child[p]
    BY <1>2 DEF IInv, TypeOK
  <1>4. AllForked'
    BY <1>2, <1>3 DEF IInv, AllForked
  <1>5. \A u \in Threads : Kept(u) # Null => child'[Kept(u)] = child[Kept(u)]
    <2>1. \A u \in Threads : Kept(u) # Null => Kept(u) # pid /\ Kept(u) \in Pids
      BY <1>2 DEF IInv, Claimed, Kept, TypeOK, Objects
    <2> QED BY <1>3, <2>1
  <1>6. UNCHANGED process /\ \A u \in Threads \ {t} : call'[u] = call[u]
    BY <1>2 DEF Fork, objects, IInv, TypeOK
  <1>7. Settled(t)'
    BY <1>2 DEF Settled, At
  <1>8. NoHang'
    BY <1>5, <1>6, <1>7, OthersSettled DEF IInv
  <1> QED BY <1>1, <1>4, <1>8 DEF IInv

LEMMA PublishInv ==
  ASSUME IInv, NEW t \in Threads, Publish(t)
  PROVE  IInv'
  <1>1. /\ TypeOK' /\ AllShaped' /\ Claimed'
        /\ process' = [process EXCEPT ![t] = process'[t]]
        /\ call' = [call EXCEPT ![t] = Idle] /\ UNCHANGED child
    BY PublishShaped, PublishClaims DEF IInv, Publish
  <1>2. Settled(t)'
    BY <1>1, IdleShaped DEF Settled, At, IInv, TypeOK
  <1>3. \A u \in Threads \ {t} : process'[u] = process[u] /\ call'[u] = call[u]
    BY <1>1 DEF IInv, TypeOK
  <1>4. NoHang'
    BY <1>1, <1>2, <1>3, OthersSettled DEF IInv
  <1> QED BY <1>1, <1>4 DEF IInv, AllForked

LEMMA SpawnWaitReapInv ==
  ASSUME IInv, NEW t \in Threads, SpawnWaitReap(t)
  PROVE  IInv'
  <1>1. /\ TypeOK' /\ AllShaped' /\ Claimed'
        /\ call[t].pc = "reap" /\ call[t].pid \in Pids
        /\ call' = [call EXCEPT ![t] = Idle] /\ UNCHANGED process
        /\ \/ child' = [child EXCEPT ![call[t].pid] = Null]
           \/ UNCHANGED child
    BY SpawnWaitReapShaped, SpawnWaitReapClaims DEF IInv, SpawnWaitReap, objects
  <1>2. \A u \in Threads : Kept(u) # Null => Kept(u) # call[t].pid /\ Kept(u) \in Pids
    BY <1>1, NullIsNothing DEF IInv, Claimed, Made, At, Kept, TypeOK, Objects
  <1>3. \A u \in Threads : Kept(u) # Null => child'[Kept(u)] = child[Kept(u)]
    BY <1>1, <1>2 DEF IInv, TypeOK
  <1>4. Settled(t)'
    BY <1>1, IdleShaped DEF Settled, At, IInv, TypeOK
  <1>5. \A u \in Threads \ {t} : process'[u] = process[u] /\ call'[u] = call[u]
    BY <1>1 DEF IInv, TypeOK
  <1>6. NoHang'
    BY <1>3, <1>4, <1>5, OthersSettled DEF IInv
  <1>7. AllForked'
    BY <1>1 DEF IInv, AllForked, TypeOK
  <1> QED BY <1>1, <1>6, <1>7 DEF IInv

LEMMA KernelInv ==
  ASSUME IInv, NEW p \in Pids, Kernel(p)
  PROVE  IInv'
  <1>1. /\ TypeOK' /\ AllForked'
        /\ child[p] # Null /\ child'[p] # Null
        /\ child' = [child EXCEPT ![p] = child'[p]]
        /\ child'[p].spawn = child[p].spawn /\ child'[p].kind = child[p].kind
        /\ child[p].state \in {"dying", "zombie"} => child'[p].state \in {"dying", "zombie"}
        /\ UNCHANGED <<process, channel, call>>
    BY KernelFacts DEF IInv
  <1>2. \A q \in Pids \ {p} : child'[q] = child[q]
    BY <1>1 DEF IInv, TypeOK
  <1>3. AllShaped'
    BY <1>1 DEF IInv, AllShaped, Shaped
  <1>4. \A u \in Threads : Kept(u)' = Kept(u) /\ Made(u)' = Made(u)
    BY <1>1 DEF Kept, Made, At
  <1>5. Claimed'
    BY <1>1, <1>2, <1>4, SteadyClaims DEF IInv, Claimed
  <1>6. ASSUME NEW u \in Threads PROVE Settled(u)'
    <2>1. Kept(u) # Null => Kept(u) \in Pids
      BY DEF IInv, Kept, TypeOK, Objects
    <2>2. Kept(u) # Null /\ child[Kept(u)].state \in {"dying", "zombie"} =>
            child'[Kept(u)].state \in {"dying", "zombie"}
      BY <1>1, <1>2, <2>1
    <2>3. Settled(u)
      BY DEF IInv, NoHang, Settled
    <2> QED BY <1>1, <2>2, <2>3, SettledStays DEF IInv
  <1>7. NoHang'
    BY <1>6 DEF NoHang, Settled
  <1> QED BY <1>1, <1>3, <1>5, <1>7 DEF IInv

(* A step that reaps the child of its thread's object, or leaves it alone. *)
LEMMA LookStep ==
  ASSUME IInv, NEW t \in Threads, TypeOK', AllShaped', process[t] # Null,
         \/ Reaped(t) /\ ~process[t].waited
         \/ UNCHANGED <<process, child>>,
         \A u \in Threads \ {t} : call'[u] = call[u],
         call[t].pc \notin {"publish", "reap"}, call'[t].pc \notin {"publish", "reap"},
         Settled(t)'
  PROVE  IInv'
  <1>1. \A u \in Threads : Made(u)' = Made(u) /\ (Made(u) # Null => call'[u] = call[u])
    BY DEF Made, At
  <1>2. CASE Reaped(t) /\ ~process[t].waited
    <2>1. Claimed'
      BY <1>1, <1>2, ReapedClaims DEF IInv
    <2>2. NoHang'
      BY <1>2, ReapedSettled, OthersSettled DEF IInv
    <2>3. AllForked'
      <3>1. child' = [child EXCEPT ![process[t].pid] = Null]
        BY <1>2 DEF Reaped
      <3> QED BY <3>1 DEF IInv, AllForked, TypeOK
    <2> QED BY <2>1, <2>2, <2>3 DEF IInv
  <1>3. CASE UNCHANGED <<process, child>>
    <2>1. \A u \in Threads : Kept(u)' = Kept(u)
      BY <1>3 DEF Kept
    <2>2. Claimed'
      BY <1>1, <1>3, <2>1, SteadyClaims DEF IInv, Claimed
    <2>3. NoHang'
      BY <1>3, OthersSettled DEF IInv
    <2> QED BY <1>3, <2>2, <2>3 DEF IInv, AllForked
  <1> QED BY <1>2, <1>3

LEMMA LookInv ==
  ASSUME IInv, NEW t \in Threads,
         RunningGet(t) \/ TerminateCall(t) \/ DestroyCall(t) \/ PollAgain(t) \/ Wait(t)
  PROVE  IInv'
  <1>1. CASE RunningGet(t)
    <2>1. /\ TypeOK' /\ AllShaped' /\ Reaped(t) /\ process[t] # Null /\ call[t].pc = "idle"
          /\ UNCHANGED call
      BY <1>1, RunningGetShaped DEF IInv, RunningGet, At
    <2>2. ~process[t].waited
      BY <1>1, <2>1 DEF RunningGet, Exited, IInv, Claimed, TypeOK, Objects
    <2> QED BY <2>1, <2>2, LookStep DEF Settled, At
  <1>2. CASE TerminateCall(t)
    <2>1. /\ TypeOK' /\ AllShaped' /\ process[t] # Null /\ call[t].pc = "idle" /\ Polled(t)
          /\ \/ call' = [call EXCEPT ![t] = Calling("kill", "terminate", 0)]
             \/ UNCHANGED call
      BY <1>2, TerminateCallShaped DEF IInv, TerminateCall, Calls, At
    <2>2. call'[t].pc \in {"kill", "idle"} /\ \A u \in Threads \ {t} : call'[u] = call[u]
      BY <2>1 DEF IInv, TypeOK, Calling
    <2>3. \/ Reaped(t) /\ ~process[t].waited
          \/ UNCHANGED <<process, child>>
      BY <2>1, PolledFacts DEF IInv
    <2> QED BY <2>1, <2>2, <2>3, LookStep DEF Settled, At
  <1>3. CASE DestroyCall(t)
    <2>1. /\ TypeOK' /\ AllShaped' /\ process[t] # Null /\ call[t].pc = "idle" /\ Polled(t)
          /\ call' = [call EXCEPT ![t] = Calling(IF SaysRunning(t) THEN "poll" ELSE "wait", "destroy", 0)]
      BY <1>3, DestroyCallShaped DEF IInv, DestroyCall, Calls, At
    <2>2. /\ call'[t].pc = (IF SaysRunning(t) THEN "poll" ELSE "wait")
          /\ \A u \in Threads \ {t} : call'[u] = call[u]
      BY <2>1 DEF IInv, TypeOK, Calling
    <2>3. \/ Reaped(t) /\ ~process[t].waited
          \/ UNCHANGED <<process, child>> /\ (SaysRunning(t) <=> ~process[t].waited)
      BY <2>1, PolledFacts DEF IInv
    <2>4. Settled(t)'
      BY <2>1, <2>2, <2>3, ReapedFacts DEF Settled, At, IInv
    <2> QED BY <2>1, <2>2, <2>3, <2>4, LookStep
  <1>4. CASE PollAgain(t)
    <2>1. /\ TypeOK' /\ AllShaped' /\ process[t] # Null /\ call[t].pc = "poll" /\ Polled(t)
          /\ call' = [call EXCEPT ![t].pc = IF SaysRunning(t) THEN "kill" ELSE "wait"]
      BY <1>4, PollAgainShaped DEF IInv, PollAgain, At, Goto
    <2>2. /\ call'[t].pc = (IF SaysRunning(t) THEN "kill" ELSE "wait")
          /\ \A u \in Threads \ {t} : call'[u] = call[u]
      BY <2>1 DEF IInv, TypeOK, CallRecords
    <2>3. \/ Reaped(t) /\ ~process[t].waited
          \/ UNCHANGED <<process, child>> /\ (SaysRunning(t) <=> ~process[t].waited)
      BY <2>1, PolledFacts DEF IInv
    <2>4. Settled(t)'
      BY <2>1, <2>2, <2>3, ReapedFacts DEF Settled, At, IInv
    <2> QED BY <2>1, <2>2, <2>3, <2>4, LookStep
  <1>5. CASE Wait(t)
    <2>1. /\ TypeOK' /\ AllShaped' /\ process[t] # Null /\ call[t].pc = "wait"
          /\ call'[t].pc \in {"close", "idle"} /\ \A u \in Threads \ {t} : call'[u] = call[u]
      BY <1>5, WaitShaped DEF IInv, Wait, At
    <2>2. \/ Reaped(t) /\ ~process[t].waited
          \/ UNCHANGED <<process, child>>
      BY <1>5 DEF Wait
    <2> QED BY <2>1, <2>2, LookStep DEF Settled, At
  <1> QED BY <1>1, <1>2, <1>3, <1>4, <1>5

LEMMA KillInv ==
  ASSUME IInv, NEW t \in Threads, Kill(t)
  PROVE  IInv'
  <1>1. /\ TypeOK' /\ AllShaped' /\ AllForked'
        /\ \A p \in Pids :
              /\ (child'[p] = Null) <=> (child[p] = Null)
              /\ child[p] # Null =>
                   /\ child'[p].spawn = child[p].spawn /\ child'[p].kind = child[p].kind
                   /\ child[p].state \in {"dying", "zombie"} => child'[p].state \in {"dying", "zombie"}
                   /\ p = process[t].pid => child'[p].state \in {"dying", "zombie"}
    BY KillFacts DEF IInv
  <1>2. /\ call[t].pc = "kill" /\ process[t] # Null /\ ~process[t].waited /\ UNCHANGED process
        /\ \/ call' = [call EXCEPT ![t].pc = "wait"]
           \/ call' = [call EXCEPT ![t] = Idle]
    BY DEF Kill, Goto, Return, objects, At, IInv, AllShaped, Shaped, Ending
  <1>3. call'[t].pc \in {"wait", "idle"} /\ \A u \in Threads \ {t} : call'[u] = call[u]
    BY <1>2, IdleShaped DEF IInv, TypeOK, CallRecords
  <1>4. \A u \in Threads : Kept(u) # Null => Kept(u) \in Pids /\ child[Kept(u)] # Null
    BY DEF IInv, Claimed, Kept, TypeOK, Objects
  <1>5. \A u \in Threads : Kept(u)' = Kept(u)
    BY <1>2 DEF Kept
  <1>6. \A u \in Threads : Made(u)' = Made(u) /\ (Made(u) # Null => call'[u] = call[u])
    BY <1>2, <1>3 DEF Made, At
  <1>7. Claimed'
    BY <1>1, <1>2, <1>5, <1>6, SteadyClaims DEF IInv, Claimed
  <1>8. Kept(t) = process[t].pid /\ Kept(t) # Null
    BY <1>2, NullIsNothing DEF Kept, IInv, TypeOK, Objects
  <1>9. child'[process[t].pid].state \in {"dying", "zombie"}
    BY <1>1, <1>4, <1>8
  <1>10. NoHang'
    BY <1>1, <1>2, <1>3, <1>4, <1>9, OthersSettled DEF IInv, Settled, At
  <1> QED BY <1>1, <1>7, <1>10 DEF IInv

LEMMA GiveUpInv ==
  ASSUME IInv, NEW t \in Threads, DestroyClose(t) \/ StdinClose(t) \/ ChannelDestroy(t)
  PROVE  IInv'
  <1>1. CASE DestroyClose(t)
    <2>1. /\ TypeOK' /\ AllShaped' /\ process[t] # Null /\ process[t].waited
          /\ call' = [call EXCEPT ![t] = Idle] /\ call[t].pc = "close"
          /\ process' = [process EXCEPT ![t] = Null] /\ UNCHANGED child
      BY <1>1, DestroyCloseShaped DEF IInv, DestroyClose, At
    <2>2. call'[t].pc = "idle" /\ process'[t] = Null
          /\ \A u \in Threads \ {t} : call'[u] = call[u] /\ process'[u] = process[u]
      BY <2>1, IdleShaped DEF IInv, TypeOK
    <2>3. \A u \in Threads : Kept(u)' = Kept(u)
      BY <2>1, <2>2 DEF Kept
    <2>4. \A u \in Threads : Made(u)' = Made(u) /\ (Made(u) # Null => call'[u] = call[u])
      BY <2>1, <2>2 DEF Made, At
    <2>5. \A u \in Threads : Kept(u) # Null => process'[u] = process[u]
      BY <2>1, <2>2 DEF Kept
    <2>6. \A u \in Threads : process'[u] # Null => process'[u].running = ~process'[u].waited
      BY <2>2 DEF IInv, Claimed
    <2>7. Claimed'
      BY <2>1, <2>3, <2>4, <2>5, <2>6, SteadyClaims DEF IInv
    <2>8. NoHang'
      BY <2>1, <2>2, OthersSettled DEF IInv, Settled, At
    <2> QED BY <2>1, <2>7, <2>8 DEF IInv, AllForked
  <1>2. CASE StdinClose(t)
    <2>1. /\ TypeOK' /\ AllShaped'
          /\ process' = [process EXCEPT ![t] = process'[t]]
          /\ process[t] # Null /\ process'[t] # Null
          /\ process'[t].pid = process[t].pid /\ process'[t].spawn = process[t].spawn
          /\ process'[t].waited = process[t].waited /\ process'[t].running = process[t].running
          /\ UNCHANGED <<child, call>> /\ call[t].pc = "idle"
      BY <1>2, StdinCloseShaped DEF IInv, StdinClose, Calls, At
    <2>2. \A u \in Threads \ {t} : process'[u] = process[u]
      BY <2>1 DEF IInv, TypeOK
    <2>3. \A u \in Threads : Kept(u)' = Kept(u)
      BY <2>1, <2>2 DEF Kept
    <2>4. \A u \in Threads : Made(u)' = Made(u)
      BY <2>1 DEF Made, At
    <2>5. \A u \in Threads : process'[u] # Null => process'[u].running = ~process'[u].waited
      BY <2>1, <2>2 DEF IInv, Claimed
    <2>6. Claimed'
      BY <2>1, <2>2, <2>3, <2>4, <2>5, SteadyClaims DEF IInv
    <2>7. NoHang'
      BY <2>1, <2>2, OthersSettled DEF IInv, Settled, At
    <2> QED BY <2>1, <2>6, <2>7 DEF IInv, AllForked
  <1>3. CASE ChannelDestroy(t)
    <2>1. TypeOK' /\ AllShaped' /\ UNCHANGED <<child, process, call>> /\ call[t].pc = "idle"
      BY <1>3, ChannelDestroyShaped DEF IInv, ChannelDestroy, At
    <2> QED BY <2>1, QuietStep
  <1> QED BY <1>1, <1>2, <1>3

LEMMA NextInv ==
  ASSUME IInv, [Next]_vars
  PROVE  IInv'
  <1>1. CASE UNCHANGED vars
    <2>1. UNCHANGED <<files, cloexec, child, process, channel, call, spawned>>
      BY <1>1 DEF vars, objects
    <2>2. TypeOK' /\ AllShaped' /\ AllForked' /\ NoHang'
      BY <2>1 DEF IInv, TypeOK, AllShaped, Shaped, AllForked, NoHang, At
    <2>3. \A u \in Threads : Kept(u)' = Kept(u) /\ Made(u)' = Made(u)
      BY <2>1 DEF Kept, Made, At
    <2>4. Claimed'
      BY <2>1, <2>3 DEF IInv, Claimed
    <2> QED BY <2>2, <2>4 DEF IInv
  <1>2. CASE \E t \in Threads : Step(t)
    BY <1>2, StartInv, ForkInv, PublishInv, LookInv, KillInv, GiveUpInv, SpawnWaitReapInv DEF Step
  <1>3. CASE \E t \in Threads : CallOf(t)
    BY <1>3, StartInv, LookInv, GiveUpInv DEF CallOf
  <1>4. CASE \E p \in Pids : Kernel(p)
    BY <1>4, KernelInv
  <1> QED BY <1>1, <1>2, <1>3, <1>4 DEF Next

THEOREM Invariance == Spec => []IInv
  <1>1. Init => IInv
    BY InitInv
  <1>2. IInv /\ [Next]_vars => IInv'
    BY NextInv
  <1> QED BY <1>1, <1>2, PTL DEF Spec

(* An object names its own child until the child is reaped, only it reaps  *)
(* it, and no child of an object is left behind, however calls, exits and  *)
(* reused process ids interleave.                                          *)
THEOREM EveryChildReaped == Spec => []Reaping
  <1>1. IInv => Reaping
    <2>1. ASSUME IInv, NEW h \in Threads, process[h] # Null, ~process[h].waited
          PROVE  child[process[h].pid] # Null /\ child[process[h].pid].spawn = process[h].spawn
      <3>1. Kept(h) = process[h].pid /\ Kept(h) # Null
        BY <2>1, NullIsNothing DEF Kept, IInv, TypeOK, Objects
      <3> QED BY <2>1, <3>1 DEF IInv, Claimed
    <2>2. ASSUME IInv, NEW p \in Pids, child[p] # Null, child[p].kind # "spawn_wait"
          PROVE  \/ \E h \in Threads : process[h] # Null /\ process[h].pid = p /\ ~process[h].waited
                 \/ \E t \in Threads : At(t, "publish") /\ call[t].pid = p
      <3>1. PICK t \in Threads : Kept(t) = p \/ Made(t) = p
        BY <2>2 DEF IInv, Claimed
      <3>2. p # Null
        BY NullIsNothing
      <3>3. CASE Kept(t) = p
        BY <3>2, <3>3 DEF Kept
      <3>4. CASE Made(t) = p
        <4>1. child[p].kind = call[t].kind /\ call[t].pid = p /\ (At(t, "publish") \/ At(t, "reap"))
          BY <2>2, <3>2, <3>4 DEF Made, IInv, Claimed
        <4> QED BY <2>2, <4>1 DEF IInv, AllShaped, Shaped, At
      <3> QED BY <3>1, <3>3, <3>4
    <2>3. ASSUME IInv
          PROVE  /\ \A t \in Threads : At(t, "kill") => ~process[t].waited
                 /\ \A h \in Threads : process[h] # Null => process[h].running = ~process[h].waited
      BY <2>3 DEF IInv, AllShaped, Shaped, At, Claimed
    <2> QED BY <2>1, <2>2, <2>3 DEF Reaping
  <1> QED BY <1>1, Invariance, PTL

(* destroy never blocks on a child that may run on.                        *)
THEOREM DestroyReturns == Spec => []NoHang
  <1>1. IInv => NoHang
    BY DEF IInv
  <1> QED BY <1>1, Invariance, PTL

-----------------------------------------------------------------------------
(* Descriptors.  A thread's descriptors are those its objects hold and     *)
(* those its spawn has opened.                                             *)
Mine(t) == Holds(t) \cup OpenedEnds(t)

(* The near ends an object holds are its own and no two the same.          *)
HeldEnds(t) ==
  /\ \A fd \in Holds(t) : files[fd] # Null /\ files[fd][3] = 0
  /\ process[t] # Null =>
       LET p == process[t] IN
       /\ \A fd \in Streamed(t) : files[fd][1] = p.spawn
       /\ p.stdin # Null => p.stdin \notin {p.stdout, p.stderr}
       /\ channel[t] # Null => channel[t] \notin Streamed(t)

(* Each pair a spawn has opened is the pair of its stream.                 *)
SpawnEnds(t) ==
  LET c == call[t] IN
  \A i \in DOMAIN c.pairs :
    /\ files[c.pairs[i][1]] = End(c.spawn, Streams(c.kind)[i], 0)
    /\ files[c.pairs[i][2]] = End(c.spawn, Streams(c.kind)[i], 1)

Descriptors ==
  /\ \A fd \in Fds : files[fd] \notin {Null, Inherited} => \E t \in Threads : fd \in Mine(t)
  /\ \A t, u \in Threads : t # u => Mine(t) \cap Mine(u) = {}
  /\ \A t \in Threads : HeldEnds(t) /\ SpawnEnds(t)

LEMMA OpenedEndsAre ==
  ASSUME NEW pairs \in Seq(Fds \X Fds)
  PROVE  /\ UNION {Range(pairs[i]) : i \in DOMAIN pairs} =
              {pairs[i][1] : i \in DOMAIN pairs} \cup {pairs[i][2] : i \in DOMAIN pairs}
         /\ \A i \in DOMAIN pairs : pairs[i][1] \in Fds /\ pairs[i][2] \in Fds
  <1>1. \A i \in DOMAIN pairs : pairs[i] \in Fds \X Fds
    OBVIOUS
  <1>2. \A p \in Fds \X Fds : Range(p) = {p[1], p[2]} /\ p[1] \in Fds /\ p[2] \in Fds
    BY DEF Range
  <1> HIDE DEF Fds
  <1> QED BY <1>1, <1>2

LEMMA MineAreFds ==
  ASSUME TypeOK, NEW t \in Threads
  PROVE  Mine(t) \subseteq Fds /\ Holds(t) \subseteq Fds
  <1>1. OpenedEnds(t) \subseteq Fds
    <2>1. call[t].pairs \in Seq(Fds \X Fds)
      BY DEF TypeOK, CallRecords
    <2> DEFINE pairs == call[t].pairs
    <2>2. OpenedEnds(t) = {pairs[i][1] : i \in DOMAIN pairs} \cup {pairs[i][2] : i \in DOMAIN pairs}
      BY <2>1, OpenedEndsAre DEF OpenedEnds
    <2>3. \A i \in DOMAIN pairs : pairs[i][1] \in Fds /\ pairs[i][2] \in Fds
      BY <2>1, OpenedEndsAre
    <2> QED BY <2>2, <2>3
  <1>2. Holds(t) \subseteq Fds
    BY DEF Holds, Streamed, TypeOK, Objects
  <1> QED BY <1>1, <1>2 DEF Mine

(* A spawn that has opened pairs has no object yet.                        *)
LEMMA NotYetHeld ==
  ASSUME TypeOK, AllShaped, NEW t \in Threads, call[t].pairs # << >>
  PROVE  process[t] = Null /\ channel[t] = Null /\ Holds(t) = {}
  <1>1. call[t].pc \in Starting /\ call[t].kind \in Kinds /\ call[t].pairs \in Seq(Fds \X Fds)
    BY DEF AllShaped, Shaped, TypeOK, CallRecords
  <1>2. Len(call[t].pairs) # 0
    BY <1>1
  <1>3. call[t].kind # "spawn_wait"
    BY <1>1, <1>2, StreamsLength DEF AllShaped, Shaped, Starting
  <1> QED BY <1>1, <1>3 DEF AllShaped, Shaped, Holds

(* The pairs of a spawn stand for the first of its streams.                *)
LEMMA PairsAreStreams ==
  ASSUME TypeOK, AllShaped, NEW t \in Threads, NEW i \in DOMAIN call[t].pairs
  PROVE  LET c == call[t] IN
         /\ c.kind \in Kinds /\ i \in 1 .. Len(c.pairs) /\ i \in 1 .. Len(Streams(c.kind))
         /\ c.pairs[i][1] \in Fds /\ c.pairs[i][2] \in Fds
         /\ c.pairs[i][1] \in OpenedEnds(t) /\ c.pairs[i][2] \in OpenedEnds(t)
         /\ Streams(c.kind)[i] \in {"stdin", "stdout", "stderr", "channel"}
         /\ \A side \in {0, 1} : End(c.spawn, Streams(c.kind)[i], side) \in Ends
  <1> DEFINE c == call[t]
  <1>1. c.pairs \in Seq(Fds \X Fds) /\ c.spawn \in Nat
    BY DEF TypeOK, CallRecords
  <1>2. c.pc \in Starting /\ c.kind \in Kinds
    BY DEF AllShaped, Shaped
  <1>3. Len(c.pairs) <= Len(Streams(c.kind)) /\ Len(Streams(c.kind)) \in Nat /\ Len(c.pairs) \in Nat
    BY <1>1, <1>2, StreamsLength DEF AllShaped, Shaped
  <1>4. i \in 1 .. Len(c.pairs) /\ i \in 1 .. Len(Streams(c.kind))
    BY <1>1, <1>3
  <1>5. Streams(c.kind)[i] \in {"stdin", "stdout", "stderr", "channel"}
    <2>1. Streams(c.kind) \in Seq({"stdin", "stdout", "stderr", "channel"})
      BY <1>2, StreamsLength
    <2> HIDE DEF c
    <2> QED BY <1>4, <2>1
  <1>6. \A side \in {0, 1} : End(c.spawn, Streams(c.kind)[i], side) \in Ends
    BY <1>1, <1>5 DEF End, Ends
  <1>7. c.pairs[i][1] \in Fds /\ c.pairs[i][2] \in Fds
    BY <1>1, OpenedEndsAre
  <1>8. c.pairs[i][1] \in OpenedEnds(t) /\ c.pairs[i][2] \in OpenedEnds(t)
    BY <1>1, OpenedEndsAre DEF OpenedEnds
  <1> QED BY <1>2, <1>4, <1>5, <1>6, <1>7, <1>8

LEMMA OpenedBy ==
  ASSUME TypeOK, NEW t \in Threads, NEW fd \in OpenedEnds(t)
  PROVE  \E i \in DOMAIN call[t].pairs : fd = call[t].pairs[i][1] \/ fd = call[t].pairs[i][2]
  <1>1. call[t].pairs \in Seq(Fds \X Fds)
    BY DEF TypeOK, CallRecords
  <1> QED BY <1>1, OpenedEndsAre DEF OpenedEnds

(* A free number belongs to nobody.                                        *)
LEMMA MineAreOpen ==
  ASSUME TypeOK, AllShaped, Descriptors, NEW t \in Threads, NEW fd \in Mine(t)
  PROVE  files[fd] # Null
  <1>1. CASE fd \in Holds(t)
    BY <1>1 DEF Descriptors, HeldEnds
  <1>2. CASE fd \in OpenedEnds(t)
    <2>1. PICK i \in DOMAIN call[t].pairs : fd = call[t].pairs[i][1] \/ fd = call[t].pairs[i][2]
      BY <1>2, OpenedBy
    <2>2. files[fd] = End(call[t].spawn, Streams(call[t].kind)[i], 0) \/
          files[fd] = End(call[t].spawn, Streams(call[t].kind)[i], 1)
      BY <2>1 DEF Descriptors, SpawnEnds
    <2> QED BY <2>1, <2>2, PairsAreStreams, NullIsNothing
  <1> QED BY <1>1, <1>2 DEF Mine

-----------------------------------------------------------------------------
(* A step that opens and closes nothing.                                   *)
LEMMA SameDescriptors ==
  ASSUME TypeOK, Descriptors, UNCHANGED <<files, channel>>,
         \A t \in Threads :
           /\ (process'[t] = Null) <=> (process[t] = Null)
           /\ process[t] # Null =>
                /\ process'[t].spawn = process[t].spawn /\ process'[t].stdin = process[t].stdin
                /\ process'[t].stdout = process[t].stdout /\ process'[t].stderr = process[t].stderr
           /\ call'[t].pairs = call[t].pairs
           /\ call[t].pairs # << >> => call'[t].spawn = call[t].spawn /\ call'[t].kind = call[t].kind
  PROVE  Descriptors' /\ \A t \in Threads : Mine(t)' = Mine(t)
  <1>1. ASSUME NEW t \in Threads
        PROVE  /\ OpenedEnds(t)' = OpenedEnds(t) /\ Holds(t)' = Holds(t)
               /\ process[t] # Null => Streamed(t)' = Streamed(t)
    BY DEF OpenedEnds, Holds, Streamed
  <1>2. ASSUME NEW t \in Threads
        PROVE  Mine(t)' = Mine(t)
    BY <1>1 DEF Mine
  <1>3. ASSUME NEW t \in Threads
        PROVE  HeldEnds(t)'
    <2>1. HeldEnds(t)
      BY DEF Descriptors
    <2> QED BY <1>1, <2>1 DEF HeldEnds
  <1>4. ASSUME NEW t \in Threads
        PROVE  SpawnEnds(t)'
    <2>1. SpawnEnds(t)
      BY DEF Descriptors
    <2>2. CASE call[t].pairs = << >>
      BY <2>2 DEF SpawnEnds
    <2>3. CASE call[t].pairs # << >>
      BY <2>1, <2>3 DEF SpawnEnds
    <2> QED BY <2>2, <2>3
  <1> QED BY <1>2, <1>3, <1>4 DEF Descriptors

(* A thread closes some of its descriptors and keeps the others.           *)
Closes(t, fds) ==
  /\ fds \subseteq Mine(t) /\ files' = WithoutFds(files, fds) /\ cloexec' = cloexec \ fds
  /\ UNCHANGED <<child, spawned>>
  /\ call'[t].pc = "idle" /\ \A u \in Threads \ {t} : call'[u] = call[u]
  /\ call[t].pc \in {"pair", "mark"} => OpenedEnds(t) \subseteq fds
  /\ \A u \in Threads : Mine(u)' \subseteq Mine(u)

LEMMA ClosedDescriptors ==
  ASSUME TypeOK, AllShaped, Descriptors, NEW t \in Threads, NEW fds, fds \subseteq Mine(t),
         files' = WithoutFds(files, fds),
         \A u \in Threads \ {t} :
           process'[u] = process[u] /\ channel'[u] = channel[u] /\ call'[u] = call[u],
         Mine(t)' = Mine(t) \ fds, HeldEnds(t)', SpawnEnds(t)'
  PROVE  Descriptors' /\ \A u \in Threads : Mine(u)' \subseteq Mine(u)
  <1>1. \A fd \in Fds : files'[fd] = IF fd \in fds THEN Null ELSE files[fd]
    BY DEF WithoutFds
  <1>2. ASSUME NEW u \in Threads \ {t}
        PROVE  OpenedEnds(u)' = OpenedEnds(u) /\ Holds(u)' = Holds(u) /\ Streamed(u)' = Streamed(u)
    BY DEF OpenedEnds, Holds, Streamed
  <1>3. ASSUME NEW u \in Threads \ {t}
        PROVE  Mine(u)' = Mine(u)
    BY <1>2 DEF Mine
  <1>4. ASSUME NEW u \in Threads \ {t}, NEW fd \in Mine(u)
        PROVE  files'[fd] = files[fd]
    <2>1. fd \notin fds /\ fd \in Fds
      BY MineAreFds DEF Descriptors
    <2> QED BY <1>1, <2>1
  <1>5. ASSUME NEW u \in Threads \ {t}
        PROVE  HeldEnds(u)' /\ SpawnEnds(u)'
    <2>1. HeldEnds(u) /\ SpawnEnds(u)
      BY DEF Descriptors
    <2>2. HeldEnds(u)'
      <3>1. \A fd \in Holds(u) : files'[fd] = files[fd]
        BY <1>4 DEF Mine
      <3>2. process[u] # Null => Streamed(u) \subseteq Holds(u)
        BY DEF Holds
      <3> QED BY <1>2, <2>1, <3>1, <3>2 DEF HeldEnds
    <2>3. SpawnEnds(u)'
      <3>1. ASSUME NEW i \in DOMAIN call[u].pairs
            PROVE  /\ files'[call[u].pairs[i][1]] = files[call[u].pairs[i][1]]
                   /\ files'[call[u].pairs[i][2]] = files[call[u].pairs[i][2]]
        BY <1>4, PairsAreStreams DEF Mine
      <3> QED BY <2>1, <3>1 DEF SpawnEnds
    <2> QED BY <2>2, <2>3
  <1>6. ASSUME NEW fd \in Fds, files'[fd] \notin {Null, Inherited}
        PROVE  \E u \in Threads : fd \in Mine(u)'
    <2>1. fd \notin fds /\ files[fd] \notin {Null, Inherited}
      BY <1>1, <1>6
    <2>2. PICK u \in Threads : fd \in Mine(u)
      BY <2>1 DEF Descriptors
    <2> QED BY <1>3, <2>1, <2>2
  <1>7. \A u, v \in Threads : u # v => Mine(u)' \cap Mine(v)' = {}
    BY <1>3 DEF Descriptors
  <1>8. \A u \in Threads : HeldEnds(u)' /\ SpawnEnds(u)'
    BY <1>5
  <1> QED BY <1>3, <1>6, <1>7, <1>8 DEF Descriptors

-----------------------------------------------------------------------------
LEMMA InitDescriptors ==
  ASSUME Init
  PROVE  Descriptors
  <1>1. \A t \in Threads : call[t].pairs = << >> /\ process[t] = Null /\ channel[t] = Null
    BY IdleShaped DEF Init
  <1>2. \A t \in Threads : Holds(t) = {} /\ OpenedEnds(t) = {}
    BY <1>1 DEF Holds, OpenedEnds
  <1>3. \A t \in Threads : HeldEnds(t) /\ SpawnEnds(t)
    BY <1>1, <1>2 DEF HeldEnds, SpawnEnds
  <1>4. \A fd \in Fds : files[fd] \in {Null, Inherited}
    BY DEF Init
  <1> QED BY <1>2, <1>3, <1>4 DEF Descriptors, Mine

(* Two free numbers become the pair of the next stream.                    *)
LEMMA SocketpairDescriptors ==
  ASSUME TypeOK, AllShaped, Descriptors, NEW t \in Threads, Socketpair(t)
  PROVE  /\ Descriptors'
         /\ \A u \in Threads \ {t} : Mine(u)' = Mine(u) /\ call'[u] = call[u]
         /\ \E near, far \in Fds : LET stream == Streams(call[t].kind)[Len(call[t].pairs) + 1] IN
              /\ near <= far /\ near # far /\ files[near] = Null /\ files[far] = Null
              /\ files' = [fd \in Fds |-> IF fd = near THEN End(call[t].spawn, stream, 0)
                                         ELSE IF fd = far THEN End(call[t].spawn, stream, 1)
                                         ELSE files[fd]]
              /\ OpenedEnds(t)' = OpenedEnds(t) \cup {near, far}
              /\ Mine(t)' = Mine(t) \cup {near, far}
  <1> DEFINE c == call[t]
             stream == Streams(c.kind)[Len(c.pairs) + 1]
             E0 == End(c.spawn, stream, 0)
             E1 == End(c.spawn, stream, 1)
  <1>1. PICK near, far \in Fds :
          /\ near <= far /\ near # far /\ files[near] = Null /\ files[far] = Null
          /\ files' = [fd \in Fds |-> IF fd = near THEN E0 ELSE IF fd = far THEN E1 ELSE files[fd]]
          /\ E0 \in Ends /\ E1 \in Ends
          /\ call' = [call EXCEPT ![t] = call'[t]]
          /\ call'[t].pairs = Append(c.pairs, <<near, far>>)
          /\ call'[t].spawn = c.spawn /\ call'[t].kind = c.kind
    BY SocketpairShaped
  <1>2. /\ process[t] = Null /\ channel[t] = Null /\ UNCHANGED <<process, channel>>
        /\ TypeOK' /\ \A u \in Threads \ {t} : call'[u] = call[u]
    BY <1>1, SocketpairShaped DEF Socketpair, objects, TypeOK
  <1>3. c.pairs \in Seq(Fds \X Fds) /\ call'[t].pairs \in Seq(Fds \X Fds)
    BY <1>2 DEF TypeOK, CallRecords
  <1> HIDE DEF E0, E1
  <1>4. \A u \in Threads : near \notin Mine(u) /\ far \notin Mine(u)
    BY <1>1, MineAreOpen
  <1>5. \A u \in Threads : \A fd \in Mine(u) : files'[fd] = files[fd] /\ fd \in Fds
    BY <1>1, <1>4, MineAreFds
  <1>6. ASSUME NEW u \in Threads
        PROVE  Holds(u)' = Holds(u) /\ Streamed(u)' = Streamed(u)
    BY <1>2 DEF Holds, Streamed
  <1>7. ASSUME NEW u \in Threads \ {t}
        PROVE  OpenedEnds(u)' = OpenedEnds(u)
    BY <1>2 DEF OpenedEnds
  <1>8. /\ DOMAIN call'[t].pairs = DOMAIN c.pairs \cup {Len(c.pairs) + 1}
        /\ \A i \in DOMAIN c.pairs : call'[t].pairs[i] = c.pairs[i]
        /\ call'[t].pairs[Len(c.pairs) + 1] = <<near, far>>
    <2> HIDE DEF c
    <2> QED BY <1>1, <1>3
  <1>9. OpenedEnds(t)' = OpenedEnds(t) \cup {near, far}
    <2>1. OpenedEnds(t)' = {call'[t].pairs[i][1] : i \in DOMAIN call'[t].pairs}
                             \cup {call'[t].pairs[i][2] : i \in DOMAIN call'[t].pairs}
      BY <1>3, OpenedEndsAre DEF OpenedEnds
    <2>2. OpenedEnds(t) = {c.pairs[i][1] : i \in DOMAIN c.pairs} \cup {c.pairs[i][2] : i \in DOMAIN c.pairs}
      BY <1>3, OpenedEndsAre DEF OpenedEnds
    <2> HIDE DEF c
    <2> QED BY <1>8, <2>1, <2>2
  <1>10. Mine(t)' = Mine(t) \cup {near, far} /\ \A u \in Threads \ {t} : Mine(u)' = Mine(u)
    BY <1>6, <1>7, <1>9 DEF Mine
  <1>11. ASSUME NEW u \in Threads
         PROVE  HeldEnds(u)'
    <2>1. HeldEnds(u)
      BY DEF Descriptors
    <2>2. \A fd \in Holds(u) : files'[fd] = files[fd]
      BY <1>5 DEF Mine
    <2>3. process[u] # Null => Streamed(u) \subseteq Holds(u)
      BY DEF Holds
    <2> QED BY <1>2, <1>6, <2>1, <2>2, <2>3 DEF HeldEnds
  <1>12. ASSUME NEW u \in Threads, NEW i \in DOMAIN call[u].pairs
         PROVE  /\ files'[call[u].pairs[i][1]] = End(call[u].spawn, Streams(call[u].kind)[i], 0)
                /\ files'[call[u].pairs[i][2]] = End(call[u].spawn, Streams(call[u].kind)[i], 1)
    <2>1. call[u].pairs[i][1] \in Mine(u) /\ call[u].pairs[i][2] \in Mine(u)
      BY PairsAreStreams DEF Mine
    <2> QED BY <1>5, <2>1 DEF Descriptors, SpawnEnds
  <1>13. ASSUME NEW u \in Threads \ {t}
         PROVE  SpawnEnds(u)'
    BY <1>2, <1>12 DEF SpawnEnds
  <1>14. SpawnEnds(t)'
    <2>1. ASSUME NEW i \in DOMAIN call'[t].pairs
          PROVE  /\ files'[call'[t].pairs[i][1]] = End(c.spawn, Streams(c.kind)[i], 0)
                 /\ files'[call'[t].pairs[i][2]] = End(c.spawn, Streams(c.kind)[i], 1)
      <3>1. CASE i \in DOMAIN c.pairs
        BY <1>8, <1>12, <3>1
      <3>2. CASE i = Len(c.pairs) + 1
        BY <1>1, <1>8, <3>2 DEF E0, E1
      <3> QED BY <1>8, <2>1, <3>1, <3>2
    <2> QED BY <1>1, <2>1 DEF SpawnEnds
  <1>15. ASSUME NEW fd \in Fds, files'[fd] \notin {Null, Inherited}
         PROVE  \E u \in Threads : fd \in Mine(u)'
    <2>1. CASE fd \in {near, far}
      BY <1>10, <2>1
    <2>2. CASE fd \notin {near, far}
      <3>1. files[fd] \notin {Null, Inherited}
        BY <1>1, <1>15, <2>2
      <3>2. PICK u \in Threads : fd \in Mine(u)
        BY <3>1 DEF Descriptors
      <3> QED BY <1>10, <3>2
    <2> QED BY <2>1, <2>2
  <1>16. \A u, v \in Threads : u # v => Mine(u)' \cap Mine(v)' = {}
    BY <1>4, <1>10 DEF Descriptors
  <1>17. \A u \in Threads : HeldEnds(u)' /\ SpawnEnds(u)'
    BY <1>11, <1>13, <1>14
  <1>18. Descriptors'
    BY <1>15, <1>16, <1>17 DEF Descriptors
  <1> QED BY <1>1, <1>2, <1>9, <1>10, <1>18 DEF E0, E1

LEMMA FailsDescriptors ==
  ASSUME TypeOK, AllShaped, Descriptors, NEW t \in Threads, Fails(t)
  PROVE  Descriptors' /\ \E fds : Closes(t, fds)
  <1>1. /\ files' = WithoutFds(files, OpenedEnds(t)) /\ call' = [call EXCEPT ![t] = Idle]
        /\ UNCHANGED <<process, channel>>
    BY DEF Fails, Abandon, CloseFds, Return, objects
  <1>2. call'[t].pairs = << >> /\ \A u \in Threads \ {t} : call'[u] = call[u]
    BY <1>1, IdleShaped DEF TypeOK
  <1>3. OpenedEnds(t)' = {} /\ Holds(t)' = Holds(t)
    BY <1>1, <1>2 DEF OpenedEnds, Holds, Streamed
  <1>4. ASSUME call[t].pairs = << >>
        PROVE  Descriptors' /\ \A u \in Threads : Mine(u)' \subseteq Mine(u)
    <2>1. OpenedEnds(t) = {}
      BY <1>4 DEF OpenedEnds
    <2>2. files' = files
      BY <1>1, <2>1 DEF WithoutFds, TypeOK, Tables
    <2>3. Descriptors' /\ \A u \in Threads : Mine(u)' = Mine(u)
      BY <1>1, <1>2, <1>4, <2>2, SameDescriptors
    <2> QED BY <2>1, <2>3
  <1>5. ASSUME call[t].pairs # << >>
        PROVE  Descriptors' /\ \A u \in Threads : Mine(u)' \subseteq Mine(u)
    <2>1. process[t] = Null /\ Holds(t) = {}
      BY <1>5, NotYetHeld
    <2>2. Mine(t)' = Mine(t) \ OpenedEnds(t) /\ OpenedEnds(t) \subseteq Mine(t)
      BY <1>3, <2>1 DEF Mine
    <2>3. HeldEnds(t)' /\ SpawnEnds(t)'
      BY <1>1, <1>2, <1>3, <2>1 DEF HeldEnds, SpawnEnds
    <2> QED BY <1>1, <1>2, <2>2, <2>3, ClosedDescriptors
  <1>6. /\ call'[t].pc = "idle" /\ UNCHANGED <<child, spawned>>
        /\ cloexec' = cloexec \ OpenedEnds(t) /\ OpenedEnds(t) \subseteq Mine(t)
    BY <1>1, IdleShaped DEF TypeOK, Fails, Abandon, CloseFds, Mine
  <1>7. Descriptors' /\ \A u \in Threads : Mine(u)' \subseteq Mine(u)
    BY <1>4, <1>5
  <1>8. Closes(t, OpenedEnds(t))
    BY <1>1, <1>2, <1>6, <1>7 DEF Closes
  <1> QED BY <1>7, <1>8

LEMMA StdinCloseDescriptors ==
  ASSUME TypeOK, AllShaped, Descriptors, NEW t \in Threads, StdinClose(t)
  PROVE  Descriptors' /\ \E fds : Closes(t, fds)
  <1> DEFINE fd == process[t].stdin
             object == [process[t] EXCEPT !.stdin = Null]
  <1>1. process[t] \in Objects /\ process[t] # Null /\ fd # Null /\ call[t].pairs = << >>
    BY DEF StdinClose, Calls, At, TypeOK, AllShaped, Shaped, Starting
  <1>2. files' = WithoutFds(files, {fd}) /\ UNCHANGED <<channel, call>>
    BY DEF StdinClose, CloseFds
  <1>3. /\ object \in Objects /\ object.stdin = Null /\ object.stdout = process[t].stdout
        /\ object.stderr = process[t].stderr /\ object.spawn = process[t].spawn
    BY <1>1 DEF Objects
  <1>4. process' = [process EXCEPT ![t] = object]
    BY DEF StdinClose
  <1> HIDE DEF object
  <1>5. process'[t] = object /\ object # Null /\ \A u \in Threads \ {t} : process'[u] = process[u]
    BY <1>3, <1>4, NullIsNothing DEF TypeOK
  <1>6. HeldEnds(t) /\ fd \notin {process[t].stdout, process[t].stderr}
        /\ (channel[t] # Null => channel[t] \notin Streamed(t))
    BY <1>1 DEF Descriptors, HeldEnds
  <1>7. Streamed(t)' = Streamed(t) \ {fd} /\ fd \in Streamed(t)
    BY <1>1, <1>3, <1>5, <1>6 DEF Streamed
  <1>8. Holds(t)' = Holds(t) \ {fd} /\ fd \in Holds(t)
    BY <1>1, <1>2, <1>5, <1>6, <1>7 DEF Holds
  <1>9. OpenedEnds(t)' = {} /\ OpenedEnds(t) = {}
    BY <1>1, <1>2 DEF OpenedEnds
  <1>10. Mine(t)' = Mine(t) \ {fd} /\ {fd} \subseteq Mine(t)
    BY <1>8, <1>9 DEF Mine
  <1>11. \A g \in Holds(t)' : files'[g] = files[g]
    BY <1>2, <1>8, MineAreFds DEF WithoutFds
  <1>12. HeldEnds(t)'
    <2>1. \A g \in Streamed(t)' : g \in Holds(t)'
      BY <1>5 DEF Holds
    <2> QED BY <1>1, <1>2, <1>3, <1>5, <1>6, <1>7, <1>8, <1>11, <2>1 DEF HeldEnds
  <1>13. SpawnEnds(t)'
    BY <1>1, <1>2 DEF SpawnEnds
  <1>14. Descriptors' /\ \A u \in Threads : Mine(u)' \subseteq Mine(u)
    BY <1>2, <1>5, <1>10, <1>12, <1>13, ClosedDescriptors
  <1>15. Closes(t, {fd})
    BY <1>2, <1>10, <1>14 DEF Closes, StdinClose, CloseFds, Calls, At
  <1> QED BY <1>14, <1>15

LEMMA ChannelDestroyDescriptors ==
  ASSUME TypeOK, AllShaped, Descriptors, NEW t \in Threads, ChannelDestroy(t)
  PROVE  Descriptors' /\ \E fds : Closes(t, fds)
  <1> DEFINE fd == channel[t]
  <1>1. fd # Null /\ call[t].pairs = << >>
    BY DEF ChannelDestroy, At, AllShaped, Shaped, Starting
  <1>2. files' = WithoutFds(files, {fd}) /\ UNCHANGED <<process, call>>
        /\ channel' = [channel EXCEPT ![t] = Null]
    BY DEF ChannelDestroy, CloseFds
  <1>3. channel'[t] = Null /\ \A u \in Threads \ {t} : channel'[u] = channel[u]
    BY <1>2 DEF TypeOK
  <1>4. HeldEnds(t) /\ (process[t] # Null => fd \notin Streamed(t))
    BY <1>1 DEF Descriptors, HeldEnds
  <1>5. Streamed(t)' = Streamed(t)
    BY <1>2 DEF Streamed
  <1>6. Holds(t)' = Holds(t) \ {fd} /\ fd \in Holds(t)
    BY <1>1, <1>2, <1>3, <1>4, <1>5 DEF Holds
  <1>7. OpenedEnds(t)' = {} /\ OpenedEnds(t) = {}
    BY <1>1, <1>2 DEF OpenedEnds
  <1>8. Mine(t)' = Mine(t) \ {fd} /\ {fd} \subseteq Mine(t)
    BY <1>6, <1>7 DEF Mine
  <1>9. \A g \in Holds(t)' : files'[g] = files[g]
    BY <1>2, <1>6, MineAreFds DEF WithoutFds
  <1>10. HeldEnds(t)'
    <2>1. process[t] # Null => \A g \in Streamed(t)' : g \in Holds(t)'
      BY <1>2 DEF Holds
    <2> QED BY <1>2, <1>3, <1>4, <1>5, <1>6, <1>9, <2>1 DEF HeldEnds
  <1>11. SpawnEnds(t)'
    BY <1>1, <1>2 DEF SpawnEnds
  <1>12. Descriptors' /\ \A u \in Threads : Mine(u)' \subseteq Mine(u)
    BY <1>2, <1>3, <1>8, <1>10, <1>11, ClosedDescriptors
  <1>13. Closes(t, {fd})
    BY <1>2, <1>8, <1>12 DEF Closes, ChannelDestroy, CloseFds, At
  <1> QED BY <1>12, <1>13

LEMMA DestroyCloseDescriptors ==
  ASSUME TypeOK, AllShaped, Descriptors, NEW t \in Threads, DestroyClose(t)
  PROVE  Descriptors' /\ \E fds : Closes(t, fds)
  <1> DEFINE fds == Streamed(t)
  <1>1. process[t] # Null /\ call[t].pairs = << >>
    BY DEF DestroyClose, At, AllShaped, Shaped, Starting, Ending
  <1>2. files' = WithoutFds(files, fds) /\ UNCHANGED channel
        /\ call' = [call EXCEPT ![t] = Idle] /\ process' = [process EXCEPT ![t] = Null]
    BY DEF DestroyClose, CloseFds, Return
  <1>3. /\ process'[t] = Null /\ call'[t].pairs = << >>
        /\ \A u \in Threads \ {t} : process'[u] = process[u] /\ call'[u] = call[u]
    BY <1>2, IdleShaped DEF TypeOK
  <1>4. HeldEnds(t) /\ (channel[t] # Null => channel[t] \notin fds)
    BY <1>1 DEF Descriptors, HeldEnds
  <1>5. Holds(t)' = Holds(t) \ fds /\ fds \subseteq Holds(t)
    BY <1>1, <1>2, <1>3, <1>4 DEF Holds
  <1>6. OpenedEnds(t)' = {} /\ OpenedEnds(t) = {}
    BY <1>1, <1>3 DEF OpenedEnds
  <1>7. Mine(t)' = Mine(t) \ fds /\ fds \subseteq Mine(t)
    BY <1>5, <1>6 DEF Mine
  <1>8. \A g \in Holds(t)' : files'[g] = files[g]
    BY <1>2, <1>5, MineAreFds DEF WithoutFds
  <1>9. HeldEnds(t)' /\ SpawnEnds(t)'
    BY <1>3, <1>4, <1>5, <1>8 DEF HeldEnds, SpawnEnds
  <1>10. Descriptors' /\ \A u \in Threads : Mine(u)' \subseteq Mine(u)
    BY <1>2, <1>3, <1>7, <1>9, ClosedDescriptors
  <1>11. call'[t].pc = "idle"
    BY <1>2, IdleShaped DEF TypeOK
  <1>12. Closes(t, fds)
    BY <1>2, <1>3, <1>7, <1>10, <1>11 DEF Closes, DestroyClose, CloseFds, At
  <1> QED BY <1>10, <1>12

(* The end kept of a stream is the near end of its pair.                   *)
LEMMA NearEndsAre ==
  ASSUME NEW c, c.kind \in Kinds
  PROVE  LET S == Streams(c.kind) IN
         /\ \A i \in DOMAIN S : NearEnd(c, S[i]) = c.pairs[i][1]
         /\ \A stream : NearEnd(c, stream) = Null \/ \E i \in DOMAIN S : S[i] = stream
  <1> DEFINE S == Streams(c.kind)
  <1>1. \A i, j \in DOMAIN S : S[i] = S[j] => i = j
    BY DEF Kinds, Streams
  <1>2. \A stream : stream \in Range(S) <=> \E i \in DOMAIN S : S[i] = stream
    BY DEF Range
  <1>3. ASSUME NEW i \in DOMAIN S
        PROVE  NearEnd(c, S[i]) = c.pairs[i][1]
    <2> DEFINE j == CHOOSE j \in DOMAIN S : S[j] = S[i]
    <2>1. NearEnd(c, S[i]) = c.pairs[j][1]
      BY <1>2, <1>3 DEF NearEnd
    <2>2. j \in DOMAIN S /\ S[j] = S[i]
      <3> HIDE DEF S
      <3> QED BY <1>3
    <2>3. j = i
      <3> HIDE DEF S, j
      <3> QED BY <1>1, <2>2
    <2> QED BY <2>1, <2>3
  <1>4. \A stream : NearEnd(c, stream) = Null \/ \E i \in DOMAIN S : S[i] = stream
    BY <1>2 DEF NearEnd
  <1> QED BY <1>3, <1>4

(* Publish keeps the near ends in the objects and closes the far ends.     *)
LEMMA PublishDescriptors ==
  ASSUME TypeOK, AllShaped, Descriptors, NEW t \in Threads, Publish(t)
  PROVE  Descriptors' /\ \E fds : Closes(t, fds)
  <1> DEFINE c == call[t]
             S == Streams(c.kind)
             near(stream) == NearEnd(c, stream)
             nears == {c.pairs[i][1] : i \in DOMAIN c.pairs}
             fars == {c.pairs[i][2] : i \in DOMAIN c.pairs}
             Four == {"stdin", "stdout", "stderr", "channel"}
  <1>1. /\ c.kind \in Kinds /\ c.pairs \in Seq(Fds \X Fds)
        /\ process[t] = Null /\ channel[t] = Null /\ DOMAIN c.pairs = DOMAIN S
    <2>1. c.kind \in Kinds /\ c.kind # "spawn_wait" /\ Len(c.pairs) = Len(S) /\ c.pairs \in Seq(Fds \X Fds)
          /\ process[t] = Null /\ channel[t] = Null
      BY DEF Publish, AllShaped, Shaped, Starting, TypeOK, CallRecords
    <2>2. S \in Seq(Four)
      BY <2>1, StreamsLength
    <2> HIDE DEF S, Four, c
    <2> QED BY <2>1, <2>2
  <1>2. /\ files' = WithoutFds(files, fars) /\ call' = [call EXCEPT ![t] = Idle]
        /\ process' = [process EXCEPT ![t] = process'[t]] /\ process'[t] # Null
        /\ process'[t].spawn = c.spawn /\ process'[t].stdin = near("stdin")
        /\ process'[t].stdout = near("stdout") /\ process'[t].stderr = near("stderr")
        /\ channel' = [channel EXCEPT ![t] = near("channel")]
    BY PublishShaped DEF Publish, CloseFds
  <1>3. /\ channel'[t] = near("channel") /\ call'[t].pairs = << >>
        /\ \A u \in Threads \ {t} :
             process'[u] = process[u] /\ channel'[u] = channel[u] /\ call'[u] = call[u]
    BY <1>2, IdleShaped DEF TypeOK
  <1>4. \A i \in DOMAIN c.pairs : /\ S[i] \in Four
                                  /\ files[c.pairs[i][1]] = End(c.spawn, S[i], 0)
                                  /\ files[c.pairs[i][2]] = End(c.spawn, S[i], 1)
                                  /\ End(c.spawn, S[i], 0) # Null
                                  /\ c.pairs[i][1] \in Fds /\ c.pairs[i][2] \in Fds
                                  /\ near(S[i]) = c.pairs[i][1]
    BY <1>1, PairsAreStreams, NearEndsAre, NullIsNothing DEF Descriptors, SpawnEnds
  <1>5. \A stream \in Four : near(stream) # Null =>
          near(stream) \in nears /\ files[near(stream)] = End(c.spawn, stream, 0)
    <2>1. \A stream : near(stream) = Null \/ \E i \in DOMAIN S : S[i] = stream
      BY <1>1, NearEndsAre
    <2> HIDE DEF c, S, near
    <2> QED BY <1>1, <1>4, <2>1
  <1>6. nears \cap fars = {}
    BY <1>4 DEF End
  <1> HIDE DEF near, S
  <1>7. \A g, h \in Four : g # h /\ near(g) # Null => near(g) # near(h)
    BY <1>5 DEF End
  <1>8. OpenedEnds(t) = nears \cup fars /\ Holds(t) = {} /\ OpenedEnds(t)' = {}
    <2>1. OpenedEnds(t) = nears \cup fars
      BY <1>1, OpenedEndsAre DEF OpenedEnds
    <2>2. OpenedEnds(t)' = {}
      BY <1>3 DEF OpenedEnds
    <2>3. Holds(t) = {}
      BY <1>1 DEF Holds
    <2> QED BY <2>1, <2>2, <2>3
  <1>9. Holds(t)' = {near("stdin"), near("stdout"), near("stderr"), near("channel")} \ {Null}
    BY <1>2, <1>3 DEF Holds, Streamed
  <1>10. Holds(t)' = nears
    <2>1. Holds(t)' \subseteq nears
      BY <1>5, <1>9
    <2>2. ASSUME NEW i \in DOMAIN c.pairs
          PROVE  c.pairs[i][1] \in Holds(t)'
      <3>1. near(S[i]) # Null
        BY <1>4, NullIsNothing
      <3> QED BY <1>4, <1>9, <3>1
    <2> QED BY <2>1, <2>2
  <1>11. Mine(t)' = Mine(t) \ fars /\ fars \subseteq Mine(t)
    BY <1>6, <1>8, <1>10 DEF Mine
  <1>12. \A fd \in nears : files'[fd] = files[fd]
    BY <1>2, <1>4, <1>6 DEF WithoutFds
  <1>13. \A stream \in Four : near(stream) # Null =>
           /\ files'[near(stream)] = End(c.spawn, stream, 0)
    BY <1>5, <1>12
  <1>14. HeldEnds(t)'
    <2>1. \A fd \in Holds(t)' : files'[fd] # Null /\ files'[fd][3] = 0 /\ files'[fd][1] = c.spawn
      <3>1. \A stream : End(c.spawn, stream, 0)[3] = 0 /\ End(c.spawn, stream, 0)[1] = c.spawn
        BY DEF End
      <3>2. ASSUME NEW i \in DOMAIN c.pairs
            PROVE  LET fd == c.pairs[i][1] IN
                   files'[fd] # Null /\ files'[fd][3] = 0 /\ files'[fd][1] = c.spawn
        BY <1>4, <1>12, <3>1
      <3> QED BY <1>10, <3>2
    <2>2. Streamed(t)' = {near("stdin"), near("stdout"), near("stderr")} \ {Null}
      BY <1>2 DEF Streamed
    <2>3. Streamed(t)' \subseteq Holds(t)'
      BY <1>9, <2>2
    <2>4. process'[t].stdin # Null => process'[t].stdin \notin {process'[t].stdout, process'[t].stderr}
      BY <1>2, <1>7
    <2>5. channel'[t] # Null => channel'[t] \notin Streamed(t)'
      BY <1>3, <1>7, <2>2
    <2> QED BY <1>2, <2>1, <2>3, <2>4, <2>5 DEF HeldEnds
  <1>15. SpawnEnds(t)'
    BY <1>3 DEF SpawnEnds
  <1>16. Descriptors' /\ \A u \in Threads : Mine(u)' \subseteq Mine(u)
    BY <1>2, <1>3, <1>11, <1>14, <1>15, ClosedDescriptors
  <1>17. call'[t].pc = "idle"
    BY <1>2, IdleShaped DEF TypeOK
  <1>18. /\ call[t].pc = "publish" /\ cloexec' = cloexec \ fars /\ UNCHANGED <<child, spawned>>
    BY DEF Publish, CloseFds
  <1>19. Closes(t, fars)
    BY <1>2, <1>3, <1>11, <1>16, <1>17, <1>18 DEF Closes
  <1> QED BY <1>16, <1>19

(* The actions that move a call on and open and close nothing.             *)
Moves(t) ==
  \/ \E kind \in Kinds : Spawn(t, kind)
  \/ Mark(t) \/ Fork(t) \/ Kill(t) \/ SpawnWaitReap(t) \/ WaitCall(t)
  \/ RunningGet(t) \/ TerminateCall(t) \/ DestroyCall(t) \/ PollAgain(t) \/ Wait(t)

LEMMA MovedCalls ==
  ASSUME TypeOK, AllShaped, NEW t \in Threads, Moves(t)
  PROVE  /\ UNCHANGED <<files, channel>>
         /\ \A u \in Threads \ {t} : call'[u] = call[u]
         /\ call'[t].pairs = call[t].pairs
         /\ call[t].pairs # << >> => call'[t].spawn = call[t].spawn /\ call'[t].kind = call[t].kind
  <1>1. \A x : call' = [call EXCEPT ![t] = x] => call'[t] = x /\ \A u \in Threads \ {t} : call'[u] = call[u]
    BY DEF TypeOK
  <1>2. \A pc : Goto(t, pc) => /\ \A u \in Threads \ {t} : call'[u] = call[u]
                               /\ call'[t].pairs = call[t].pairs
                               /\ call'[t].spawn = call[t].spawn /\ call'[t].kind = call[t].kind
    BY DEF TypeOK, CallRecords, Goto
  <1>3. call[t].pc \notin Starting => call[t].pairs = << >>
    BY DEF AllShaped, Shaped
  <1>4. \A pc, kind, spawn : Calling(pc, kind, spawn).pairs = << >>
    BY DEF Calling
  <1>5. Return(t) => (\A u \in Threads \ {t} : call'[u] = call[u]) /\ call'[t].pairs = << >>
    BY IdleShaped DEF Return, TypeOK
  <1>6. CASE \E kind \in Kinds : Spawn(t, kind)
    BY <1>1, <1>3, <1>4, <1>6 DEF Spawn, At, Starting, objects
  <1>7. CASE Mark(t)
    BY <1>2, <1>7 DEF Mark, objects
  <1>8. CASE Fork(t)
    BY <1>1, <1>8 DEF Fork, objects
  <1>9. CASE Kill(t)
    BY <1>2, <1>3, <1>5, <1>9 DEF Kill, At, Starting, objects
  <1>10. CASE SpawnWaitReap(t)
    <2>1. call[t].kind \in Kinds /\ Len(call[t].pairs) = 0 /\ call[t].pairs \in Seq(Fds \X Fds)
      <3>1. call[t].kind = "spawn_wait" /\ Len(call[t].pairs) = Len(Streams(call[t].kind))
        BY <1>10 DEF SpawnWaitReap, At, AllShaped, Shaped, Starting
      <3> QED BY <3>1 DEF Streams, Kinds, TypeOK, CallRecords
    <2>2. call[t].pairs = << >>
      BY <2>1
    <2> QED BY <1>5, <1>10, <2>2 DEF SpawnWaitReap, objects
  <1>11. CASE WaitCall(t) \/ RunningGet(t) \/ TerminateCall(t) \/ DestroyCall(t)
    <2>1. call[t].pairs = << >> /\ UNCHANGED <<files, channel>>
      BY <1>3, <1>11
         DEF WaitCall, RunningGet, TerminateCall, DestroyCall, Calls, At, Starting, objects
    <2>2. UNCHANGED call \/ \E pc, kind, spawn : call' = [call EXCEPT ![t] = Calling(pc, kind, spawn)]
      BY <1>11 DEF WaitCall, RunningGet, TerminateCall, DestroyCall
    <2>3. CASE UNCHANGED call
      BY <2>1, <2>3
    <2>4. ASSUME NEW pc, NEW kind, NEW spawn, call' = [call EXCEPT ![t] = Calling(pc, kind, spawn)]
          PROVE  (\A u \in Threads \ {t} : call'[u] = call[u]) /\ call'[t].pairs = << >>
      BY <1>4, <2>4 DEF TypeOK
    <2> QED BY <2>1, <2>2, <2>3, <2>4
  <1>12. CASE PollAgain(t) \/ Wait(t)
    BY <1>2, <1>3, <1>5, <1>12 DEF PollAgain, Wait, At, Starting
  <1> QED BY <1>6, <1>7, <1>8, <1>9, <1>10, <1>11, <1>12 DEF Moves

LEMMA MovesDescriptors ==
  ASSUME IInv, Descriptors, NEW t \in Threads, Moves(t)
  PROVE  Descriptors' /\ \A u \in Threads : Mine(u)' = Mine(u)
  <1>1. TypeOK /\ AllShaped /\ Claimed
    BY DEF IInv
  <1>2. UNCHANGED process \/ (process[t] # Null /\ Reaped(t))
    <2>1. CASE RunningGet(t) \/ TerminateCall(t) \/ DestroyCall(t) \/ PollAgain(t)
      <3>1. process[t] # Null /\ Polled(t)
        BY <1>1, <2>1
           DEF RunningGet, TerminateCall, DestroyCall, PollAgain, Calls, At, AllShaped, Shaped, Ending
      <3> QED BY <1>1, <3>1, PolledFacts
    <2>2. CASE Wait(t)
      BY <1>1, <2>2 DEF Wait, At, AllShaped, Shaped, Ending
    <2>3. CASE (\E kind \in Kinds : Spawn(t, kind)) \/ Mark(t) \/ Fork(t) \/ Kill(t)
                 \/ SpawnWaitReap(t) \/ WaitCall(t)
      BY <2>3 DEF Spawn, Mark, Fork, Kill, SpawnWaitReap, WaitCall, objects
    <2> QED BY <2>1, <2>2, <2>3 DEF Moves
  <1>3. ASSUME NEW u \in Threads
        PROVE  /\ (process'[u] = Null) <=> (process[u] = Null)
               /\ process[u] # Null =>
                    /\ process'[u].spawn = process[u].spawn /\ process'[u].stdin = process[u].stdin
                    /\ process'[u].stdout = process[u].stdout /\ process'[u].stderr = process[u].stderr
    <2>1. CASE process[t] # Null /\ Reaped(t)
      <3>1. process'[t] # Null /\ \A v \in Threads \ {t} : process'[v] = process[v]
        BY <1>1, <2>1, ReapedFacts DEF TypeOK
      <3> QED BY <1>1, <2>1, <3>1, ReapedFacts
    <2> QED BY <1>2, <2>1
  <1> QED BY <1>1, <1>3, MovedCalls, SameDescriptors

LEMMA NextDescriptors ==
  ASSUME IInv, Descriptors, [Next]_vars
  PROVE  Descriptors'
  <1>1. TypeOK /\ AllShaped /\ AllForked
    BY DEF IInv
  <1>2. CASE UNCHANGED vars \/ \E p \in Pids : Kernel(p)
    <2>1. UNCHANGED <<files, process, channel, call>>
      BY <1>2 DEF vars, objects, Kernel, Exec, Exit, Die
    <2> QED BY <1>1, <2>1, SameDescriptors
  <1>3. CASE \E t \in Threads : Step(t) \/ CallOf(t)
    <2>1. PICK t \in Threads : Step(t) \/ CallOf(t)
      BY <1>3
    <2>2. CASE Moves(t)
      BY <2>2, MovesDescriptors
    <2>3. CASE Socketpair(t) \/ Fails(t) \/ Publish(t)
      BY <1>1, <2>3, SocketpairDescriptors, FailsDescriptors, PublishDescriptors
    <2>4. CASE DestroyClose(t) \/ StdinClose(t) \/ ChannelDestroy(t)
      BY <1>1, <2>4, DestroyCloseDescriptors, StdinCloseDescriptors, ChannelDestroyDescriptors
    <2> QED BY <2>1, <2>2, <2>3, <2>4 DEF Step, CallOf, Moves
  <1> QED BY <1>2, <1>3 DEF Next

(* Every descriptor the library opened has one owner, on every path out of *)
(* a spawn that fails half-way; and what an object holds is open, is its   *)
(* own, and is nobody else's.                                              *)
THEOREM DescriptorsOwned == Spec => []Owned
  <1>1. Init => IInv /\ Descriptors
    BY InitInv, InitDescriptors
  <1>2. IInv /\ Descriptors /\ [Next]_vars => (IInv /\ Descriptors)'
    BY NextInv, NextDescriptors
  <1>3. IInv /\ Descriptors => Owned
    BY DEF Descriptors, HeldEnds, Mine, Owned
  <1> QED BY <1>1, <1>2, <1>3, PTL DEF Spec

-----------------------------------------------------------------------------
(* What a child inherits.  Each descriptor a thread has is an end of one   *)
(* of the four streams.                                                    *)
Named == \A t \in Threads : \A fd \in Mine(t) :
           files[fd] # Null => files[fd][2] \in {"stdin", "stdout", "stderr", "channel"}

(* A spawn's name is its own, and no descriptor of it is anywhere but in   *)
(* its hands until it returns.                                             *)
Fresh ==
  /\ \A fd \in Fds : files[fd] # Null => files[fd][1] <= spawned
  /\ \A t \in Threads : call[t].pc \in Starting =>
       /\ call[t].spawn <= spawned
       /\ \A u \in Threads \ {t} : call[u].pc \in Starting => call[u].spawn # call[t].spawn
       /\ \A fd \in Fds : files[fd] # Null /\ files[fd][1] = call[t].spawn => fd \in OpenedEnds(t)

(* What execve closes are near ends, and the near ends of channels and     *)
(* captured stderrs are among them unless their spawn is about to mark     *)
(* them.                                                                   *)
Unmarked(t, fd) == call[t].pc \in {"pair", "mark"} /\ fd \in OpenedEnds(t)

Marks ==
  /\ \A fd \in cloexec : files[fd] # Null /\ files[fd][3] = 0
  /\ \A fd \in Fds : files[fd] # Null /\ files[fd][2] \in {"channel", "stderr"} /\ files[fd][3] = 0 =>
       fd \in cloexec \/ \E t \in Threads : Unmarked(t, fd)

(* What a child that was forked from such a parent holds.                  *)
Ours(c) == {c.pairs[i][1] : i \in DOMAIN c.pairs} \cup {c.pairs[i][2] : i \in DOMAIN c.pairs}

Sealed(c) ==
  /\ \A i \in DOMAIN c.pairs : /\ c.table[c.pairs[i][1]] = End(c.spawn, Streams(c.kind)[i], 0)
                               /\ c.table[c.pairs[i][2]] = End(c.spawn, Streams(c.kind)[i], 1)
  /\ \A fd \in Fds : c.table[fd] # Null /\ c.table[fd][1] = c.spawn => fd \in Ours(c)
  /\ \A fd \in c.marked : c.table[fd] # Null /\ c.table[fd][3] = 0
  /\ ~c.crowded => \A fd \in Fds : c.table[fd] \notin {Null, Inherited} /\ c.table[fd][1] # c.spawn =>
       c.table[fd][3] = 0 /\ (c.table[fd][2] \in {"stdin", "stdout"} \/ fd \in c.marked)

AllSealed == \A p \in Pids : child[p] # Null /\ child[p].state = "forked" => Sealed(child[p])

Lineage == Named /\ Fresh /\ Marks /\ AllSealed

-----------------------------------------------------------------------------
LEMMA InitLineage ==
  ASSUME Init
  PROVE  Lineage
  <1>1. \A t \in Threads : /\ call[t].pc \notin Starting /\ call[t].pairs = << >>
                           /\ process[t] = Null /\ channel[t] = Null
    BY IdleShaped DEF Init, Starting
  <1>2. \A t \in Threads : Holds(t) = {} /\ OpenedEnds(t) = {}
    BY <1>1 DEF Holds, OpenedEnds
  <1>3. Named
    BY <1>2 DEF Named, Mine
  <1>4. \A fd \in Fds : files[fd] \in {Null, Inherited}
    BY DEF Init
  <1>5. Inherited[1] = 0 /\ Inherited[2] = "inherited"
    BY DEF Inherited
  <1>6. Fresh /\ Marks /\ AllSealed
    BY <1>1, <1>4, <1>5 DEF Init, Fresh, Marks, AllSealed
  <1> QED BY <1>3, <1>6 DEF Lineage

(* A step that opens nothing and starts nothing.                           *)
LEMMA NothingNew ==
  ASSUME TypeOK, Named, Fresh, spawned' = spawned,
         \A fd \in Fds : files'[fd] \in {files[fd], Null},
         \A t \in Threads : Mine(t)' \subseteq Mine(t),
         \A t \in Threads : call'[t].pc \in Starting =>
           /\ call[t].pc \in Starting
           /\ call'[t].spawn = call[t].spawn /\ call'[t].pairs = call[t].pairs
  PROVE  Named' /\ Fresh'
  <1>1. Named'
    BY MineAreFds DEF Named
  <1>2. \A t \in Threads : call'[t].pc \in Starting => OpenedEnds(t)' = OpenedEnds(t)
    BY DEF OpenedEnds
  <1>3. Fresh'
    BY <1>2 DEF Fresh
  <1> QED BY <1>1, <1>3

(* Descriptors are closed.                                                 *)
LEMMA ClosesLineage ==
  ASSUME IInv, Descriptors, Lineage, NEW t \in Threads, NEW fds, Closes(t, fds)
  PROVE  Lineage'
  <1>1. \A fd \in Fds : files'[fd] = IF fd \in fds THEN Null ELSE files[fd]
    BY DEF Closes, WithoutFds
  <1>2. Named' /\ Fresh'
    BY <1>1, NothingNew DEF IInv, Lineage, Closes, Starting
  <1>3. cloexec' = cloexec \ fds /\ cloexec \subseteq Fds
    BY DEF Closes, IInv, TypeOK
  <1>4. ASSUME NEW fd \in Fds, files'[fd] # Null, NEW u \in Threads, Unmarked(u, fd)
        PROVE  Unmarked(u, fd)'
    <2>1. fd \notin fds
      BY <1>1, <1>4
    <2>2. u # t
      BY <1>4, <2>1 DEF Unmarked, Closes
    <2>3. call'[u] = call[u]
      BY <2>2 DEF Closes
    <2> QED BY <1>4, <2>3 DEF Unmarked, OpenedEnds
  <1>5. Marks'
    <2>1. \A fd \in cloexec' : files'[fd] # Null /\ files'[fd][3] = 0
      BY <1>1, <1>3 DEF Lineage, Marks
    <2>2. ASSUME NEW fd \in Fds, files'[fd] # Null, files'[fd][2] \in {"channel", "stderr"},
                 files'[fd][3] = 0
          PROVE  fd \in cloexec' \/ \E u \in Threads : Unmarked(u, fd)'
      BY <1>1, <1>3, <1>4, <2>2 DEF Lineage, Marks
    <2> QED BY <2>1, <2>2 DEF Marks
  <1>6. AllSealed'
    BY DEF Closes, Lineage, AllSealed
  <1> QED BY <1>2, <1>5, <1>6 DEF Lineage

(* A spawn starts under a name no descriptor bears.                        *)
LEMMA SpawnLineage ==
  ASSUME IInv, Descriptors, Lineage, NEW t \in Threads, NEW kind \in Kinds, Spawn(t, kind)
  PROVE  Lineage'
  <1>1. /\ UNCHANGED <<files, cloexec, child, process, channel>> /\ spawned' = spawned + 1
        /\ call[t].pc = "idle" /\ call[t].pairs = << >>
        /\ call'[t].spawn = spawned + 1 /\ call'[t].pairs = << >>
        /\ \A u \in Threads \ {t} : call'[u] = call[u]
    BY DEF Spawn, At, objects, IInv, TypeOK, AllShaped, Shaped, Starting, Calling
  <1>2. \A u \in Threads : OpenedEnds(u)' = OpenedEnds(u) /\ Mine(u)' = Mine(u)
    BY <1>1 DEF OpenedEnds, Mine, Holds, Streamed
  <1>3. Named'
    BY <1>1, <1>2 DEF Lineage, Named
  <1>4. \A fd \in Fds : files[fd] # Null => files[fd][1] \in Nat /\ files[fd][1] <= spawned
    BY DEF IInv, TypeOK, Tables, Ends, Lineage, Fresh
  <1>5. spawned \in Nat /\ \A u \in Threads : call[u].spawn \in Nat
    BY DEF IInv, TypeOK, CallRecords
  <1>6. Fresh'
    <2>1. \A u \in Threads \ {t} : call[u].pc \in Starting => call[u].spawn <= spawned
      BY DEF Lineage, Fresh
    <2>2. \A fd \in Fds : files[fd] # Null => files[fd][1] <= spawned + 1 /\ files[fd][1] # spawned + 1
      BY <1>4, <1>5
    <2>3. \A u \in Threads \ {t} : call[u].pc \in Starting =>
            call[u].spawn <= spawned + 1 /\ call[u].spawn # spawned + 1
      BY <1>5, <2>1
    <2>4. ASSUME NEW u \in Threads, call'[u].pc \in Starting
          PROVE  /\ call'[u].spawn <= spawned + 1
                 /\ \A v \in Threads \ {u} : call'[v].pc \in Starting => call'[v].spawn # call'[u].spawn
                 /\ \A fd \in Fds : files[fd] # Null /\ files[fd][1] = call'[u].spawn =>
                      fd \in OpenedEnds(u)
      <3>1. CASE u = t
        BY <1>1, <1>5, <2>2, <2>3, <3>1
      <3>2. CASE u # t
        <4>1. call'[u] = call[u] /\ call[u].pc \in Starting
          BY <1>1, <2>4, <3>2
        <4>2. \A v \in Threads \ {u} : call'[v].pc \in Starting => call'[v].spawn # call'[u].spawn
          BY <1>1, <2>3, <3>2, <4>1 DEF Lineage, Fresh
        <4> QED BY <2>3, <3>2, <4>1, <4>2 DEF Lineage, Fresh
      <3> QED BY <3>1, <3>2
    <2> QED BY <1>1, <1>2, <2>2, <2>4 DEF Fresh
  <1>7. Marks'
    <2>1. ASSUME NEW fd \in Fds, NEW u \in Threads, Unmarked(u, fd)
          PROVE  Unmarked(u, fd)'
      BY <1>1, <1>2, <2>1 DEF Unmarked
    <2> QED BY <1>1, <2>1 DEF Lineage, Marks
  <1>8. AllSealed'
    BY <1>1 DEF Lineage, AllSealed
  <1> QED BY <1>3, <1>6, <1>7, <1>8 DEF Lineage

(* A pair is opened: its name is its spawn's, its near end is about to be  *)
(* marked if it has to be.                                                 *)
LEMMA SocketpairLineage ==
  ASSUME IInv, Descriptors, Lineage, NEW t \in Threads, Socketpair(t)
  PROVE  Lineage'
  <1> DEFINE c == call[t]
             stream == Streams(c.kind)[Len(c.pairs) + 1]
             E0 == End(c.spawn, stream, 0)
             E1 == End(c.spawn, stream, 1)
             Four == {"stdin", "stdout", "stderr", "channel"}
  <1>1. TypeOK /\ AllShaped /\ c.pc = "pair" /\ UNCHANGED <<cloexec, child, spawned>>
    BY DEF IInv, Socketpair
  <1>2. PICK near, far \in Fds :
          /\ near # far
          /\ files' = [fd \in Fds |-> IF fd = near THEN E0 ELSE IF fd = far THEN E1 ELSE files[fd]]
          /\ files[near] = Null /\ files[far] = Null
          /\ OpenedEnds(t)' = OpenedEnds(t) \cup {near, far}
          /\ Mine(t)' = Mine(t) \cup {near, far}
    BY <1>1, SocketpairDescriptors
  <1>3. \A u \in Threads \ {t} : Mine(u)' = Mine(u) /\ call'[u] = call[u]
    BY <1>1, SocketpairDescriptors
  <1>4. /\ c.kind \in Kinds /\ Len(c.pairs) \in Nat /\ Len(c.pairs) + 1 \in 1 .. Len(Streams(c.kind))
        /\ c.spawn \in Nat
    <2>1. c.kind \in Kinds /\ Len(c.pairs) < Len(Streams(c.kind)) /\ c.pairs \in Seq(Fds \X Fds)
          /\ c.spawn \in Nat
      BY <1>1 DEF AllShaped, Shaped, Starting, TypeOK, CallRecords
    <2> QED BY <2>1, StreamsLength
  <1>5. stream \in Four
    BY <1>4 DEF Streams, Kinds
  <1>6. call'[t].spawn = c.spawn /\ call'[t].kind = c.kind
        /\ (Marked(c.kind) => call'[t].pc \in {"pair", "mark"})
        /\ call'[t].pc \in Starting
    <2>1. call' = [call EXCEPT ![t] = call'[t]] /\ call'[t].spawn = c.spawn /\ call'[t].kind = c.kind
      BY <1>1, SocketpairShaped
    <2>2. call'[t].pc \in {"pair", AfterPairs(c.kind)}
      BY <1>1 DEF Socketpair, TypeOK
    <2> QED BY <2>1, <2>2 DEF AfterPairs, Starting
  <1>7. /\ E0[1] = c.spawn /\ E0[2] = stream /\ E0[3] = 0
        /\ E1[1] = c.spawn /\ E1[2] = stream /\ E1[3] = 1
    BY DEF End
  <1> HIDE DEF E0, E1
  <1>8. \A u \in Threads : Mine(u) \subseteq Fds /\ OpenedEnds(u) \subseteq Fds
    BY <1>1, MineAreFds DEF Mine
  <1>9. Named'
    <2>1. ASSUME NEW u \in Threads, NEW fd \in Mine(u)', files'[fd] # Null
          PROVE  files'[fd][2] \in Four
      <3>1. fd \in Fds
        BY <1>2, <1>3, <1>8
      <3>2. CASE fd \in {near, far}
        BY <1>2, <1>5, <1>7, <3>2
      <3>3. CASE fd \notin {near, far}
        <4>1. fd \in Mine(u) /\ files'[fd] = files[fd]
          BY <1>2, <1>3, <3>1, <3>3
        <4> QED BY <2>1, <4>1 DEF Lineage, Named
      <3> QED BY <3>2, <3>3
    <2> QED BY <2>1 DEF Named
  <1>10. \A u \in Threads \ {t} : OpenedEnds(u)' = OpenedEnds(u)
    BY <1>3 DEF OpenedEnds
  <1>11. Fresh'
    <2>1. c.spawn <= spawned /\ c.pc \in Starting
      BY <1>1 DEF Lineage, Fresh, Starting
    <2>2. \A fd \in Fds : files'[fd] # Null => files'[fd][1] <= spawned
      BY <1>2, <1>7, <2>1 DEF Lineage, Fresh
    <2>3. ASSUME NEW u \in Threads, call'[u].pc \in Starting
          PROVE  call[u].pc \in Starting /\ call'[u].spawn = call[u].spawn
      BY <1>3, <1>6, <2>1, <2>3
    <2>4. ASSUME NEW u \in Threads, call'[u].pc \in Starting, NEW fd \in Fds,
                 files'[fd] # Null, files'[fd][1] = call'[u].spawn
          PROVE  fd \in OpenedEnds(u)'
      <3>1. CASE u = t
        BY <1>2, <1>6, <2>1, <2>4, <3>1 DEF Lineage, Fresh
      <3>2. CASE u # t
        <4>1. call[u].spawn # c.spawn /\ call[u].pc \in Starting /\ call'[u].spawn = call[u].spawn
          BY <2>1, <2>3, <2>4, <3>2 DEF Lineage, Fresh
        <4>2. fd \notin {near, far}
          BY <1>2, <1>7, <2>4, <4>1
        <4> QED BY <1>2, <1>10, <2>4, <3>2, <4>1, <4>2 DEF Lineage, Fresh
      <3> QED BY <3>1, <3>2
    <2> QED BY <1>1, <2>2, <2>3, <2>4 DEF Lineage, Fresh
  <1>12. Marks'
    <2>1. \A fd \in cloexec' : files'[fd] # Null /\ files'[fd][3] = 0
      <3>1. cloexec \subseteq Fds
        BY <1>1 DEF TypeOK
      <3> QED BY <1>1, <1>2, <3>1 DEF Lineage, Marks
    <2>2. ASSUME NEW fd \in Fds, files'[fd] # Null, files'[fd][2] \in {"channel", "stderr"},
                 files'[fd][3] = 0
          PROVE  fd \in cloexec' \/ \E u \in Threads : Unmarked(u, fd)'
      <3>1. \A s \in {"channel", "stderr"}, i \in DOMAIN Streams(c.kind) :
               Streams(c.kind)[i] = s => Marked(c.kind)
        BY <1>4 DEF Streams, Marked, Kinds
      <3>2. CASE fd \in {near, far}
        <4>1. stream \in {"channel", "stderr"}
          BY <1>2, <1>7, <2>2, <3>2
        <4>2. Len(c.pairs) + 1 \in DOMAIN Streams(c.kind)
          BY <1>4, StreamsLength
        <4>3. Marked(c.kind)
          BY <3>1, <4>1, <4>2
        <4> QED BY <1>2, <1>6, <3>2, <4>3 DEF Unmarked
      <3>3. CASE fd \notin {near, far} /\ fd \notin cloexec
        <4>1. files'[fd] = files[fd]
          BY <1>2, <3>3
        <4>2. PICK u \in Threads : Unmarked(u, fd)
          BY <2>2, <3>3, <4>1 DEF Lineage, Marks
        <4>3. CASE u # t
          <5>1. call'[u] = call[u] /\ OpenedEnds(u)' = OpenedEnds(u)
            BY <1>3, <1>10, <4>3
          <5> QED BY <4>2, <5>1 DEF Unmarked
        <4>4. CASE u = t
          <5>1. PICK i \in DOMAIN c.pairs : fd = c.pairs[i][1] \/ fd = c.pairs[i][2]
            BY <1>1, <4>2, <4>4, OpenedBy DEF Unmarked
          <5>2. files[fd][2] = Streams(c.kind)[i]
            <6>1. SpawnEnds(t) /\ \A spawn, name, side : End(spawn, name, side)[2] = name
              BY DEF Descriptors, End
            <6> QED BY <5>1, <6>1 DEF SpawnEnds
          <5>3. i \in DOMAIN Streams(c.kind)
            BY <1>1, <1>4, PairsAreStreams, StreamsLength
          <5>4. Marked(c.kind)
            BY <2>2, <3>1, <4>1, <5>2, <5>3
          <5> QED BY <1>2, <1>6, <4>2, <4>4, <5>4 DEF Unmarked
        <4> QED BY <4>3, <4>4
      <3> QED BY <1>1, <3>2, <3>3
    <2> QED BY <2>1, <2>2 DEF Marks
  <1>13. AllSealed'
    BY <1>1 DEF Lineage, AllSealed
  <1> QED BY <1>9, <1>11, <1>12, <1>13 DEF Lineage

(* The near ends are marked.                                               *)
LEMMA MarkLineage ==
  ASSUME IInv, Descriptors, Lineage, NEW t \in Threads, Mark(t)
  PROVE  Lineage'
  <1> DEFINE c == call[t]
             nears == {c.pairs[i][1] : i \in DOMAIN c.pairs}
  <1>1. /\ TypeOK /\ AllShaped /\ UNCHANGED <<files, child, process, channel, spawned>>
        /\ cloexec' = cloexec \cup nears /\ c.pc = "mark"
    BY DEF IInv, Mark, objects
  <1>2. \A u \in Threads : /\ call'[u].pairs = call[u].pairs /\ call'[u].spawn = call[u].spawn
                           /\ u # t => call'[u] = call[u]
    BY DEF Mark, Goto, IInv, TypeOK, CallRecords
  <1>3. \A u \in Threads : OpenedEnds(u)' = OpenedEnds(u) /\ Mine(u)' = Mine(u)
    BY <1>1, <1>2 DEF OpenedEnds, Mine, Holds, Streamed
  <1>4. Named' /\ Fresh'
    BY <1>1, <1>2, <1>3, NothingNew DEF Lineage, Starting
  <1>5. \A i \in DOMAIN c.pairs : /\ files[c.pairs[i][1]] # Null /\ files[c.pairs[i][1]][3] = 0
                                  /\ files[c.pairs[i][2]][3] = 1
    <2>1. ASSUME NEW i \in DOMAIN c.pairs
          PROVE  /\ files[c.pairs[i][1]] = End(c.spawn, Streams(c.kind)[i], 0)
                 /\ files[c.pairs[i][2]] = End(c.spawn, Streams(c.kind)[i], 1)
                 /\ End(c.spawn, Streams(c.kind)[i], 0) # Null
      BY <1>1, PairsAreStreams, NullIsNothing DEF Descriptors, SpawnEnds
    <2>2. \A spawn, stream, side : End(spawn, stream, side)[3] = side
      BY DEF End
    <2> QED BY <2>1, <2>2
  <1>6. Marks'
    <2>1. ASSUME NEW fd \in Fds, NEW u \in Threads, Unmarked(u, fd), files[fd][3] = 0
          PROVE  fd \in nears \/ Unmarked(u, fd)'
      <3>1. CASE u = t
        <4>1. PICK i \in DOMAIN c.pairs : fd = c.pairs[i][1] \/ fd = c.pairs[i][2]
          BY <1>1, <2>1, <3>1, OpenedBy DEF Unmarked
        <4> QED BY <1>5, <2>1, <4>1
      <3>2. CASE u # t
        BY <1>2, <1>3, <2>1, <3>2 DEF Unmarked
      <3> QED BY <3>1, <3>2
    <2>2. \A fd \in cloexec' : files'[fd] # Null /\ files'[fd][3] = 0
      BY <1>1, <1>5 DEF Lineage, Marks
    <2> QED BY <1>1, <2>1, <2>2 DEF Lineage, Marks
  <1>7. AllSealed'
    BY <1>1 DEF Lineage, AllSealed
  <1> QED BY <1>4, <1>6, <1>7 DEF Lineage

(* A child is forked from a parent whose descriptors are in order.         *)
LEMMA ForkSeals ==
  ASSUME IInv, Descriptors, Lineage, NEW t \in Threads, call[t].pc = "fork", NEW c,
         c.spawn = call[t].spawn, c.kind = call[t].kind, c.pairs = call[t].pairs,
         c.table = files, c.marked = cloexec, c.crowded = Crowded(t)
  PROVE  Sealed(c)
  <1>1. TypeOK /\ AllShaped
    BY DEF IInv
  <1>2. \A i \in DOMAIN c.pairs : /\ c.table[c.pairs[i][1]] = End(c.spawn, Streams(c.kind)[i], 0)
                                  /\ c.table[c.pairs[i][2]] = End(c.spawn, Streams(c.kind)[i], 1)
    BY DEF Descriptors, SpawnEnds
  <1>3. \A fd \in Fds : c.table[fd] # Null /\ c.table[fd][1] = c.spawn => fd \in Ours(c)
    <2>1. \A fd \in Fds : c.table[fd] # Null /\ c.table[fd][1] = c.spawn => fd \in OpenedEnds(t)
      BY DEF Lineage, Fresh, Starting
    <2>2. \A fd \in OpenedEnds(t) : fd \in Ours(c)
      BY <1>1, OpenedBy DEF Ours
    <2> QED BY <2>1, <2>2
  <1>4. \A fd \in c.marked : c.table[fd] # Null /\ c.table[fd][3] = 0
    BY DEF Lineage, Marks
  <1>5. ASSUME ~Crowded(t), NEW fd \in Fds, files[fd] \notin {Null, Inherited},
               files[fd][1] # call[t].spawn
        PROVE  files[fd][3] = 0 /\ (files[fd][2] \in {"stdin", "stdout"} \/ fd \in cloexec)
    <2>1. \A u \in Threads \ {t} : OpenedEnds(u) = {}
      BY <1>5 DEF Crowded, OpenedEnds
    <2>2. fd \notin OpenedEnds(t)
      <3>1. SUFFICES ASSUME fd \in OpenedEnds(t)
                     PROVE  FALSE
        OBVIOUS
      <3>2. PICK i \in DOMAIN call[t].pairs : fd = call[t].pairs[i][1] \/ fd = call[t].pairs[i][2]
        BY <1>1, <3>1, OpenedBy
      <3>3. SpawnEnds(t)
        BY DEF Descriptors
      <3>4. \A stream, side : End(call[t].spawn, stream, side)[1] = call[t].spawn
        BY DEF End
      <3> QED BY <1>5, <3>2, <3>3, <3>4 DEF SpawnEnds
    <2>3. PICK u \in Threads : fd \in Mine(u)
      BY <1>5 DEF Descriptors
    <2>4. fd \in Holds(u)
      BY <2>1, <2>2, <2>3 DEF Mine
    <2>5. files[fd][3] = 0
      BY <2>4 DEF Descriptors, HeldEnds
    <2>6. files[fd][2] \in {"stdin", "stdout", "stderr", "channel"}
      BY <1>5, <2>3 DEF Lineage, Named
    <2>7. ASSUME NEW v \in Threads
          PROVE  ~Unmarked(v, fd)
      BY <2>1, <2>2 DEF Unmarked
    <2> QED BY <1>5, <2>5, <2>6, <2>7 DEF Lineage, Marks
  <1> QED BY <1>2, <1>3, <1>4, <1>5 DEF Sealed

(* A step that opens and closes nothing and marks nothing.                 *)
LEMMA SteadyLineage ==
  ASSUME IInv, Descriptors, Lineage, NEW t \in Threads, Moves(t), ~Mark(t),
         \A kind \in Kinds : ~Spawn(t, kind)
  PROVE  Lineage'
  <1> DEFINE c == call[t]
  <1>1. /\ TypeOK /\ AllShaped /\ \A u \in Threads : Mine(u)' = Mine(u)
        /\ files' = files /\ \A u \in Threads \ {t} : call'[u] = call[u]
        /\ call'[t].pairs = c.pairs
    BY MovesDescriptors, MovedCalls DEF IInv
  <1>2. UNCHANGED <<cloexec, spawned>> /\ c.pc \notin {"pair", "mark"}
    BY DEF Moves, Fork, Kill, SpawnWaitReap, WaitCall, RunningGet, TerminateCall, DestroyCall,
           PollAgain, Wait, Calls, At
  <1>3. call'[t].pc \in Starting => c.pc \in Starting /\ call'[t].spawn = c.spawn
    <2>1. \A pc : Goto(t, pc) => call'[t].pc = pc
      BY <1>1 DEF Goto, TypeOK, CallRecords
    <2>2. Return(t) => call'[t].pc = "idle"
      BY <1>1, IdleShaped DEF Return, TypeOK
    <2>3. ASSUME Fork(t)
          PROVE  call'[t].spawn = c.spawn /\ c.pc = "fork"
      BY <1>1, <2>3, ForkShaped DEF Fork
    <2>4. CASE Kill(t) \/ SpawnWaitReap(t) \/ PollAgain(t) \/ Wait(t)
      BY <2>1, <2>2, <2>4 DEF Kill, SpawnWaitReap, PollAgain, Wait, Starting
    <2>5. CASE WaitCall(t) \/ RunningGet(t) \/ TerminateCall(t) \/ DestroyCall(t)
      <3>1. c.pc = "idle"
        BY <2>5 DEF WaitCall, RunningGet, TerminateCall, DestroyCall, Calls, At
      <3>2. \/ UNCHANGED call
            \/ \E pc \in Ending : \E kind, spawn : call' = [call EXCEPT ![t] = Calling(pc, kind, spawn)]
        BY <2>5 DEF WaitCall, RunningGet, TerminateCall, DestroyCall, Ending
      <3>3. ASSUME NEW pc \in Ending, NEW kind, NEW spawn,
                   call' = [call EXCEPT ![t] = Calling(pc, kind, spawn)]
            PROVE  call'[t].pc \notin Starting
        BY <1>1, <3>3 DEF TypeOK, Calling, Ending, Starting
      <3> QED BY <3>1, <3>2, <3>3 DEF Starting
    <2> QED BY <2>3, <2>4, <2>5 DEF Moves, Starting
  <1>4. Named' /\ Fresh'
    BY <1>1, <1>2, <1>3, NothingNew DEF Lineage
  <1>5. \A u \in Threads : OpenedEnds(u)' = OpenedEnds(u)
    BY <1>1 DEF OpenedEnds
  <1>6. Marks'
    <2>1. ASSUME NEW fd \in Fds, NEW u \in Threads, Unmarked(u, fd)
          PROVE  Unmarked(u, fd)'
      <3>1. u # t
        BY <1>2, <2>1 DEF Unmarked
      <3> QED BY <1>1, <1>5, <2>1, <3>1 DEF Unmarked
    <2> QED BY <1>1, <1>2, <2>1 DEF Lineage, Marks
  <1>7. ASSUME NEW p \in Pids, child'[p] # Null, child'[p].state = "forked"
        PROVE  Sealed(child'[p])
    <2>1. CASE child'[p] = child[p]
      BY <1>7, <2>1 DEF Lineage, AllSealed
    <2>2. CASE Fork(t) /\ child'[p] # child[p]
      <3> DEFINE made == [state |-> "forked", spawn |-> c.spawn, kind |-> c.kind, pairs |-> c.pairs,
                          table |-> files, marked |-> cloexec, crowded |-> Crowded(t)]
      <3>1. c.pc = "fork" /\ \E pid : child' = [child EXCEPT ![pid] = made]
        BY <2>2 DEF Fork
      <3>2. child'[p] = made
        BY <1>1, <2>2, <3>1 DEF TypeOK
      <3> QED BY <3>1, <3>2, ForkSeals
    <2>3. CASE ~Fork(t) /\ child'[p] # child[p]
      <3>1. CASE Kill(t)
        BY <1>1, <1>7, <2>3, <3>1 DEF Kill, TypeOK, Children
      <3>2. CASE SpawnWaitReap(t)
        BY <1>1, <1>7, <2>3, <3>2 DEF SpawnWaitReap, TypeOK
      <3>3. CASE WaitCall(t)
        BY <2>3, <3>3 DEF WaitCall
      <3>4. CASE RunningGet(t) \/ TerminateCall(t) \/ DestroyCall(t) \/ PollAgain(t) \/ Wait(t)
        <4>1. UNCHANGED child \/ \E pid : child' = [child EXCEPT ![pid] = Null]
          BY <3>4 DEF RunningGet, TerminateCall, DestroyCall, PollAgain, Wait, Polled, Reaped
        <4> QED BY <1>1, <1>7, <2>3, <4>1 DEF TypeOK
      <3> QED BY <2>3, <3>1, <3>2, <3>3, <3>4 DEF Moves
    <2> QED BY <2>1, <2>2, <2>3
  <1>8. AllSealed'
    BY <1>7 DEF AllSealed, Sealed, Ours
  <1> QED BY <1>4, <1>6, <1>8 DEF Lineage

LEMMA KernelLineage ==
  ASSUME IInv, Lineage, NEW p \in Pids, Kernel(p)
  PROVE  Lineage'
  <1>1. UNCHANGED <<files, cloexec, process, channel, call, spawned>>
    BY DEF Kernel, Exec, Exit, Die, objects
  <1>2. \A t \in Threads : OpenedEnds(t)' = OpenedEnds(t) /\ Mine(t)' = Mine(t)
    BY <1>1 DEF OpenedEnds, Mine, Holds, Streamed
  <1>3. Named' /\ Fresh' /\ Marks'
    BY <1>1, <1>2 DEF Lineage, Named, Fresh, Marks, Unmarked
  <1>4. child'[p].state # "forked" /\ \A q \in Pids \ {p} : child'[q] = child[q]
    BY DEF Kernel, Exec, Exit, Die, Ended, IInv, TypeOK
  <1>5. AllSealed'
    BY <1>4 DEF Lineage, AllSealed
  <1> QED BY <1>3, <1>5 DEF Lineage

LEMMA NextLineage ==
  ASSUME IInv, Descriptors, Lineage, [Next]_vars
  PROVE  Lineage'
  <1>1. TypeOK /\ AllShaped
    BY DEF IInv
  <1>2. CASE UNCHANGED vars
    <2>1. \A t \in Threads : OpenedEnds(t)' = OpenedEnds(t) /\ Mine(t)' = Mine(t)
      BY <1>2 DEF vars, objects, OpenedEnds, Mine, Holds, Streamed
    <2> QED BY <1>2, <2>1
            DEF vars, objects, Lineage, Named, Fresh, Marks, Unmarked, AllSealed
  <1>3. CASE \E p \in Pids : Kernel(p)
    BY <1>3, KernelLineage
  <1>4. CASE \E t \in Threads : Step(t) \/ CallOf(t)
    <2>1. PICK t \in Threads : Step(t) \/ CallOf(t)
      BY <1>4
    <2>2. CASE Moves(t)
      BY <2>2, SpawnLineage, MarkLineage, SteadyLineage
    <2>3. CASE Socketpair(t)
      BY <2>3, SocketpairLineage
    <2>4. CASE \E fds : Closes(t, fds)
      BY <2>4, ClosesLineage
    <2>5. Fails(t) \/ Publish(t) \/ DestroyClose(t) \/ StdinClose(t) \/ ChannelDestroy(t) =>
            \E fds : Closes(t, fds)
      BY <1>1, FailsDescriptors, PublishDescriptors, DestroyCloseDescriptors, StdinCloseDescriptors,
         ChannelDestroyDescriptors
    <2> QED BY <2>1, <2>2, <2>3, <2>4, <2>5 DEF Step, CallOf, Moves
  <1> QED BY <1>2, <1>3, <1>4 DEF Next

-----------------------------------------------------------------------------
(* What execve leaves.  A redirected stream holds an end of the child's    *)
(* own; everything else is as it was forked.                               *)
Emptied(c) == WithoutFds(c.table, {c.pairs[i][1] : i \in DOMAIN c.pairs})
After(c) == WithoutFds(Arranged(c), StillMarked(c))
Targets(c) == {r[2] : r \in Redirects(c)}

LEMMA ForkedPairs ==
  ASSUME NEW c \in Children, Len(c.pairs) = Len(Streams(c.kind))
  PROVE  /\ c.kind \in Kinds /\ DOMAIN c.pairs = 1 .. Len(Streams(c.kind))
         /\ \A i \in DOMAIN c.pairs : c.pairs[i][1] \in Fds /\ c.pairs[i][2] \in Fds
         /\ c.kind \in {"piped", "captured"} => DOMAIN c.pairs = {1, 2}
         /\ c.kind = "channel" => DOMAIN c.pairs = {1}
         /\ c.kind = "spawn_wait" => DOMAIN c.pairs = {}
  <1>1. c.kind \in Kinds /\ c.pairs \in Seq(Fds \X Fds)
    BY DEF Children
  <1>2. \A i \in DOMAIN c.pairs : c.pairs[i][1] \in Fds /\ c.pairs[i][2] \in Fds
    BY <1>1, OpenedEndsAre
  <1>3. DOMAIN c.pairs = 1 .. Len(Streams(c.kind))
    BY <1>1
  <1>4. /\ c.kind \in {"piped", "captured"} => Len(Streams(c.kind)) = 2
        /\ c.kind = "channel" => Len(Streams(c.kind)) = 1
        /\ c.kind = "spawn_wait" => Len(Streams(c.kind)) = 0
    BY DEF Streams
  <1> QED BY <1>1, <1>2, <1>3, <1>4

(* The redirections, descriptor by descriptor.                             *)
LEMMA RedirectedTable ==
  ASSUME NEW c \in Children, Len(c.pairs) = Len(Streams(c.kind)), NEW table \in Tables,
         NEW fd \in Fds
  PROVE  Redirected(c, table)[fd] =
           IF c.kind = "piped"
             THEN IF fd = 1 THEN IF c.pairs[2][2] = 0 THEN table[c.pairs[1][2]] ELSE table[c.pairs[2][2]]
                  ELSE IF fd = 0 THEN table[c.pairs[1][2]] ELSE table[fd]
             ELSE IF c.kind = "captured" /\ fd = 2 THEN table[c.pairs[2][2]] ELSE table[fd]
  <1>1. 0 \in Fds /\ 1 \in Fds /\ 2 \in Fds
    BY FdsAssumption DEF Fds
  <1>2. \A from, to \in Fds, t \in Tables, x \in Fds :
          Dup2(t, from, to) \in Tables /\ Dup2(t, from, to)[x] = IF x = to THEN t[from] ELSE t[x]
    BY DEF Dup2, Tables
  <1>3. CASE c.kind = "piped"
    <2> DEFINE a == c.pairs[1][2]
               b == c.pairs[2][2]
               once == Dup2(table, a, 0)
    <2>1. a \in Fds /\ b \in Fds
      BY <1>3, ForkedPairs
    <2> HIDE DEF a, b
    <2>2. once \in Tables /\ \A x \in Fds : once[x] = IF x = 0 THEN table[a] ELSE table[x]
      BY <1>1, <1>2, <2>1
    <2> HIDE DEF once
    <2>3. Dup2(once, b, 1)[fd] = IF fd = 1 THEN once[b] ELSE once[fd]
      BY <1>1, <1>2, <2>1, <2>2
    <2>4. Redirected(c, table) = Dup2(once, b, 1)
      BY <1>3 DEF Redirected, once, a, b
    <2> QED BY <1>1, <1>3, <2>1, <2>2, <2>3, <2>4 DEF a, b
  <1>4. CASE c.kind = "captured"
    <2> DEFINE a == c.pairs[2][2]
    <2>1. a \in Fds
      BY <1>4, ForkedPairs
    <2>2. Redirected(c, table) = Dup2(table, a, 2)
      BY <1>4 DEF Redirected
    <2> HIDE DEF a
    <2>3. Dup2(table, a, 2)[fd] = IF fd = 2 THEN table[a] ELSE table[fd]
      BY <1>1, <1>2, <2>1
    <2> QED BY <1>4, <2>2, <2>3 DEF a
  <1>5. CASE c.kind \notin {"piped", "captured"}
    BY <1>5 DEF Redirected
  <1> QED BY <1>3, <1>4, <1>5

LEMMA RedirectTargets ==
  ASSUME NEW c
  PROVE  /\ c.kind = "piped" => /\ Redirects(c) = {<<c.pairs[1][2], 0>>, <<c.pairs[2][2], 1>>}
                                /\ Targets(c) = {0, 1}
         /\ c.kind = "captured" => /\ Redirects(c) = {<<c.pairs[2][2], 2>>} /\ Targets(c) = {2}
         /\ c.kind \notin {"piped", "captured"} => Redirects(c) = {} /\ Targets(c) = {}
  <1>1. \A a, b : {r[2] : r \in {<<a, 0>>, <<b, 1>>}} = {0, 1}
    OBVIOUS
  <1>2. \A a : {r[2] : r \in {<<a, 2>>}} = {2}
    OBVIOUS
  <1>3. CASE c.kind = "piped"
    BY <1>1, <1>3 DEF Redirects, Targets
  <1>4. CASE c.kind = "captured"
    BY <1>2, <1>4 DEF Redirects, Targets
  <1>5. CASE c.kind \notin {"piped", "captured"}
    BY <1>5 DEF Redirects, Targets
  <1> QED BY <1>3, <1>4, <1>5

LEMMA ForeignEntries ==
  ASSUME NEW c \in Children, Len(c.pairs) = Len(Streams(c.kind)), Sealed(c), NEW fd \in Fds,
         After(c)[fd] # Null, After(c)[fd][1] # c.spawn
  PROVE  After(c)[fd] = c.table[fd] /\ fd \notin c.marked
  <1> DEFINE nears == {c.pairs[i][1] : i \in DOMAIN c.pairs}
             table == Emptied(c)
             moved == {r[1] : r \in {r \in Redirects(c) : r[1] # r[2]}}
  <1>1. table \in Tables /\ \A x \in Fds : table[x] = IF x \in nears THEN Null ELSE c.table[x]
    BY WithoutFdsTable DEF Children, Emptied, WithoutFds
  <1>2. \A x \in Fds : Arranged(c)[x] = IF x \in moved THEN Null ELSE Redirected(c, table)[x]
    BY DEF Arranged, Emptied, WithoutFds
  <1>3. After(c)[fd] = IF fd \in StillMarked(c) THEN Null ELSE Arranged(c)[fd]
    BY DEF After, WithoutFds
  <1>4. fd \notin StillMarked(c) /\ After(c)[fd] = Redirected(c, table)[fd]
    <2> HIDE DEF moved, table
    <2> QED BY <1>2, <1>3
  <1>5. ASSUME NEW i \in DOMAIN c.pairs
        PROVE  LET e == table[c.pairs[i][2]] IN e = Null \/ e[1] = c.spawn
    <2>1. c.pairs[i][2] \in Fds
      BY ForkedPairs
    <2>2. c.table[c.pairs[i][2]][1] = c.spawn
      <3>1. \A stream, side : End(c.spawn, stream, side)[1] = c.spawn
        BY DEF End
      <3> QED BY <3>1 DEF Sealed
    <2> HIDE DEF table, nears
    <2> QED BY <1>1, <2>1, <2>2
  <1> HIDE DEF table
  <1>6. fd \notin Targets(c) /\ Redirected(c, table)[fd] = table[fd]
    <2>1. CASE c.kind = "piped"
      <3>1. fd \notin {0, 1}
        BY <1>1, <1>4, <1>5, <2>1, RedirectedTable, ForkedPairs
      <3> QED BY <1>1, <2>1, <3>1, RedirectedTable, RedirectTargets
    <2>2. CASE c.kind = "captured"
      <3>1. fd # 2
        BY <1>1, <1>4, <1>5, <2>2, RedirectedTable, ForkedPairs
      <3> QED BY <1>1, <2>2, <3>1, RedirectedTable, RedirectTargets
    <2>3. CASE c.kind \notin {"piped", "captured"}
      BY <1>1, <2>3, RedirectedTable, RedirectTargets
    <2> QED BY <2>1, <2>2, <2>3
  <1>7. fd \notin nears /\ table[fd] = c.table[fd]
    BY <1>1, <1>4, <1>6
  <1>8. fd \notin c.marked
    BY <1>4, <1>6, <1>7 DEF StillMarked, Targets
  <1> QED BY <1>4, <1>6, <1>7, <1>8

(* What a child inherits of other children's pipes is at most the parent's *)
(* end of a stdin or stdout, unless another spawn was under way.           *)
ApartFor(c) ==
  ~c.crowded => \A fd \in Fds : c.table[fd] \notin {Null, Inherited} /\ c.table[fd][1] # c.spawn =>
    c.table[fd][2] \in {"stdin", "stdout"} /\ c.table[fd][3] = 0

LEMMA ExecApart ==
  ASSUME IInv, Lineage, NEW p \in Pids, Exec(p)
  PROVE  ApartFor(child'[p])
  <1> DEFINE c == child[p]
  <1>1. c \in Children /\ Len(c.pairs) = Len(Streams(c.kind)) /\ Sealed(c)
    BY DEF Exec, IInv, TypeOK, AllForked, Lineage, AllSealed
  <1>2. /\ child'[p].table = After(c) /\ child'[p].spawn = c.spawn /\ child'[p].crowded = c.crowded
        /\ child'[p].pairs = c.pairs /\ child'[p].kind = c.kind
    BY DEF Exec, After, IInv, TypeOK
  <1> HIDE DEF c
  <1>3. ASSUME ~c.crowded, NEW fd \in Fds, After(c)[fd] \notin {Null, Inherited},
               After(c)[fd][1] # c.spawn
        PROVE  After(c)[fd][2] \in {"stdin", "stdout"} /\ After(c)[fd][3] = 0
    BY <1>1, <1>3, ForeignEntries DEF Sealed
  <1> QED BY <1>2, <1>3 DEF ApartFor

(* Only execve makes a child run its program.                              *)
LEMMA NewlyRunning ==
  ASSUME IInv, [Next]_vars, NEW p \in Pids, Running(p)'
  PROVE  (Running(p) /\ child'[p] = child[p]) \/ Exec(p)
  <1>1. TypeOK /\ AllShaped /\ AllForked
    BY DEF IInv
  <1>2. CASE UNCHANGED vars
    BY <1>2 DEF vars, Running
  <1>3. CASE \E q \in Pids : Kernel(q)
    BY <1>1, <1>3 DEF Kernel, Exec, Exit, Die, Ended, Running, TypeOK
  <1>4. CASE \E t \in Threads : Step(t) \/ CallOf(t)
    <2>1. PICK t \in Threads : Step(t) \/ CallOf(t)
      BY <1>4
    <2>2. CASE Fork(t)
      BY <1>1, <2>2 DEF Fork, Running, TypeOK
    <2>3. CASE Kill(t)
      BY <1>1, <2>3 DEF Kill, Running, TypeOK, Children
    <2>4. CASE ~Fork(t) /\ ~Kill(t)
      <3>1. UNCHANGED child \/ \E pid : child' = [child EXCEPT ![pid] = Null]
        BY <2>1, <2>4
           DEF Step, CallOf, Socketpair, Mark, Fails, Abandon, Publish, PollAgain, Wait, DestroyClose,
               SpawnWaitReap, Spawn, RunningGet, WaitCall, TerminateCall, DestroyCall, StdinClose,
               ChannelDestroy, Polled, Reaped
      <3> QED BY <1>1, <3>1 DEF Running, TypeOK
    <2> QED BY <2>2, <2>3, <2>4
  <1> QED BY <1>2, <1>3, <1>4 DEF Next

LEMMA ApartIsApartFor ==
  Apart <=> \A p \in Pids : Running(p) => ApartFor(child[p])
  BY DEF Apart, ApartFor

LEMMA NextApart ==
  ASSUME IInv, Lineage, Apart, [Next]_vars
  PROVE  Apart'
  <1>1. ASSUME NEW p \in Pids, Running(p)'
        PROVE  ApartFor(child'[p])
    <2>1. CASE Running(p) /\ child'[p] = child[p]
      BY <2>1, ApartIsApartFor
    <2>2. CASE Exec(p)
      BY <2>2, ExecApart
    <2> QED BY <1>1, <2>1, <2>2, NewlyRunning
  <1> QED BY <1>1 DEF Apart, ApartFor

(* What a child inherits of other children's pipes is at most the parent's *)
(* end of a stdin or stdout, unless another spawn was under way at the     *)
(* fork.                                                                   *)
THEOREM LittleInherited == Spec => []Apart
  <1>1. Init => IInv /\ Descriptors /\ Lineage /\ Apart
    <2>1. Init => Apart
      BY DEF Init, Apart, Running
    <2> QED BY <2>1, InitInv, InitDescriptors, InitLineage
  <1>2. IInv /\ Descriptors /\ Lineage /\ Apart /\ [Next]_vars
          => (IInv /\ Descriptors /\ Lineage /\ Apart)'
    BY NextInv, NextDescriptors, NextLineage, NextApart
  <1> QED BY <1>1, <1>2, PTL DEF Spec

-----------------------------------------------------------------------------
(* While at most one standard descriptor is not the one the program was    *)
(* given, no far end has a standard number: the near end of its pair is    *)
(* the lower of the two.                                                   *)
OneOpen == \A a, b \in Standard : files[a] # Inherited /\ files[b] # Inherited => a = b
FarEnds == \A fd \in Fds : files[fd] # Null /\ files[fd][3] = 1 => fd \notin Standard

Clear(c) == \A i \in DOMAIN c.pairs : c.pairs[i][2] \notin Standard
AllClear == \A p \in Pids : child[p] # Null /\ child[p].state = "forked" => Clear(child[p])

Standards == OneOpen /\ FarEnds /\ AllClear

StandardFds ==
  Standard \subseteq Fds /\ Inherited # Null /\ Inherited[2] = "inherited" /\ Inherited[3] = 0

LEMMA StandardsAreFds == StandardFds
  <1>1. Standard \subseteq Fds
    BY FdsAssumption DEF Standard, Fds
  <1>2. Inherited \in Ends /\ Inherited[2] = "inherited" /\ Inherited[3] = 0
    BY DEF Inherited, Ends
  <1> QED BY <1>1, <1>2, NullIsNothing DEF StandardFds

LEMMA InitStandards ==
  ASSUME \A closed \in Closed : \A a, b \in closed \cap Standard : a = b, Init
  PROVE  Standards
  <1>1. PICK closed \in Closed :
          files = [fd \in Fds |-> IF fd \in Standard \ closed THEN Inherited ELSE Null]
    BY DEF Init
  <1>2. \A a \in Standard : files[a] # Inherited => a \in closed \cap Standard
    BY <1>1, StandardsAreFds DEF StandardFds
  <1>3. OneOpen
    BY <1>2 DEF OneOpen
  <1>4. FarEnds /\ AllClear
    BY <1>1, StandardsAreFds DEF StandardFds, FarEnds, AllClear, Init
  <1> QED BY <1>3, <1>4 DEF Standards

(* No step opens a far end at a standard number, or loses an inherited     *)
(* stream.                                                                 *)
LEMMA StandardsKept ==
  ASSUME IInv, Descriptors, Lineage, OneOpen, FarEnds,
         [Next]_vars
  PROVE  OneOpen' /\ FarEnds'
  <1>1. TypeOK /\ AllShaped
    BY DEF IInv
  <1>2. CASE UNCHANGED files
    BY <1>2 DEF OneOpen, FarEnds
  <1>3. CASE \E t \in Threads : \E fds : Closes(t, fds)
    <2>0. PICK t \in Threads : \E fds : Closes(t, fds)
      BY <1>3
    <2>1. PICK fds : Closes(t, fds)
      BY <2>0
    <2>2. \A fd \in Fds : files'[fd] = IF fd \in fds THEN Null ELSE files[fd]
      BY <2>1 DEF Closes, WithoutFds
    <2>3. \A fd \in fds : files[fd] # Inherited
      <3>1. \A fd \in fds : fd \in Mine(t) /\ files[fd] # Null
        BY <1>1, <2>1, MineAreOpen DEF Closes
      <3> QED BY <3>1, StandardsAreFds DEF Lineage, Named, StandardFds
    <2>4. OneOpen'
      BY <2>2, <2>3, StandardsAreFds DEF StandardFds, OneOpen
    <2>5. FarEnds'
      BY <2>2 DEF FarEnds
    <2> QED BY <2>4, <2>5
  <1>4. CASE \E t \in Threads : Socketpair(t)
    <2>1. PICK t \in Threads : Socketpair(t)
      BY <1>4
    <2> DEFINE stream == Streams(call[t].kind)[Len(call[t].pairs) + 1]
               E0 == End(call[t].spawn, stream, 0)
               E1 == End(call[t].spawn, stream, 1)
    <2>2. PICK near, far \in Fds :
            /\ near <= far /\ near # far /\ files[near] = Null /\ files[far] = Null
            /\ files' = [fd \in Fds |-> IF fd = near THEN E0 ELSE IF fd = far THEN E1 ELSE files[fd]]
      BY <1>1, <2>1, SocketpairDescriptors
    <2>3. E0[3] = 0
      BY DEF End
    <2> HIDE DEF E0, E1
    <2>4. far \notin Standard
      <3>1. far \in Standard => near \in Standard
        BY <2>2 DEF Standard, Fds
      <3> QED BY <2>2, <3>1, StandardsAreFds DEF StandardFds, OneOpen
    <2>5. OneOpen'
      <3>1. \A a \in Standard : files'[a] # Inherited => files[a] # Inherited
        BY <2>2, StandardsAreFds DEF StandardFds
      <3> QED BY <3>1 DEF OneOpen
    <2>6. FarEnds'
      BY <2>2, <2>3, <2>4 DEF FarEnds
    <2> QED BY <2>5, <2>6
  <1>5. UNCHANGED files \/ (\E t \in Threads : \E fds : Closes(t, fds)) \/ \E t \in Threads : Socketpair(t)
    <2>1. CASE UNCHANGED vars \/ \E p \in Pids : Kernel(p)
      BY <2>1 DEF vars, Kernel, Exec, Exit, Die
    <2>2. CASE \E t \in Threads : Step(t) \/ CallOf(t)
      <3>1. PICK t \in Threads : Step(t) \/ CallOf(t)
        BY <2>2
      <3>2. Fails(t) \/ Publish(t) \/ DestroyClose(t) \/ StdinClose(t) \/ ChannelDestroy(t) =>
              \E fds : Closes(t, fds)
        BY <1>1, FailsDescriptors, PublishDescriptors, DestroyCloseDescriptors, StdinCloseDescriptors,
           ChannelDestroyDescriptors
      <3>3. Moves(t) => UNCHANGED files
        BY <1>1, MovedCalls
      <3> QED BY <3>1, <3>2, <3>3 DEF Step, CallOf, Moves
    <2> QED BY <2>1, <2>2 DEF Next
  <1> QED BY <1>2, <1>3, <1>4, <1>5

(* Only fork makes a child that has not executed its program.              *)
LEMMA NewlyForked ==
  ASSUME IInv, [Next]_vars, NEW p \in Pids, child'[p] # Null, child'[p].state = "forked",
         child'[p] # child[p]
  PROVE  \E t \in Threads : Fork(t) /\ child'[p].pairs = call[t].pairs
  <1>1. TypeOK /\ AllShaped /\ AllForked
    BY DEF IInv
  <1>2. CASE UNCHANGED vars
    BY <1>2 DEF vars
  <1>3. CASE \E q \in Pids : Kernel(q)
    BY <1>1, <1>3 DEF Kernel, Exec, Exit, Die, Ended, TypeOK
  <1>4. CASE \E t \in Threads : Step(t) \/ CallOf(t)
    <2>1. PICK t \in Threads : Step(t) \/ CallOf(t)
      BY <1>4
    <2>2. CASE Fork(t)
      BY <1>1, <2>2 DEF Fork, TypeOK
    <2>3. CASE Kill(t)
      BY <1>1, <2>3 DEF Kill, TypeOK, Children
    <2>4. CASE ~Fork(t) /\ ~Kill(t)
      <3>1. UNCHANGED child \/ \E pid : child' = [child EXCEPT ![pid] = Null]
        BY <2>1, <2>4
           DEF Step, CallOf, Socketpair, Mark, Fails, Abandon, Publish, PollAgain, Wait, DestroyClose,
               SpawnWaitReap, Spawn, RunningGet, WaitCall, TerminateCall, DestroyCall, StdinClose,
               ChannelDestroy, Polled, Reaped
      <3> QED BY <1>1, <3>1 DEF TypeOK
    <2> QED BY <2>2, <2>3, <2>4
  <1> QED BY <1>2, <1>3, <1>4 DEF Next

LEMMA NextStandards ==
  ASSUME IInv, Descriptors, Lineage, Standards, [Next]_vars
  PROVE  Standards'
  <1>1. OneOpen' /\ FarEnds'
    BY StandardsKept DEF Standards
  <1>2. ASSUME NEW p \in Pids, child'[p] # Null, child'[p].state = "forked"
        PROVE  Clear(child'[p])
    <2>1. CASE child'[p] = child[p]
      BY <1>2, <2>1 DEF Standards, AllClear
    <2>2. CASE child'[p] # child[p]
      <3>1. PICK t \in Threads : child'[p].pairs = call[t].pairs
        BY <1>2, <2>2, NewlyForked
      <3>2. ASSUME NEW i \in DOMAIN call[t].pairs
            PROVE  call[t].pairs[i][2] \notin Standard
        <4>1. /\ files[call[t].pairs[i][2]] = End(call[t].spawn, Streams(call[t].kind)[i], 1)
              /\ End(call[t].spawn, Streams(call[t].kind)[i], 1) # Null
              /\ call[t].pairs[i][2] \in Fds
          BY PairsAreStreams, NullIsNothing DEF IInv, Descriptors, SpawnEnds
        <4>2. End(call[t].spawn, Streams(call[t].kind)[i], 1)[3] = 1
          BY DEF End
        <4> QED BY <4>1, <4>2 DEF Standards, FarEnds
      <3> QED BY <3>1, <3>2 DEF Clear
    <2> QED BY <2>1, <2>2
  <1>3. AllClear'
    BY <1>2 DEF AllClear, Clear
  <1> QED BY <1>1, <1>3 DEF Standards

-----------------------------------------------------------------------------
(* The child's own ends after execve.                                      *)
Moved(c) == {r[1] : r \in {r \in Redirects(c) : r[1] # r[2]}}

LEMMA AfterTable ==
  ASSUME NEW c \in Children
  PROVE  /\ Emptied(c) \in Tables
         /\ \A fd \in Fds :
              /\ Emptied(c)[fd] = IF fd \in {c.pairs[i][1] : i \in DOMAIN c.pairs} THEN Null
                                  ELSE c.table[fd]
              /\ After(c)[fd] = IF fd \in StillMarked(c) \cup Moved(c) THEN Null
                                ELSE Redirected(c, Emptied(c))[fd]
  <1>1. /\ Emptied(c) \in Tables
        /\ \A fd \in Fds : Emptied(c)[fd] = IF fd \in {c.pairs[i][1] : i \in DOMAIN c.pairs} THEN Null
                                            ELSE c.table[fd]
    BY WithoutFdsTable DEF Children, Emptied, WithoutFds
  <1>2. \A fd \in Fds : Arranged(c)[fd] = IF fd \in Moved(c) THEN Null ELSE Redirected(c, Emptied(c))[fd]
    BY DEF Arranged, Emptied, Moved, WithoutFds
  <1>3. \A fd \in Fds : After(c)[fd] = IF fd \in StillMarked(c) THEN Null ELSE Arranged(c)[fd]
    BY DEF After, WithoutFds
  <1> QED BY <1>1, <1>2, <1>3

(* The far ends are open in the child, distinct, and neither closed nor    *)
(* marked by it.                                                           *)
LEMMA FarEndsStay ==
  ASSUME NEW c \in Children, Len(c.pairs) = Len(Streams(c.kind)), Sealed(c),
         NEW i \in DOMAIN c.pairs
  PROVE  LET far == c.pairs[i][2] IN
         /\ far \in Fds /\ far \notin c.marked /\ far \notin StillMarked(c)
         /\ Emptied(c)[far] = End(c.spawn, Streams(c.kind)[i], 1)
         /\ End(c.spawn, Streams(c.kind)[i], 1) # Null
         /\ \A j \in DOMAIN c.pairs : j # i => c.pairs[j][2] # far
  <1> DEFINE far == c.pairs[i][2]
             S == Streams(c.kind)
  <1>1. /\ far \in Fds /\ \A j \in DOMAIN c.pairs :
             /\ c.table[c.pairs[j][1]] = End(c.spawn, S[j], 0)
             /\ c.table[c.pairs[j][2]] = End(c.spawn, S[j], 1)
    BY ForkedPairs DEF Sealed
  <1>2. \A stream, side : End(c.spawn, stream, side)[3] = side /\ End(c.spawn, stream, side)[2] = stream
    BY DEF End
  <1>3. far \notin {c.pairs[j][1] : j \in DOMAIN c.pairs}
    <2> SUFFICES ASSUME NEW j \in DOMAIN c.pairs, far = c.pairs[j][1]
                 PROVE  FALSE
      OBVIOUS
    <2>1. End(c.spawn, S[j], 0) = End(c.spawn, S[i], 1)
      BY <1>1
    <2> QED BY <1>2, <2>1
  <1>4. far \notin c.marked
    <2>1. c.table[far][3] = 1
      BY <1>1, <1>2
    <2> QED BY <2>1 DEF Sealed
  <1>5. far \notin StillMarked(c)
    BY <1>4 DEF StillMarked
  <1>6. Emptied(c)[far] = End(c.spawn, S[i], 1)
    BY <1>1, <1>3, AfterTable
  <1>7. c.kind \in Kinds /\ i \in DOMAIN S /\ DOMAIN c.pairs = DOMAIN S
    BY ForkedPairs, StreamsLength
  <1>8. \A j, k \in DOMAIN S : S[j] = S[k] => j = k
    BY <1>7 DEF Kinds, Streams
  <1>9. ASSUME NEW j \in DOMAIN c.pairs, j # i, c.pairs[j][2] = far
        PROVE  FALSE
    <2>1. End(c.spawn, S[j], 1) = End(c.spawn, S[i], 1)
      BY <1>1, <1>9
    <2>2. S[j] = S[i]
      BY <1>2, <2>1
    <2> QED BY <1>7, <1>8, <1>9, <2>2
  <1>10. End(c.spawn, S[i], 1) # Null
    <2>1. S[i] \in {"stdin", "stdout", "stderr", "channel"}
      BY <1>7 DEF Kinds, Streams
    <2>2. c.spawn \in Nat
      BY DEF Children
    <2>3. End(c.spawn, S[i], 1) \in Ends
      BY <2>1, <2>2 DEF End, Ends
    <2> QED BY <2>3, NullIsNothing
  <1> QED BY <1>1, <1>4, <1>5, <1>6, <1>9, <1>10

(* Its own ends are elsewhere only where they were opened and not moved.   *)
LEMMA OwnEntries ==
  ASSUME NEW c \in Children, Len(c.pairs) = Len(Streams(c.kind)), Sealed(c), NEW fd \in Fds,
         After(c)[fd] # Null, After(c)[fd][1] = c.spawn, fd \notin Targets(c)
  PROVE  fd \notin Moved(c) /\ \E i \in DOMAIN c.pairs : fd = c.pairs[i][2]
  <1>1. fd \notin Moved(c) /\ After(c)[fd] = Redirected(c, Emptied(c))[fd]
    BY AfterTable
  <1>2. Redirected(c, Emptied(c))[fd] = Emptied(c)[fd]
    <2>1. CASE c.kind = "piped"
      BY <2>1, AfterTable, RedirectedTable, RedirectTargets
    <2>2. CASE c.kind = "captured"
      BY <2>2, AfterTable, RedirectedTable, RedirectTargets
    <2>3. CASE c.kind \notin {"piped", "captured"}
      BY <2>3, AfterTable, RedirectedTable
    <2> QED BY <2>1, <2>2, <2>3
  <1>3. fd \notin {c.pairs[i][1] : i \in DOMAIN c.pairs} /\ Emptied(c)[fd] = c.table[fd]
    BY <1>1, <1>2, AfterTable
  <1>4. fd \in Ours(c)
    BY <1>1, <1>2, <1>3 DEF Sealed
  <1> QED BY <1>1, <1>3, <1>4 DEF Ours

WiredFor(c) ==
  {<<fd, c.table[fd]>> : fd \in {fd \in Fds : c.table[fd] # Null /\ c.table[fd][1] = c.spawn}}
    = Places(c)

(* The program finds its ends where the call promises them and nowhere     *)
(* else.                                                                   *)
LEMMA AfterPlaces ==
  ASSUME NEW c \in Children, Len(c.pairs) = Len(Streams(c.kind)), Sealed(c), Clear(c)
  PROVE  {<<fd, After(c)[fd]>> : fd \in {fd \in Fds : After(c)[fd] # Null /\ After(c)[fd][1] = c.spawn}}
           = Places(c)
  <1> DEFINE T == After(c)
             own == {fd \in Fds : T[fd] # Null /\ T[fd][1] = c.spawn}
             far(i) == c.pairs[i][2]
             E(stream) == End(c.spawn, stream, 1)
  <1>1. c.kind \in Kinds /\ 0 \in Fds /\ 1 \in Fds /\ 2 \in Fds
    BY FdsAssumption DEF Fds, Children
  <1>2. \A i \in DOMAIN c.pairs : far(i) \notin {0, 1, 2}
    BY DEF Clear, Standard
  <1>3. \A fd \in Fds : T[fd] = IF fd \in StillMarked(c) \cup Moved(c) THEN Null
                                ELSE Redirected(c, Emptied(c))[fd]
    BY AfterTable
  <1>4. \A stream : E(stream)[1] = c.spawn
    BY DEF End
  <1>5. \A fd \in own : fd \notin Targets(c) =>
          fd \notin Moved(c) /\ \E i \in DOMAIN c.pairs : fd = far(i)
    BY OwnEntries
  <1>6. \A fd \in Targets(c) : fd \notin StillMarked(c)
    BY DEF Targets, StillMarked
  <1>7. \A i \in DOMAIN c.pairs : /\ far(i) \in Fds /\ far(i) \notin StillMarked(c)
                                  /\ Emptied(c)[far(i)] = E(Streams(c.kind)[i])
                                  /\ E(Streams(c.kind)[i]) # Null
    BY FarEndsStay
  <1> HIDE DEF E, T
  <1>8. ASSUME c.kind = "piped"
        PROVE  own = {0, 1} /\ T[0] = E("stdin") /\ T[1] = E("stdout")
    <2>1. DOMAIN c.pairs = {1, 2} /\ Streams(c.kind)[1] = "stdin" /\ Streams(c.kind)[2] = "stdout"
      BY <1>8, ForkedPairs DEF Streams
    <2>2. Targets(c) = {0, 1} /\ Moved(c) = {far(1), far(2)}
      <3>1. Redirects(c) = {<<far(1), 0>>, <<far(2), 1>>} /\ Targets(c) = {0, 1}
        BY <1>8, RedirectTargets
      <3>2. far(1) # 0 /\ far(2) # 1
        BY <1>2, <2>1
      <3>3. \A r \in Redirects(c) : r[1] # r[2]
        BY <3>1, <3>2
      <3> HIDE DEF far
      <3>4. Moved(c) = {r[1] : r \in Redirects(c)}
        BY <3>3 DEF Moved
      <3> QED BY <3>1, <3>4
    <2>3. Redirected(c, Emptied(c))[0] = E("stdin") /\ Redirected(c, Emptied(c))[1] = E("stdout")
      BY <1>1, <1>2, <1>7, <1>8, <2>1, RedirectedTable, AfterTable
    <2> HIDE DEF far
    <2>4. T[0] = E("stdin") /\ T[1] = E("stdout")
      BY <1>1, <1>2, <1>3, <1>6, <2>1, <2>2, <2>3
    <2>5. E("stdin") # Null /\ E("stdout") # Null
      BY <1>7, <2>1
    <2>6. 0 \in own /\ 1 \in own
      BY <1>1, <1>4, <2>4, <2>5
    <2> HIDE DEF own
    <2> QED BY <1>5, <2>1, <2>2, <2>4, <2>6
  <1>9. ASSUME c.kind = "captured"
        PROVE  own = {far(1), 2} /\ T[far(1)] = E("channel") /\ T[2] = E("stderr")
    <2>1. DOMAIN c.pairs = {1, 2} /\ Streams(c.kind)[1] = "channel" /\ Streams(c.kind)[2] = "stderr"
      BY <1>9, ForkedPairs DEF Streams
    <2>2. far(1) # far(2)
      BY <2>1, FarEndsStay
    <2>3. Targets(c) = {2} /\ Moved(c) = {far(2)}
      <3>1. Redirects(c) = {<<far(2), 2>>} /\ Targets(c) = {2}
        BY <1>9, RedirectTargets
      <3>2. far(2) # 2
        BY <1>2, <2>1
      <3>3. \A r \in Redirects(c) : r[1] # r[2]
        BY <3>1, <3>2
      <3> HIDE DEF far
      <3>4. Moved(c) = {r[1] : r \in Redirects(c)}
        BY <3>3 DEF Moved
      <3> QED BY <3>1, <3>4
    <2>4. /\ Redirected(c, Emptied(c))[2] = E("stderr")
          /\ Redirected(c, Emptied(c))[far(1)] = E("channel")
      BY <1>1, <1>2, <1>7, <1>9, <2>1, RedirectedTable, AfterTable
    <2> HIDE DEF far
    <2>5. T[far(1)] = E("channel") /\ T[2] = E("stderr")
      BY <1>1, <1>2, <1>3, <1>6, <1>7, <2>1, <2>2, <2>3, <2>4
    <2>6. E("channel") # Null /\ E("stderr") # Null
      BY <1>7, <2>1
    <2>7. far(1) \in own /\ 2 \in own
      BY <1>1, <1>4, <1>7, <2>1, <2>5, <2>6
    <2> HIDE DEF own
    <2> QED BY <1>5, <2>1, <2>3, <2>5, <2>7
  <1>10. ASSUME c.kind = "channel"
         PROVE  own = {far(1)} /\ T[far(1)] = E("channel")
    <2>1. DOMAIN c.pairs = {1} /\ Streams(c.kind)[1] = "channel"
      BY <1>10, ForkedPairs DEF Streams
    <2>2. Targets(c) = {} /\ Moved(c) = {}
      BY <1>10, RedirectTargets DEF Moved
    <2>3. Redirected(c, Emptied(c))[far(1)] = E("channel")
      BY <1>7, <1>10, <2>1, RedirectedTable, AfterTable
    <2> HIDE DEF far
    <2>4. T[far(1)] = E("channel")
      BY <1>3, <1>7, <2>1, <2>2, <2>3
    <2>5. far(1) \in own
      BY <1>4, <1>7, <2>1, <2>4
    <2> HIDE DEF own
    <2> QED BY <1>5, <2>1, <2>2, <2>4, <2>5
  <1>11. ASSUME c.kind = "spawn_wait"
         PROVE  own = {}
    BY <1>5, <1>11, ForkedPairs, RedirectTargets
  <1>12. {<<fd, T[fd]>> : fd \in own} = Places(c)
    <2> HIDE DEF own
    <2>1. CASE c.kind = "piped"
      BY <1>8, <2>1 DEF Places, E
    <2>2. CASE c.kind = "captured"
      BY <1>9, <2>2 DEF Places, E
    <2>3. CASE c.kind = "channel"
      BY <1>10, <2>3 DEF Places, E
    <2>4. CASE c.kind = "spawn_wait"
      BY <1>11, <2>4 DEF Places
    <2> QED BY <1>1, <2>1, <2>2, <2>3, <2>4 DEF Kinds
  <1> QED BY <1>12 DEF T

LEMMA WiredIsWiredFor ==
  Wired <=> \A p \in Pids : Running(p) => WiredFor(child[p])
  BY DEF Wired, WiredFor

LEMMA NextWired ==
  ASSUME IInv, Lineage, Standards, Wired, [Next]_vars
  PROVE  Wired'
  <1>1. ASSUME NEW p \in Pids, Running(p)'
        PROVE  WiredFor(child'[p])
    <2>1. CASE Running(p) /\ child'[p] = child[p]
      BY <2>1, WiredIsWiredFor
    <2>2. CASE Exec(p)
      <3> DEFINE c == child[p]
      <3>1. /\ c \in Children /\ Len(c.pairs) = Len(Streams(c.kind))
            /\ Sealed(c) /\ Clear(c)
        BY <2>2 DEF Exec, IInv, TypeOK, AllForked, Lineage, AllSealed, Standards, AllClear
      <3>2. /\ child'[p].table = After(c) /\ child'[p].spawn = c.spawn
            /\ child'[p].pairs = c.pairs /\ child'[p].kind = c.kind
        BY <2>2 DEF Exec, After, IInv, TypeOK
      <3>3. Places(child'[p]) = Places(c)
        BY <3>2 DEF Places
      <3> HIDE DEF c
      <3> QED BY <3>1, <3>2, <3>3, AfterPlaces DEF WiredFor
    <2> QED BY <1>1, <2>1, <2>2, NewlyRunning
  <1> QED BY <1>1 DEF Wired, WiredFor

(* The child's program finds the far ends where the call promises them,    *)
(* each once, and no other end of its own pipes, when at most one of the   *)
(* standard descriptors was closed at the start.                           *)
THEOREM WiredAsPromised ==
  ASSUME \A closed \in Closed : \A a, b \in closed \cap Standard : a = b
  PROVE  Spec => []Wired
  <1>1. Init => IInv /\ Descriptors /\ Lineage /\ Standards /\ Wired
    <2>1. Init => Wired
      BY DEF Init, Wired, Running
    <2> QED BY <2>1, InitInv, InitDescriptors, InitLineage, InitStandards
  <1>2. IInv /\ Descriptors /\ Lineage /\ Standards /\ Wired /\ [Next]_vars
          => (IInv /\ Descriptors /\ Lineage /\ Standards /\ Wired)'
    BY NextInv, NextDescriptors, NextLineage, NextStandards, NextWired
  <1> QED BY <1>1, <1>2, PTL DEF Spec
=============================================================================
