--------------------------- MODULE LibraryProofs ---------------------------
(***************************************************************************)
(* Proofs about the parts that Library instantiates, for every value of    *)
(* its constants: a part's invariant is inductive, and the poller's arrays *)
(* implement the registry of the contract.                                 *)
(***************************************************************************)
EXTENDS Library, FiniteSetTheorems, TLAPS

-----------------------------------------------------------------------------
(* Between the two statements of a release the flag may be set, and nobody *)
(* is there to set it again after the second.                              *)
SigInv ==
  /\ Signal!TypeOK
  /\ ~sigInstalled /\ sigReceived => sigAt = "release"

LEMMA SigStep ==
  ASSUME SigInv, [Signal!Next]_sigVars
  PROVE  SigInv'
  <1> USE DEF SigInv, Signal!TypeOK, Signal!Calls
  <1>1. CASE Signal!Handler
    BY <1>1 DEF Signal!Handler
  <1>2. CASE Signal!Capture \/ Signal!Clear
    BY <1>2 DEF Signal!Capture, Signal!Clear
  <1>3. CASE Signal!CaptureInstall
    BY <1>3 DEF Signal!CaptureInstall
  <1>4. CASE Signal!Release
    BY <1>4 DEF Signal!Release
  <1>5. CASE Signal!ReleaseClear \/ Signal!ExchangeClear
    BY <1>5 DEF Signal!ReleaseClear, Signal!ExchangeClear
  <1>6. CASE Signal!Exchange
    BY <1>6 DEF Signal!Exchange
  <1>7. CASE UNCHANGED sigVars
    BY <1>7 DEF sigVars
  <1> QED BY <1>1, <1>2, <1>3, <1>4, <1>5, <1>6, <1>7 DEF Signal!Next

(* Quiet: a release leaves no signal behind, one that arrives between its  *)
(* two statements included.                                                *)
THEOREM ReleaseIsQuiet == Signal!Spec => []Quiet
  <1>1. Signal!Init => SigInv
    BY DEF Signal!Init, SigInv, Signal!TypeOK, Signal!Calls
  <1>2. SigInv /\ [Signal!Next]_sigVars => SigInv'
    BY SigStep
  <1>3. SigInv => Quiet
    BY DEF SigInv, Quiet, Signal!Quiet
  <1> QED BY <1>1, <1>2, <1>3, PTL DEF Signal!Spec, Signal!vars, sigVars

-----------------------------------------------------------------------------
(* The kernel counts opened counters and the reader's event, no others.    *)
CntInv ==
  /\ cntOpened \subseteq Counter
  /\ cntDepth \in Nat
  /\ cntRunning \subseteq cntOpened \union {"reader"}
  /\ cntReader \in {"none", "on", "off"}
  /\ Paused

LEMMA CntStep ==
  ASSUME CntInv, [Counters!Next]_cntVars
  PROVE  CntInv'
  <1> USE CountersAssumption DEF CntInv, Paused, Counters!Paused
  <1>1. ASSUME NEW c \in Counter, Counters!Get(c)
        PROVE  CntInv'
    BY <1>1 DEF Counters!Get, Counters!OpensRunning
  <1>2. CASE Counters!Nest \/ Counters!Unnest
    BY <1>2 DEF Counters!Nest, Counters!Unnest
  <1>3. CASE Counters!Suspend
    BY <1>3 DEF Counters!Suspend, Counters!Disabled
  <1>4. CASE Counters!SuspendFails
    BY <1>4 DEF Counters!SuspendFails, Counters!Disabled, Counters!Enabled
  <1>5. CASE Counters!Resume
    BY <1>5 DEF Counters!Resume, Counters!Enabled
  <1>6. CASE Counters!ReaderCreate \/ Counters!ReaderDestroy
    BY <1>6 DEF Counters!ReaderCreate, Counters!ReaderDestroy
  <1>7. ASSUME NEW enabled \in BOOLEAN, Counters!ReaderEnabledSet(enabled)
        PROVE  CntInv'
    BY <1>7 DEF Counters!ReaderEnabledSet
  <1>8. CASE UNCHANGED cntVars
    BY <1>8 DEF cntVars
  <1> QED BY <1>1, <1>2, <1>3, <1>4, <1>5, <1>6, <1>7, <1>8 DEF Counters!Next

(* Paused: whatever ioctl fails, counters count exactly when nothing is    *)
(* suspended and the kernel started them, and readers are left alone.      *)
THEOREM CountersPause == Counters!Spec => []Paused
  <1>1. Counters!Init => CntInv
    BY DEF Counters!Init, CntInv, Paused, Counters!Paused
  <1>2. CntInv /\ [Counters!Next]_cntVars => CntInv'
    BY CntStep
  <1>3. CntInv => Paused
    BY DEF CntInv
  <1> QED BY <1>1, <1>2, <1>3, PTL DEF Counters!Spec, Counters!vars, cntVars

-----------------------------------------------------------------------------
(* The bytes of a sequence are those after the first k, in order.          *)
Numbered(s, k) == s \in Seq(Nat) /\ \A i \in 1 .. Len(s) : s[i] = k + i

LEMMA Parts ==
  ASSUME NEW s, NEW k \in Nat, Numbered(s, k), NEW n \in 1 .. Len(s)
  PROVE  /\ Numbered(Streams!Take(s, n), k)
         /\ Len(Streams!Take(s, n)) = n
         /\ Numbered(Streams!DropFirst(s, n), k + n)
         /\ Len(Streams!DropFirst(s, n)) = Len(s) - n
  BY DEF Numbered, Streams!Take, Streams!DropFirst

LEMMA Joined ==
  ASSUME NEW s, NEW t, NEW k \in Nat, Numbered(s, k), Numbered(t, k + Len(s))
  PROVE  /\ Numbered(s \o t, k)
         /\ Len(s \o t) = Len(s) + Len(t)
  BY DEF Numbered

LEMMA Least ==
  ASSUME NEW a \in Int, NEW b \in Int, NEW n \in 1 .. Streams!Min({a, b})
  PROVE  n \in 1 .. a
  <1>1. \E x \in {a, b} : \A y \in {a, b} : x =< y
    OBVIOUS
  <1>2. Streams!Min({a, b}) \in {a, b} /\ \A y \in {a, b} : Streams!Min({a, b}) =< y
    BY <1>1 DEF Streams!Min
  <1> QED BY <1>2

(* Bytes that have left the writing thread.                                *)
Sent == Len(strReceived) + Len(strStdout) + Len(strHeld) + Len(strStdin)

(* What is under way are consecutive pieces of what was offered, and as    *)
(* long as the child runs nothing is missing between them.                 *)
StrInv ==
  /\ strOffered \in Nat
  /\ strAccepted \in Nat
  /\ Numbered(strReceived, 0)
  /\ Numbered(strStdout, Len(strReceived))
  /\ Numbered(strHeld, Len(strReceived) + Len(strStdout))
  /\ Numbered(strStdin, Len(strReceived) + Len(strStdout) + Len(strHeld))
  /\ strWriting \in Seq(Nat)
  /\ strAlive => Numbered(strWriting, Sent) /\ Sent + Len(strWriting) = strOffered
  /\ strAccepted <= Sent
  /\ strEof => ~strAlive /\ strStdout = << >>

LEMMA WriteStep ==
  ASSUME StrInv, NEW n \in WriteLengths, Streams!Write(n)
  PROVE  StrInv'
  <1>1. n \in Nat
    BY StreamsAssumption
  <1>2. strOffered \in Nat /\ strWriting' = [i \in 1 .. n |-> strOffered + i]
    BY DEF StrInv, Streams!Write
  <1>3. Numbered(strWriting', strOffered) /\ Len(strWriting') = n
    BY <1>1, <1>2 DEF Numbered
  <1>4. strOffered' = strOffered + n /\ strWriting = << >>
    BY DEF Streams!Write
  <1>5. Sent \in Nat /\ (strAlive => Sent = strOffered)
    BY <1>4 DEF StrInv, Sent, Numbered
  <1>6. UNCHANGED <<strAccepted, strStdin, strHeld, strReceived, strStdout, strAlive, strEof>>
    BY DEF Streams!Write
  <1>7. Sent' = Sent
    BY <1>6 DEF Sent
  <1>8. strAlive => Numbered(strWriting', Sent) /\ Sent + Len(strWriting') = strOffered'
    BY <1>3, <1>4, <1>5
  <1>9. strWriting' \in Seq(Nat) /\ strOffered' \in Nat
    BY <1>1, <1>2, <1>3, <1>4 DEF Numbered
  <1> QED BY <1>6, <1>7, <1>8, <1>9 DEF StrInv

LEMMA SendStep ==
  ASSUME StrInv, NEW n, Streams!Send(n)
  PROVE  StrInv'
  <1>1. strWriting \in Seq(Nat) /\ Numbered(strWriting, Sent) /\ Sent \in Nat
    BY DEF StrInv, Streams!Send, Sent, Numbered
  <1>2. n \in 1 .. Len(strWriting)
    <2>1. Len(strWriting) \in Int /\ SocketRoom - Len(strStdin) \in Int
      BY StreamsAssumption DEF StrInv, Numbered
    <2> QED BY <2>1, Least DEF Streams!Send, Streams!Room1
  <1>3. /\ Numbered(strStdin', Len(strReceived) + Len(strStdout) + Len(strHeld))
        /\ Len(strStdin') = Len(strStdin) + n
    <2> DEFINE k == Len(strReceived) + Len(strStdout) + Len(strHeld)
    <2>1. k \in Nat /\ Numbered(strStdin, k) /\ Sent = k + Len(strStdin)
      BY DEF StrInv, Numbered, Sent
    <2>2. Numbered(Streams!Take(strWriting, n), k + Len(strStdin)) /\ Len(Streams!Take(strWriting, n)) = n
      BY <1>1, <1>2, <2>1, Parts
    <2> HIDE DEF k
    <2>3. Numbered(strStdin', k) /\ Len(strStdin') = Len(strStdin) + n
      BY <2>1, <2>2, Joined DEF Streams!Send
    <2> QED BY <2>3 DEF k
  <1>4. Numbered(strWriting', Sent + n) /\ Len(strWriting') = Len(strWriting) - n
    BY <1>1, <1>2, Parts DEF Streams!Send, Streams!Rest
  <1>5. Sent' = Sent + n
    BY <1>3 DEF Sent, Streams!Send, StrInv, Numbered
  <1>6. strAccepted' \in Nat /\ strAccepted' <= Sent'
    BY <1>1, <1>2, <1>5 DEF StrInv, Streams!Send
  <1>7. UNCHANGED <<strOffered, strHeld, strReceived, strStdout, strAlive, strEof>> /\ strAlive
    BY DEF Streams!Send
  <1>8. Sent' + Len(strWriting') = strOffered'
    <2>1. Sent \in Nat /\ Len(strWriting) \in Nat /\ Sent + Len(strWriting) = strOffered
      BY <1>7 DEF StrInv, Sent, Numbered
    <2> QED BY <1>2, <1>4, <1>5, <1>7, <2>1
  <1>9. strWriting' \in Seq(Nat) /\ Numbered(strWriting', Sent')
    BY <1>4, <1>5 DEF Numbered
  <1> QED BY <1>3, <1>6, <1>7, <1>8, <1>9 DEF StrInv

LEMMA ReadStep ==
  ASSUME StrInv, NEW n, Streams!Read(n)
  PROVE  StrInv'
  <1> DEFINE k == Len(strReceived)
  <1>1. k \in Nat /\ n \in 1 .. Len(strStdout) /\ Numbered(strStdout, k) /\ Numbered(strReceived, 0)
    BY DEF StrInv, Streams!Read, Numbered
  <1>2. /\ Numbered(Streams!Take(strStdout, n), 0 + k) /\ Len(Streams!Take(strStdout, n)) = n
        /\ Numbered(Streams!DropFirst(strStdout, n), k + n)
        /\ Len(Streams!DropFirst(strStdout, n)) = Len(strStdout) - n
    BY <1>1, Parts
  <1>3. Numbered(strReceived', 0) /\ Len(strReceived') = k + n
    BY <1>1, <1>2, Joined DEF Streams!Read
  <1>4. Numbered(strStdout', k + n) /\ Len(strStdout') = Len(strStdout) - n
    BY <1>2 DEF Streams!Read
  <1>5. Len(strReceived') + Len(strStdout') = Len(strReceived) + Len(strStdout)
    BY <1>1, <1>3, <1>4 DEF Numbered
  <1>6. UNCHANGED <<strOffered, strWriting, strAccepted, strStdin, strHeld, strAlive, strEof>>
    BY DEF Streams!Read
  <1>7. Sent' = Sent
    BY <1>5, <1>6 DEF Sent
  <1>8. ~strEof
    BY <1>1 DEF StrInv
  <1> QED BY <1>3, <1>4, <1>5, <1>6, <1>7, <1>8 DEF StrInv

LEMMA ChildReadStep ==
  ASSUME StrInv, Streams!ChildRead
  PROVE  StrInv'
  <1>1. PICK n \in 1 .. Len(strStdin) :
          strHeld' = Streams!Take(strStdin, n) /\ strStdin' = Streams!DropFirst(strStdin, n)
    BY DEF Streams!ChildRead
  <1> DEFINE k == Len(strReceived) + Len(strStdout)
  <1>2. k \in Nat /\ Len(strHeld) = 0 /\ Numbered(strStdin, k)
    BY DEF StrInv, Streams!ChildRead, Numbered
  <1>3. /\ Numbered(strHeld', k) /\ Len(strHeld') = n
        /\ Numbered(strStdin', k + n) /\ Len(strStdin') = Len(strStdin) - n
    BY <1>1, <1>2, Parts
  <1>4. UNCHANGED <<strOffered, strWriting, strAccepted, strReceived, strStdout, strAlive, strEof>>
    BY DEF Streams!ChildRead
  <1>5. Sent' = Sent
    BY <1>2, <1>3, <1>4 DEF Sent, Numbered
  <1> QED BY <1>3, <1>4, <1>5 DEF StrInv

LEMMA ChildWriteStep ==
  ASSUME StrInv, Streams!ChildWrite
  PROVE  StrInv'
  <1>1. PICK n \in 1 .. Streams!Min({Len(strHeld), Streams!Room1(strStdout)}) :
          strHeld' = Streams!DropFirst(strHeld, n) /\ strStdout' = strStdout \o Streams!Take(strHeld, n)
    BY DEF Streams!ChildWrite
  <1> DEFINE k == Len(strReceived)
  <1>2. k \in Nat /\ Numbered(strStdout, k) /\ k + Len(strStdout) \in Nat /\ Numbered(strHeld, k + Len(strStdout))
    BY DEF StrInv, Numbered
  <1>3. n \in 1 .. Len(strHeld)
    <2>1. Len(strHeld) \in Int /\ SocketRoom - Len(strStdout) \in Int
      BY StreamsAssumption DEF StrInv, Numbered
    <2> QED BY <1>1, <2>1, Least DEF Streams!Room1
  <1>4. /\ Numbered(Streams!Take(strHeld, n), k + Len(strStdout)) /\ Len(Streams!Take(strHeld, n)) = n
        /\ Numbered(strHeld', k + Len(strStdout) + n) /\ Len(strHeld') = Len(strHeld) - n
    BY <1>1, <1>2, <1>3, Parts
  <1>5. Numbered(strStdout', k) /\ Len(strStdout') = Len(strStdout) + n
    BY <1>1, <1>2, <1>4, Joined
  <1>6. Len(strStdout') + Len(strHeld') = Len(strStdout) + Len(strHeld)
    BY <1>2, <1>3, <1>4, <1>5 DEF Numbered
  <1>7. UNCHANGED <<strOffered, strWriting, strAccepted, strReceived, strStdin, strAlive, strEof>> /\ strAlive
    BY DEF Streams!ChildWrite
  <1>8. Sent' = Sent /\ k + Len(strStdout') + Len(strHeld') = k + Len(strStdout) + Len(strHeld)
    BY <1>2, <1>4, <1>5, <1>6, <1>7 DEF Sent, Numbered
  <1>9. Numbered(strHeld', k + Len(strStdout')) /\ ~strEof
    BY <1>2, <1>3, <1>4, <1>5, <1>7 DEF StrInv, Numbered
  <1> QED BY <1>5, <1>7, <1>8, <1>9 DEF StrInv

LEMMA StrStep ==
  ASSUME StrInv, [Streams!Next]_strVars
  PROVE  StrInv'
  <1>1. CASE Streams!SendFails
    BY <1>1 DEF Streams!SendFails, StrInv, Sent, Numbered
  <1>2. CASE Streams!StdinClose
    BY <1>2 DEF Streams!StdinClose, StrInv, Sent
  <1>3. CASE Streams!ReadEof
    BY <1>3 DEF Streams!ReadEof, StrInv, Sent
  <1>4. CASE Streams!ChildExit
    BY <1>4 DEF Streams!ChildExit, StrInv, Sent
  <1>5. CASE UNCHANGED strVars
    BY <1>5 DEF strVars, StrInv, Sent
  <1> QED BY <1>1, <1>2, <1>3, <1>4, <1>5, WriteStep, SendStep, ReadStep, ChildReadStep, ChildWriteStep
          DEF Streams!Next

(* Delivered: what the parent reads is what it wrote, in order and once,   *)
(* for every room of the sockets and every division of the calls.          *)
THEOREM BytesArrive == Streams!Spec => []Delivered
  <1>1. Streams!Init => StrInv
    BY DEF Streams!Init, StrInv, Sent, Numbered
  <1>2. StrInv /\ [Streams!Next]_strVars => StrInv'
    BY StrStep
  <1>3. StrInv => Delivered
    BY DEF StrInv, Delivered, Streams!Delivered, Sent, Numbered
  <1> QED BY <1>1, <1>2, <1>3, PTL DEF Streams!Spec, Streams!vars, strVars

-----------------------------------------------------------------------------
(* What the registry maps a handle to is what stands at its place.         *)
Records == [socket_handle : Handle, interests : Interest, user_data : Datum]

Distinct(s) ==
  \A i, j \in 1 .. Len(s) : s[i].socket_handle = s[j].socket_handle => i = j

Named(s) == {s[i].socket_handle : i \in 1 .. Len(s)}

Known(record) == [interests |-> record.interests, user_data |-> record.user_data]

WatchedIn(s) ==
  [h \in Named(s) |-> LET i == CHOOSE i \in {j \in 1 .. Len(s) : s[j].socket_handle = h} : TRUE
                      IN  Known(s[i])]

LEMMA WatchedAt ==
  ASSUME NEW s \in Seq(Records), Distinct(s), NEW i \in 1 .. Len(s)
  PROVE  WatchedIn(s)[s[i].socket_handle] = Known(s[i])
  <1> DEFINE h == s[i].socket_handle
             places == {j \in 1 .. Len(s) : s[j].socket_handle = h}
  <1>1. places = {i}
    BY DEF Distinct
  <1>2. (CHOOSE j \in places : TRUE) = i
    BY <1>1
  <1>3. h \in Named(s)
    BY DEF Named
  <1> QED BY <1>2, <1>3 DEF WatchedIn

LEMMA WatchedIs ==
  ASSUME NEW s \in Seq(Records), Distinct(s),
         NEW f, f = [h \in DOMAIN f |-> f[h]], DOMAIN f = Named(s),
         \A i \in 1 .. Len(s) : f[s[i].socket_handle] = Known(s[i])
  PROVE  f = WatchedIn(s)
  <1>1. ASSUME NEW h \in Named(s)
        PROVE  f[h] = WatchedIn(s)[h]
    <2>1. PICK i \in 1 .. Len(s) : h = s[i].socket_handle
      BY DEF Named
    <2>2. WatchedIn(s)[s[i].socket_handle] = Known(s[i])
      BY WatchedAt
    <2> QED BY <2>1, <2>2
  <1>2. WatchedIn(s) = [h \in Named(s) |-> WatchedIn(s)[h]]
    BY DEF WatchedIn
  <1> QED BY <1>1, <1>2

-----------------------------------------------------------------------------
(* The arrays are parallel, and the room the poller believes in is there.  *)
Fds == [fd : Handle, events : SUBSET {"READ", "WRITE"}]

PolInv ==
  /\ polItems \in Seq(Records)
  /\ polFds \in Seq(Fds)
  /\ polCapacity \in Nat \ {0}
  /\ polRoom \in [{"items", "poll_fds"} -> Nat]
  /\ Poller!Parallel

LEMMA Elements ==
  ASSUME NEW h \in Handle, NEW interests \in Interest, NEW data \in Datum
  PROVE  /\ Poller!Item(h, interests, data) \in Records
         /\ Poller!PollFd(h, interests) \in Fds
  BY DEF Poller!Item, Poller!PollFd, Records, Fds

LEMMA StoreParallel ==
  ASSUME PolInv, NEW h \in Handle, NEW interests \in Interest, NEW data \in Datum,
         Poller!At(h) = {}, Poller!Store(h, interests, data),
         polCapacity' \in Nat \ {0}, polRoom' \in [{"items", "poll_fds"} -> Nat],
         Len(polItems) < polCapacity', \A a \in DOMAIN polRoom' : polCapacity' <= polRoom'[a]
  PROVE  PolInv'
  <1> DEFINE item == Poller!Item(h, interests, data)
             fd == Poller!PollFd(h, interests)
             n == Len(polItems)
  <1>1. item \in Records /\ fd \in Fds /\ item.socket_handle = h /\ item.interests = interests
    BY Elements DEF Poller!Item
  <1>2. /\ polItems \in Seq(Records) /\ polFds \in Seq(Fds) /\ n \in Nat /\ Len(polFds) = n
        /\ \A i \in 1 .. n : polFds[i] = Poller!PollFd(polItems[i].socket_handle, polItems[i].interests)
        /\ \A i, j \in 1 .. n : polItems[i].socket_handle = polItems[j].socket_handle => i = j
    BY DEF PolInv, Poller!Parallel, Poller!Indices, Poller!count
  <1>3. \A i \in 1 .. n : polItems[i].socket_handle # h
    BY DEF Poller!At, Poller!Indices, Poller!count
  <1>4. polItems' = Append(polItems, item) /\ polFds' = Append(polFds, fd)
    BY DEF Poller!Store
  <1>5. fd = Poller!PollFd(item.socket_handle, item.interests)
    BY <1>1
  <1> HIDE DEF item, fd
  <1>6. /\ polItems' \in Seq(Records) /\ Len(polItems') = n + 1
        /\ polFds' \in Seq(Fds) /\ Len(polFds') = n + 1
    BY <1>1, <1>2, <1>4
  <1>7. /\ \A i \in 1 .. n : polItems'[i] = polItems[i] /\ polFds'[i] = polFds[i]
        /\ polItems'[n + 1] = item /\ polFds'[n + 1] = fd
    BY <1>1, <1>2, <1>4
  <1>8. \A i \in 1 .. n + 1 : polFds'[i] = Poller!PollFd(polItems'[i].socket_handle, polItems'[i].interests)
    BY <1>2, <1>5, <1>7
  <1>9. \A i, j \in 1 .. n + 1 : polItems'[i].socket_handle = polItems'[j].socket_handle => i = j
    <2> SUFFICES ASSUME NEW i \in 1 .. n + 1, NEW j \in 1 .. n + 1,
                        polItems'[i].socket_handle = polItems'[j].socket_handle
                 PROVE  i = j
      OBVIOUS
    <2>1. i \in 1 .. n => polItems'[i].socket_handle = polItems[i].socket_handle /\ polItems'[i].socket_handle # h
      BY <1>3, <1>7
    <2>2. j \in 1 .. n => polItems'[j].socket_handle = polItems[j].socket_handle /\ polItems'[j].socket_handle # h
      BY <1>3, <1>7
    <2>3. polItems'[n + 1].socket_handle = h
      BY <1>1, <1>7
    <2>4. (i \in 1 .. n \/ i = n + 1) /\ (j \in 1 .. n \/ j = n + 1)
      BY <1>2
    <2>5. CASE i \in 1 .. n /\ j \in 1 .. n
      <3>1. polItems[i].socket_handle = polItems[j].socket_handle
        BY <2>1, <2>2, <2>5
      <3> QED BY <1>2, <2>5, <3>1
    <2> QED BY <2>1, <2>2, <2>3, <2>4, <2>5
  <1> HIDE DEF n
  <1>10. n + 1 <= polCapacity'
    BY <1>2 DEF n
  <1> QED BY <1>6, <1>8, <1>9, <1>10 DEF PolInv, Poller!Parallel, Poller!Indices, Poller!count

LEMMA Unmoved ==
  ASSUME PolInv, UNCHANGED <<polItems, polFds, polCapacity, polRoom>>
  PROVE  PolInv'
  <1>1. Poller!Indices' = Poller!Indices /\ Poller!count' = Poller!count
    BY DEF Poller!Indices, Poller!count
  <1>2. Poller!Parallel'
    BY <1>1 DEF PolInv, Poller!Parallel, Poller!PollFd
  <1> QED BY <1>2 DEF PolInv

LEMMA AddParallel ==
  ASSUME PolInv, NEW h \in Handle, NEW interests \in Interest, NEW data \in Datum,
         Poller!AddHandle(h, interests, data)
  PROVE  PolInv'
  <1>1. CASE UNCHANGED <<polItems, polFds, polCapacity, polRoom>>
    BY <1>1, Unmoved
  <1>2. CASE Poller!GrowFails
    <2>1. PICK grown : polRoom' = [a \in DOMAIN polRoom |-> IF a \in grown THEN 2 * polCapacity ELSE polRoom[a]]
      BY <1>2 DEF Poller!GrowFails
    <2>2. polRoom' \in [{"items", "poll_fds"} -> Nat] /\ \A a \in DOMAIN polRoom' : polCapacity <= polRoom'[a]
      BY <2>1 DEF PolInv, Poller!Parallel
    <2>3. UNCHANGED <<polItems, polFds, polCapacity>>
      BY <1>2 DEF Poller!GrowFails
    <2> QED BY <2>2, <2>3 DEF PolInv, Poller!Parallel, Poller!Indices, Poller!count
  <1>3. CASE Poller!At(h) = {} /\ Poller!Grow(h, interests, data)
    <2>1. /\ polCapacity' \in Nat \ {0} /\ Len(polItems) < polCapacity'
          /\ polRoom' \in [{"items", "poll_fds"} -> Nat]
          /\ \A a \in DOMAIN polRoom' : polCapacity' <= polRoom'[a]
      BY <1>3 DEF Poller!Grow, PolInv, Poller!Parallel, Poller!count
    <2> QED BY <1>3, <2>1, StoreParallel DEF Poller!Grow
  <1>4. CASE /\ Poller!At(h) = {} /\ Poller!count < polCapacity /\ Poller!Store(h, interests, data)
             /\ UNCHANGED <<polCapacity, polRoom>>
    <2>1. /\ polCapacity' \in Nat \ {0} /\ Len(polItems) < polCapacity'
          /\ polRoom' \in [{"items", "poll_fds"} -> Nat]
          /\ \A a \in DOMAIN polRoom' : polCapacity' <= polRoom'[a]
      BY <1>4 DEF PolInv, Poller!Parallel, Poller!count
    <2> QED BY <1>4, <2>1, StoreParallel
  <1> QED BY <1>1, <1>2, <1>3, <1>4 DEF Poller!AddHandle

LEMMA ModifyParallel ==
  ASSUME PolInv, NEW h \in Handle, NEW interests \in Interest, NEW data \in Datum,
         Poller!ModifyHandle(h, interests, data)
  PROVE  PolInv'
  <1> DEFINE n == Len(polItems)
             item == Poller!Item(h, interests, data)
             fd == Poller!PollFd(h, interests)
  <1>1. CASE Poller!Missing(h)
    BY <1>1, Unmoved DEF Poller!ModifyHandle, Poller!Missing
  <1>2. ASSUME NEW i \in Poller!At(h), polItems' = [polItems EXCEPT ![i] = item], polFds' = [polFds EXCEPT ![i] = fd]
        PROVE  PolInv'
    <2>1. item \in Records /\ fd \in Fds /\ item.socket_handle = h /\ item.interests = interests
      BY Elements DEF Poller!Item
    <2>2. /\ polItems \in Seq(Records) /\ polFds \in Seq(Fds) /\ n \in Nat /\ Len(polFds) = n
          /\ \A j \in 1 .. n : polFds[j] = Poller!PollFd(polItems[j].socket_handle, polItems[j].interests)
          /\ \A j, k \in 1 .. n : polItems[j].socket_handle = polItems[k].socket_handle => j = k
          /\ i \in 1 .. n /\ polItems[i].socket_handle = h
      BY DEF PolInv, Poller!Parallel, Poller!Indices, Poller!count, Poller!At
    <2>3. fd = Poller!PollFd(item.socket_handle, item.interests)
      BY <2>1
    <2> HIDE DEF item, fd
    <2>4. /\ polItems' \in Seq(Records) /\ Len(polItems') = n /\ polFds' \in Seq(Fds) /\ Len(polFds') = n
      BY <1>2, <2>1, <2>2
    <2>5. \A j \in 1 .. n : /\ polItems'[j] = IF j = i THEN item ELSE polItems[j]
                            /\ polFds'[j] = IF j = i THEN fd ELSE polFds[j]
      BY <1>2, <2>2
    <2>6. \A j \in 1 .. n : polFds'[j] = Poller!PollFd(polItems'[j].socket_handle, polItems'[j].interests)
      BY <2>2, <2>3, <2>5
    <2>7. \A j \in 1 .. n : polItems'[j].socket_handle = polItems[j].socket_handle
      BY <2>1, <2>2, <2>5
    <2>8. \A j, k \in 1 .. n : polItems'[j].socket_handle = polItems'[k].socket_handle => j = k
      BY <2>2, <2>7
    <2> HIDE DEF n
    <2>9. UNCHANGED <<polCapacity, polRoom>> /\ n <= polCapacity
      BY DEF Poller!ModifyHandle, PolInv, Poller!Parallel, Poller!count, n
    <2> QED BY <2>4, <2>6, <2>8, <2>9 DEF PolInv, Poller!Parallel, Poller!Indices, Poller!count
  <1> QED BY <1>1, <1>2 DEF Poller!ModifyHandle

LEMMA Moved ==
  ASSUME NEW S, NEW s \in Seq(S), NEW i \in 1 .. Len(s)
  PROVE  /\ Poller!MoveLast(s, i) \in Seq(S)
         /\ Len(Poller!MoveLast(s, i)) = Len(s) - 1
         /\ \A k \in 1 .. Len(s) - 1 : Poller!MoveLast(s, i)[k] = IF k = i THEN s[Len(s)] ELSE s[k]
  <1> DEFINE t == [s EXCEPT ![i] = s[Len(s)]]
  <1>1. /\ t \in Seq(S)
        /\ Len(t) = Len(s)
        /\ \A k \in 1 .. Len(s) : t[k] = IF k = i THEN s[Len(s)] ELSE s[k]
    OBVIOUS
  <1>2. Poller!MoveLast(s, i) = SubSeq(t, 1, Len(t) - 1)
    BY DEF Poller!MoveLast, Poller!Front, Poller!Last
  <1>3. Len(s) \in Nat \ {0}
    OBVIOUS
  <1> HIDE DEF t
  <1> QED BY <1>1, <1>2, <1>3

LEMMA RemoveParallel ==
  ASSUME PolInv, NEW h, Poller!RemoveHandle(h)
  PROVE  PolInv'
  <1> DEFINE n == Len(polItems)
  <1>1. CASE Poller!Missing(h)
    BY <1>1, Unmoved DEF Poller!RemoveHandle, Poller!Missing
  <1>2. ASSUME NEW i \in Poller!At(h), polItems' = Poller!MoveLast(polItems, i), polFds' = Poller!MoveLast(polFds, i)
        PROVE  PolInv'
    <2>1. /\ polItems \in Seq(Records) /\ polFds \in Seq(Fds) /\ n \in Nat /\ Len(polFds) = n
          /\ \A j \in 1 .. n : polFds[j] = Poller!PollFd(polItems[j].socket_handle, polItems[j].interests)
          /\ \A j, k \in 1 .. n : polItems[j].socket_handle = polItems[k].socket_handle => j = k
          /\ i \in 1 .. n
      BY DEF PolInv, Poller!Parallel, Poller!Indices, Poller!count, Poller!At
    <2>2. /\ polItems' \in Seq(Records) /\ Len(polItems') = n - 1
          /\ \A k \in 1 .. n - 1 : polItems'[k] = IF k = i THEN polItems[n] ELSE polItems[k]
      BY <1>2, <2>1, Moved
    <2>3. /\ polFds' \in Seq(Fds) /\ Len(polFds') = n - 1
          /\ \A k \in 1 .. n - 1 : polFds'[k] = IF k = i THEN polFds[n] ELSE polFds[k]
      <3> HIDE DEF n
      <3>1. polFds \in Seq(Fds) /\ i \in 1 .. Len(polFds)
        BY <2>1
      <3>2. /\ polFds' \in Seq(Fds) /\ Len(polFds') = Len(polFds) - 1
            /\ \A k \in 1 .. Len(polFds) - 1 : polFds'[k] = IF k = i THEN polFds[Len(polFds)] ELSE polFds[k]
        <4>1. /\ Poller!MoveLast(polFds, i) \in Seq(Fds)
              /\ Len(Poller!MoveLast(polFds, i)) = Len(polFds) - 1
              /\ \A k \in 1 .. Len(polFds) - 1 :
                   Poller!MoveLast(polFds, i)[k] = IF k = i THEN polFds[Len(polFds)] ELSE polFds[k]
          BY <3>1, Moved
        <4> QED BY <1>2, <4>1
      <3> QED BY <2>1, <3>2
    <2>4. n \in 1 .. n /\ \A j \in 1 .. n - 1 : j \in 1 .. n /\ j # n
      BY <2>1
    <2>5. \A j \in 1 .. n - 1 : polFds'[j] = Poller!PollFd(polItems'[j].socket_handle, polItems'[j].interests)
      BY <2>1, <2>2, <2>3, <2>4
    <2>6. \A j, k \in 1 .. n - 1 : polItems'[j].socket_handle = polItems'[k].socket_handle => j = k
      <3> SUFFICES ASSUME NEW j \in 1 .. n - 1, NEW k \in 1 .. n - 1,
                          polItems'[j].socket_handle = polItems'[k].socket_handle
                   PROVE  j = k
        OBVIOUS
      <3> DEFINE from(l) == IF l = i THEN n ELSE l
      <3>1. from(j) \in 1 .. n /\ from(k) \in 1 .. n /\ (from(j) = from(k) => j = k)
        BY <2>4
      <3>2. polItems'[j] = polItems[from(j)] /\ polItems'[k] = polItems[from(k)]
        BY <2>2
      <3> HIDE DEF from
      <3>3. polItems[from(j)].socket_handle = polItems[from(k)].socket_handle
        BY <3>2
      <3>4. from(j) = from(k)
        BY <2>1, <3>1, <3>3
      <3> QED BY <3>1, <3>4
    <2> HIDE DEF n
    <2>7. UNCHANGED <<polCapacity, polRoom>> /\ n - 1 <= polCapacity
      BY <2>1 DEF Poller!RemoveHandle, PolInv, Poller!Parallel, Poller!count, n
    <2> QED BY <2>2, <2>3, <2>5, <2>6, <2>7 DEF PolInv, Poller!Parallel, Poller!Indices, Poller!count
  <1> QED BY <1>1, <1>2 DEF Poller!RemoveHandle

LEMMA PolStep ==
  ASSUME PolInv, [Poller!Next]_polVars
  PROVE  PolInv'
  <1>1. CASE UNCHANGED polVars
    BY <1>1, Unmoved DEF polVars
  <1>2. ASSUME NEW ready, NEW max, Poller!Wait(ready, max)
        PROVE  PolInv'
    BY <1>2, Unmoved DEF Poller!Wait
  <1> QED BY <1>1, <1>2, AddParallel, ModifyParallel, RemoveParallel DEF Poller!Next

-----------------------------------------------------------------------------
(* How the registry changes with the array: when an element is appended,   *)
(* replaced, or lost to the last one.                                      *)
LEMMA PolDistinct ==
  PolInv => polItems \in Seq(Records) /\ Distinct(polItems)
  BY DEF PolInv, Poller!Parallel, Poller!Indices, Poller!count, Distinct

Entered(f, h, known) == [k \in DOMAIN f \union {h} |-> IF k = h THEN known ELSE f[k]]

LEMMA RegistersNew ==
  ASSUME NEW s \in Seq(Records), Distinct(s), NEW item \in Records,
         NEW h, h = item.socket_handle, h \notin Named(s), NEW known, known = Known(item)
  PROVE  WatchedIn(Append(s, item)) =
           Entered(WatchedIn(s), h, known)
  <1> DEFINE t == Append(s, item)
             n == Len(s)
             f == [k \in Named(s) \union {h} |-> IF k = h THEN known ELSE WatchedIn(s)[k]]
  <1>1. /\ t \in Seq(Records) /\ Len(t) = n + 1 /\ t[n + 1] = item /\ n \in Nat
        /\ \A i \in 1 .. n : t[i] = s[i]
    OBVIOUS
  <1>2. \A i \in 1 .. n + 1 : i \in 1 .. n \/ i = n + 1
    BY <1>1
  <1>3. \A i \in 1 .. n : s[i].socket_handle \in Named(s) /\ s[i].socket_handle # h
    BY DEF Named
  <1> HIDE DEF t
  <1>4. Named(t) = Named(s) \union {h}
    <2>1. \A i \in 1 .. n : t[i].socket_handle = s[i].socket_handle
      BY <1>1
    <2>2. t[n + 1].socket_handle = h /\ n + 1 \in 1 .. n + 1 /\ \A i \in 1 .. n : i \in 1 .. n + 1
      BY <1>1
    <2>3. Named(t) = {t[i].socket_handle : i \in 1 .. n + 1}
      BY <1>1 DEF Named
    <2>4. Named(s) = {s[i].socket_handle : i \in 1 .. n}
      BY DEF Named
    <2> HIDE DEF n
    <2> QED BY <1>2, <2>1, <2>2, <2>3, <2>4
  <1>5. Distinct(t)
    <2> SUFFICES ASSUME NEW i \in 1 .. n + 1, NEW j \in 1 .. n + 1, t[i].socket_handle = t[j].socket_handle
                 PROVE  i = j
      BY <1>1 DEF Distinct
    <2>1. CASE i \in 1 .. n /\ j \in 1 .. n
      BY <1>1, <2>1 DEF Distinct
    <2> QED BY <1>1, <1>2, <1>3, <2>1
  <1>6. \A i \in 1 .. n + 1 : f[t[i].socket_handle] = Known(t[i])
    <2>1. ASSUME NEW i \in 1 .. n
          PROVE  f[t[i].socket_handle] = Known(t[i])
      <3>1. WatchedIn(s)[s[i].socket_handle] = Known(s[i])
        BY WatchedAt
      <3> QED BY <1>1, <1>3, <3>1
    <2>2. f[t[n + 1].socket_handle] = Known(t[n + 1])
      BY <1>1
    <2> QED BY <1>2, <2>1, <2>2
  <1> HIDE DEF f
  <1>7. f = [k \in DOMAIN f |-> f[k]] /\ DOMAIN f = Named(t)
    BY <1>4 DEF f
  <1>8. f = WatchedIn(t)
    BY <1>1, <1>5, <1>6, <1>7, WatchedIs
  <1> QED BY <1>8 DEF f, t, Entered, WatchedIn

LEMMA RegistersAgain ==
  ASSUME NEW s \in Seq(Records), Distinct(s), NEW i \in 1 .. Len(s), NEW item \in Records,
         NEW h, h = item.socket_handle, h = s[i].socket_handle, NEW known, known = Known(item)
  PROVE  WatchedIn([s EXCEPT ![i] = item]) =
           Entered(WatchedIn(s), h, known)
  <1> DEFINE t == [s EXCEPT ![i] = item]
             n == Len(s)
             f == [k \in Named(s) \union {h} |-> IF k = h THEN known ELSE WatchedIn(s)[k]]
  <1>1. /\ t \in Seq(Records) /\ Len(t) = n
        /\ \A j \in 1 .. n : t[j] = IF j = i THEN item ELSE s[j]
    OBVIOUS
  <1> HIDE DEF t
  <1>2. \A j \in 1 .. n : t[j].socket_handle = s[j].socket_handle
    BY <1>1
  <1>3. Named(t) = Named(s) /\ h \in Named(s)
    BY <1>1, <1>2 DEF Named
  <1>4. Distinct(t)
    BY <1>1, <1>2 DEF Distinct
  <1>5. ASSUME NEW j \in 1 .. n
        PROVE  f[t[j].socket_handle] = Known(t[j])
    <2>1. s[j].socket_handle \in Named(s) /\ WatchedIn(s)[s[j].socket_handle] = Known(s[j])
      BY WatchedAt DEF Named
    <2>2. j = i \/ s[j].socket_handle # h
      BY DEF Distinct
    <2> QED BY <1>1, <1>2, <1>3, <2>1, <2>2
  <1> HIDE DEF f
  <1>6. f = [k \in DOMAIN f |-> f[k]] /\ DOMAIN f = Named(t)
    BY <1>3 DEF f
  <1>7. f = WatchedIn(t)
    BY <1>1, <1>4, <1>5, <1>6, WatchedIs
  <1> QED BY <1>7 DEF f, t, Entered, WatchedIn

LEMMA Forgets ==
  ASSUME NEW s \in Seq(Records), Distinct(s), NEW i \in 1 .. Len(s)
  PROVE  WatchedIn(Poller!MoveLast(s, i)) =
           [k \in Named(s) \ {s[i].socket_handle} |-> WatchedIn(s)[k]]
  <1> DEFINE h == s[i].socket_handle
             t == Poller!MoveLast(s, i)
             n == Len(s)
             from(l) == IF l = i THEN n ELSE l
             f == [k \in Named(s) \ {h} |-> WatchedIn(s)[k]]
  <1>1. /\ t \in Seq(Records) /\ Len(t) = n - 1 /\ n \in Nat \ {0} /\ i \in 1 .. n
        /\ \A k \in 1 .. n - 1 : t[k] = IF k = i THEN s[n] ELSE s[k]
    <2>1. n \in Nat \ {0} /\ i \in 1 .. n
      OBVIOUS
    <2>2. t \in Seq(Records) /\ Len(t) = n - 1
      BY Moved
    <2>3. \A k \in 1 .. n - 1 : t[k] = IF k = i THEN s[n] ELSE s[k]
      BY Moved
    <2> QED BY <2>1, <2>2, <2>3
  <1>2. /\ \A k \in 1 .. n - 1 : from(k) \in 1 .. n /\ from(k) # i /\ t[k] = s[from(k)]
        /\ \A j, k \in 1 .. n - 1 : from(j) = from(k) => j = k
    BY <1>1
  <1>3. \A k \in 1 .. n : k # i => \E l \in 1 .. n - 1 : from(l) = k
    <2> SUFFICES ASSUME NEW k \in 1 .. n, k # i
                 PROVE  \E l \in 1 .. n - 1 : from(l) = k
      OBVIOUS
    <2>1. CASE k = n
      <3>1. i \in 1 .. n - 1 /\ from(i) = k
        BY <1>1, <2>1
      <3> QED BY <3>1
    <2>2. CASE k # n
      <3>1. k \in 1 .. n - 1 /\ from(k) = k
        BY <1>1, <2>2
      <3> QED BY <3>1
    <2> QED BY <2>1, <2>2
  <1>4. \A j \in 1 .. n : s[j].socket_handle \in Named(s) /\ (j # i => s[j].socket_handle # h)
    BY DEF Named, Distinct
  <1> HIDE DEF t, from
  <1>5. Named(t) = Named(s) \ {h}
    <2>1. ASSUME NEW x \in Named(t)
          PROVE  x \in Named(s) \ {h}
      <3>1. PICK k \in 1 .. n - 1 : x = t[k].socket_handle
        BY <1>1 DEF Named
      <3> QED BY <1>2, <1>4, <3>1
    <2>2. ASSUME NEW x \in Named(s) \ {h}
          PROVE  x \in Named(t)
      <3>1. PICK k \in 1 .. n : x = s[k].socket_handle
        BY DEF Named
      <3>2. PICK l \in 1 .. n - 1 : from(l) = k
        BY <1>3, <3>1
      <3>3. t[l].socket_handle = x
        BY <1>2, <3>1, <3>2
      <3> QED BY <1>1, <3>3 DEF Named
    <2> QED BY <2>1, <2>2
  <1>6. Distinct(t)
    <2> SUFFICES ASSUME NEW j \in 1 .. n - 1, NEW k \in 1 .. n - 1, t[j].socket_handle = t[k].socket_handle
                 PROVE  j = k
      BY <1>1 DEF Distinct
    <2>1. s[from(j)].socket_handle = s[from(k)].socket_handle /\ from(j) \in 1 .. n /\ from(k) \in 1 .. n
      BY <1>2
    <2>2. from(j) = from(k)
      BY <2>1 DEF Distinct
    <2> QED BY <1>2, <2>2
  <1>7. ASSUME NEW j \in 1 .. n - 1
        PROVE  f[t[j].socket_handle] = Known(t[j])
    <2>1. from(j) \in 1 .. n /\ from(j) # i /\ t[j] = s[from(j)]
      BY <1>2
    <2>2. WatchedIn(s)[s[from(j)].socket_handle] = Known(s[from(j)])
      BY <2>1, WatchedAt
    <2>3. s[from(j)].socket_handle \in Named(s) \ {h}
      BY <1>4, <2>1
    <2> QED BY <2>1, <2>2, <2>3
  <1> HIDE DEF f
  <1>8. f = [k \in DOMAIN f |-> f[k]] /\ DOMAIN f = Named(t)
    BY <1>5 DEF f
  <1>9. f = WatchedIn(t)
    BY <1>1, <1>6, <1>7, <1>8, WatchedIs
  <1> QED BY <1>9 DEF f, t

-----------------------------------------------------------------------------
(* The registry that the contract sees, and what it asks of a step.        *)
Watched == WatchedIn(polItems)

LEMMA PlacesOf ==
  ASSUME NEW h
  PROVE  /\ Poller!At(h) = {} <=> h \notin Named(polItems)
         /\ \A i \in Poller!At(h) : i \in 1 .. Len(polItems) /\ polItems[i].socket_handle = h
  BY DEF Poller!At, Poller!Indices, Poller!count, Named

Registers(h, interests, data) ==
  Watched' = Entered(Watched, h, [interests |-> interests, user_data |-> data])

LEMMA IsRegistered == Poller!Registry!Registered = Named(polItems)
  BY DEF Poller!Registry!Registered, Named, Poller!Indices, Poller!count

LEMMA RegistryRegisters ==
  ASSUME NEW h, NEW interests, NEW data, Registers(h, interests, data)
  PROVE  Poller!Registry!Register(h, interests, data)
  BY DEF Registers, Entered, Watched, WatchedIn, Named, Known, Poller!Registry!Register, Poller!Registry!Registered,
         Poller!At, Poller!Indices, Poller!count

LEMMA RegistryForgets ==
  ASSUME NEW h, h \in Named(polItems), polAnswer' = "NONE",
         Watched' = [k \in Named(polItems) \ {h} |-> Watched[k]]
  PROVE  Poller!Registry!Remove(h)
  BY DEF Watched, WatchedIn, Named, Known, Poller!Registry!Remove, Poller!Registry!Registered,
         Poller!At, Poller!Indices, Poller!count

LEMMA RegistryAdds ==
  ASSUME NEW h, NEW interests, NEW data,
         \/ h \in Named(polItems) /\ polAnswer' = "IO" /\ polItems' = polItems
         \/ h \notin Named(polItems) /\ polAnswer' = "CAPACITY" /\ polItems' = polItems
         \/ h \notin Named(polItems) /\ polAnswer' = "NONE" /\ Registers(h, interests, data)
  PROVE  Poller!Registry!Add(h, interests, data)
  BY IsRegistered, RegistryRegisters DEF Poller!Registry!Add, Poller!At, Poller!Indices, Poller!count

LEMMA RegistryModifies ==
  ASSUME NEW h, NEW interests, NEW data,
         \/ h \notin Named(polItems) /\ polAnswer' = "IO" /\ polItems' = polItems
         \/ h \in Named(polItems) /\ polAnswer' = "NONE" /\ Registers(h, interests, data)
  PROVE  Poller!Registry!Modify(h, interests, data)
  BY IsRegistered, RegistryRegisters DEF Poller!Registry!Modify, Poller!At, Poller!Indices, Poller!count

LEMMA RegistryMisses ==
  ASSUME NEW h, h \notin Named(polItems), polAnswer' = "IO", polItems' = polItems
  PROVE  Poller!Registry!Remove(h)
  BY IsRegistered DEF Poller!Registry!Remove, Poller!At, Poller!Indices, Poller!count

LEMMA AddRefines ==
  ASSUME PolInv, NEW h \in Handle, NEW interests \in Interest, NEW data \in Datum,
         Poller!AddHandle(h, interests, data)
  PROVE  Poller!Registry!Add(h, interests, data)
  <1>1. CASE Poller!At(h) # {} /\ polAnswer' = "IO" /\ polItems' = polItems
    BY <1>1, PlacesOf, RegistryAdds
  <1>2. CASE Poller!At(h) = {} /\ Poller!GrowFails
    BY <1>2, PlacesOf, RegistryAdds DEF Poller!GrowFails
  <1>3. CASE Poller!At(h) = {} /\ Poller!Store(h, interests, data)
    <2> DEFINE item == Poller!Item(h, interests, data)
               known == [interests |-> interests, user_data |-> data]
    <2>1. item \in Records /\ item.socket_handle = h /\ Known(item) = known
      BY Elements DEF Poller!Item, Known
    <2>2. h \notin Named(polItems)
      BY <1>3, PlacesOf
    <2>3. polItems' = Append(polItems, item) /\ polAnswer' = "NONE"
      BY <1>3 DEF Poller!Store
    <2> HIDE DEF item, known
    <2>4. WatchedIn(Append(polItems, item)) =
            Entered(WatchedIn(polItems), h, known)
      <3>1. polItems \in Seq(Records) /\ Distinct(polItems)
        BY PolDistinct
      <3> QED BY <2>1, <2>2, <3>1, RegistersNew
    <2>5. Registers(h, interests, data)
      <3>1. Watched' = WatchedIn(Append(polItems, item))
        BY <2>3 DEF Watched
      <3> QED BY <2>4, <3>1 DEF Registers, Watched, known
    <2> QED BY <2>2, <2>3, <2>5, RegistryAdds
  <1> QED BY <1>1, <1>2, <1>3 DEF Poller!AddHandle, Poller!Grow

LEMMA ModifyRefines ==
  ASSUME PolInv, NEW h \in Handle, NEW interests \in Interest, NEW data \in Datum,
         Poller!ModifyHandle(h, interests, data)
  PROVE  Poller!Registry!Modify(h, interests, data)
  <1> DEFINE item == Poller!Item(h, interests, data)
             known == [interests |-> interests, user_data |-> data]
  <1>1. CASE Poller!Missing(h)
    BY <1>1, PlacesOf, RegistryModifies DEF Poller!Missing
  <1>2. ASSUME NEW i \in Poller!At(h), polItems' = [polItems EXCEPT ![i] = item], polAnswer' = "NONE"
        PROVE  Poller!Registry!Modify(h, interests, data)
    <2>1. item \in Records /\ item.socket_handle = h /\ Known(item) = known
      BY Elements DEF Poller!Item, Known
    <2>2. i \in 1 .. Len(polItems) /\ polItems[i].socket_handle = h /\ h \in Named(polItems)
      BY PlacesOf DEF Named
    <2> HIDE DEF item, known
    <2>3. WatchedIn([polItems EXCEPT ![i] = item]) =
            Entered(WatchedIn(polItems), h, known)
      <3>1. polItems \in Seq(Records) /\ Distinct(polItems)
        BY PolDistinct
      <3> QED BY <2>1, <2>2, <3>1, RegistersAgain
    <2>4. Registers(h, interests, data)
      <3>1. Watched' = WatchedIn([polItems EXCEPT ![i] = item])
        BY <1>2 DEF Watched, item
      <3> QED BY <2>3, <3>1 DEF Registers, Watched, known
    <2> QED BY <1>2, <2>2, <2>4, RegistryModifies
  <1> QED BY <1>1, <1>2 DEF Poller!ModifyHandle

LEMMA RemoveRefines ==
  ASSUME PolInv, NEW h, Poller!RemoveHandle(h)
  PROVE  Poller!Registry!Remove(h)
  <1>1. CASE Poller!Missing(h)
    BY <1>1, PlacesOf, RegistryMisses DEF Poller!Missing
  <1>2. ASSUME NEW i \in Poller!At(h), polItems' = Poller!MoveLast(polItems, i), polAnswer' = "NONE"
        PROVE  Poller!Registry!Remove(h)
    <2>1. i \in 1 .. Len(polItems) /\ polItems[i].socket_handle = h /\ h \in Named(polItems)
      BY PlacesOf DEF Named
    <2>2. WatchedIn(Poller!MoveLast(polItems, i)) = [k \in Named(polItems) \ {h} |-> WatchedIn(polItems)[k]]
      BY <2>1, PolDistinct, Forgets
    <2>3. Watched' = [k \in Named(polItems) \ {h} |-> Watched[k]]
      BY <1>2, <2>2 DEF Watched
    <2> QED BY <1>2, <2>1, <2>3, RegistryForgets
  <1> QED BY <1>1, <1>2 DEF Poller!RemoveHandle

-----------------------------------------------------------------------------
(* An element is reported as the contract's event of its handle.           *)
LEMMA IsEvent ==
  ASSUME NEW h, NEW ready
  PROVE  Poller!Registry!Event(h, ready) =
           [handle |-> h, user_data |-> Watched[h].user_data,
            events |-> (Watched[h].interests \intersect ready[h]) \union (ready[h] \intersect {"ERROR"})]
  BY DEF Poller!Registry!Event, Watched, WatchedIn, Named, Known, Poller!At, Poller!Indices, Poller!count

LEMMA EventReported ==
  ASSUME PolInv, NEW ready \in [Handle -> ReadyFor], NEW i \in 1 .. Len(polItems)
  PROVE  Poller!Registry!Event(polItems[i].socket_handle, ready) = Poller!Reported(i, ready)
  <1> DEFINE h == polItems[i].socket_handle
  <1>1. Watched[h] = Known(polItems[i])
    BY PolDistinct, WatchedAt DEF Watched
  <1>2. Poller!Registry!Event(h, ready) =
          [handle |-> h, user_data |-> Watched[h].user_data,
           events |-> (Watched[h].interests \intersect ready[h]) \union (ready[h] \intersect {"ERROR"})]
    BY IsEvent
  <1>3. polFds[i] = Poller!PollFd(h, polItems[i].interests) /\ h \in Handle
    <2>1. polItems[i] \in Records
      BY DEF PolInv
    <2>2. polFds[i] = Poller!PollFd(polItems[i].socket_handle, polItems[i].interests)
      BY DEF PolInv, Poller!Parallel, Poller!Indices, Poller!count
    <2> QED BY <2>1, <2>2 DEF Records
  <1>4. ready[h] \subseteq {"READ", "WRITE", "ERROR"}
    BY <1>3, PollerAssumption
  <1>5. Poller!Flags(polFds[i], ready) =
          (polItems[i].interests \intersect ready[h]) \union (ready[h] \intersect {"ERROR"})
    <2>1. polFds[i].fd = h /\ polFds[i].events = polItems[i].interests \intersect {"READ", "WRITE"}
      BY <1>3 DEF Poller!PollFd
    <2> HIDE DEF h
    <2> QED BY <1>4, <2>1 DEF Poller!Flags
  <1>6. Watched[h].user_data = polItems[i].user_data /\ Watched[h].interests = polItems[i].interests
    BY <1>1 DEF Known
  <1> HIDE DEF h
  <1>7. Poller!Registry!Event(h, ready) = 
          [handle |-> h, user_data |-> polItems[i].user_data, events |-> Poller!Flags(polFds[i], ready)]
    BY <1>2, <1>5, <1>6
  <1> QED BY <1>7 DEF Poller!Reported, h

LEMMA EventsFired ==
  ASSUME PolInv, NEW ready \in [Handle -> ReadyFor]
  PROVE  /\ Poller!Registry!Fired(ready) = {Poller!Reported(i, ready) : i \in Poller!Fired(ready)}
         /\ \A i, j \in Poller!Fired(ready) : Poller!Reported(i, ready) = Poller!Reported(j, ready) => i = j
         /\ IsFiniteSet(Poller!Fired(ready))
  <1>1. Poller!Fired(ready) = {i \in 1 .. Len(polItems) : Poller!Reported(i, ready).events # {}}
    BY DEF Poller!Fired, Poller!Reported, Poller!Indices, Poller!count
  <1>2. Poller!Registry!Fired(ready) =
          {e \in {Poller!Registry!Event(h, ready) : h \in Named(polItems)} : e.events # {}}
    BY IsRegistered DEF Poller!Registry!Fired
  <1>3. {Poller!Registry!Event(h, ready) : h \in Named(polItems)} =
          {Poller!Reported(i, ready) : i \in 1 .. Len(polItems)}
    BY EventReported DEF Named
  <1>4. Poller!Registry!Fired(ready) = {Poller!Reported(i, ready) : i \in Poller!Fired(ready)}
    BY <1>1, <1>2, <1>3
  <1>5. \A i, j \in Poller!Fired(ready) : Poller!Reported(i, ready) = Poller!Reported(j, ready) => i = j
    <2>1. \A i \in 1 .. Len(polItems) : Poller!Reported(i, ready).handle = polItems[i].socket_handle
      BY DEF Poller!Reported
    <2> QED BY <1>1, <2>1, PolDistinct DEF Distinct
  <1>6. IsFiniteSet(Poller!Fired(ready))
    <2>1. IsFiniteSet(1 .. Len(polItems)) /\ Poller!Fired(ready) \in SUBSET (1 .. Len(polItems))
      BY <1>1, FS_Interval DEF PolInv
    <2> QED BY <2>1, FS_Subset
  <1> QED BY <1>4, <1>5, <1>6

(* The places of a scan are distinct, and so are the events reported.      *)
LEMMA Numbering ==
  ASSUME NEW S, NEW m \in Nat, NEW p \in [1 .. m -> S]
  PROVE  Len(p) = m /\ DOMAIN p = 1 .. m /\ Poller!Range(p) = {p[k] : k \in 1 .. m}
  BY DEF Poller!Range

LEMMA ReportsCounted ==
  ASSUME PolInv, NEW ready \in [Handle -> ReadyFor], NEW m \in Nat,
         NEW places \in [1 .. m -> Poller!Fired(ready)],
         \A j, k \in 1 .. m : j < k => places[j] < places[k]
  PROVE  LET reports == {Poller!Reported(places[k], ready) : k \in 1 .. m}
         IN  reports \subseteq Poller!Registry!Fired(ready) /\ Cardinality(reports) = m
  <1> DEFINE fired == Poller!Fired(ready)
             reports == {Poller!Reported(places[k], ready) : k \in 1 .. m}
             f == [k \in 1 .. m |-> Poller!Reported(places[k], ready)]
  <1>1. \A k \in 1 .. m : places[k] \in fired
    OBVIOUS
  <1>2. fired \subseteq Nat
    BY DEF Poller!Fired, Poller!Indices, Poller!count, PolInv
  <1>3. \A i, j \in fired : Poller!Reported(i, ready) = Poller!Reported(j, ready) => i = j
    BY EventsFired
  <1>4. ASSUME NEW j \in 1 .. m, NEW k \in 1 .. m, Poller!Reported(places[j], ready) = Poller!Reported(places[k], ready)
        PROVE  j = k
    <2>1. places[j] = places[k] /\ places[j] \in Nat
      BY <1>1, <1>2, <1>3, <1>4
    <2> QED BY <1>1, <1>2, <2>1
  <1>5. f \in Bijection(1 .. m, reports)
    BY <1>4 DEF Bijection, Injection, Surjection, IsInjective
  <1>6. ExistsBijection(1 .. m, reports)
    BY <1>5 DEF ExistsBijection
  <1>7. Cardinality(reports) = m
    BY <1>6, FS_Interval, FS_Bijection
  <1>8. reports \subseteq Poller!Registry!Fired(ready)
    BY <1>1, EventsFired
  <1> QED BY <1>7, <1>8

LEMMA FiredFinite ==
  ASSUME PolInv, NEW ready \in [Handle -> ReadyFor]
  PROVE  IsFiniteSet(Poller!Registry!Fired(ready))
  <1> DEFINE f == [i \in Poller!Fired(ready) |-> Poller!Reported(i, ready)]
  <1>1. IsFiniteSet(Poller!Fired(ready)) /\ Poller!Registry!Fired(ready) = {Poller!Reported(i, ready) : i \in Poller!Fired(ready)}
    BY EventsFired
  <1>2. f \in Surjection(Poller!Fired(ready), Poller!Registry!Fired(ready))
    BY <1>1 DEF Surjection
  <1> QED BY <1>1, <1>2, FS_Surjection

LEMMA ScanCounted ==
  ASSUME PolInv, NEW ready \in [Handle -> ReadyFor], NEW max \in EventArrays,
         NEW places \in Poller!Scanned(ready, max),
         polEvents' = [k \in DOMAIN places |-> Poller!Reported(places[k], ready)]
  PROVE  /\ Poller!ToSet(polEvents)' \subseteq Poller!Registry!Fired(ready)
         /\ Cardinality(Poller!ToSet(polEvents)') = Poller!Registry!Min({max, Cardinality(Poller!Registry!Fired(ready))})
  <1>1. PICK m \in 0 .. max : places \in [1 .. m -> Poller!Fired(ready)]
    BY DEF Poller!Scanned
  <1>2. /\ \A j, k \in 1 .. m : j < k => places[j] < places[k]
        /\ \A i \in Poller!Fired(ready) \ Poller!Range(places) : m = max
        /\ m \in Nat /\ max \in Nat /\ m <= max
        /\ DOMAIN places = 1 .. m /\ Poller!Range(places) = {places[k] : k \in 1 .. m}
    <2>1. m \in Nat /\ max \in Nat /\ m <= max
      BY PollerAssumption
    <2>2. Len(places) = m /\ DOMAIN places = 1 .. m /\ Poller!Range(places) = {places[k] : k \in 1 .. m}
      BY <1>1, <2>1, Numbering
    <2> QED BY <2>1, <2>2 DEF Poller!Scanned
  <1> DEFINE reports == {Poller!Reported(places[k], ready) : k \in 1 .. m}
             all == Poller!Registry!Fired(ready)
  <1>3. Poller!ToSet(polEvents)' = reports
    BY <1>2 DEF Poller!ToSet
  <1>4. reports \subseteq all /\ Cardinality(reports) = m
    BY <1>1, <1>2, ReportsCounted
  <1>5. IsFiniteSet(all) /\ Cardinality(all) \in Nat /\ m <= Cardinality(all)
    BY <1>4, FiredFinite, FS_Subset, FS_CardinalityType
  <1>6. m < max => m = Cardinality(all)
    <2> SUFFICES ASSUME m < max
                 PROVE  m = Cardinality(all)
      OBVIOUS
    <2>1. \A i \in Poller!Fired(ready) : \E k \in 1 .. m : i = places[k]
      BY <1>2
    <2>2. all = {Poller!Reported(i, ready) : i \in Poller!Fired(ready)}
      BY EventsFired
    <2>3. all \subseteq reports
      BY <2>1, <2>2
    <2> QED BY <1>4, <2>3
  <1> HIDE DEF all, reports
  <1>7. m = Poller!Registry!Min({max, Cardinality(all)})
    <2> DEFINE c == Cardinality(all)
    <2>1. c \in Nat /\ m \in {max, c} /\ m <= max /\ m <= c
      BY <1>2, <1>5, <1>6
    <2> HIDE DEF c
    <2>2. \A x \in {max, c} : (\A y \in {max, c} : x =< y) => x = m
      BY <1>2, <2>1
    <2>3. m = Poller!Registry!Min({max, c})
      BY <2>1, <2>2 DEF Poller!Registry!Min
    <2> QED BY <2>3 DEF c
  <1> QED BY <1>3, <1>4, <1>7 DEF all

LEMMA SameCardinality ==
  ASSUME NEW S
  PROVE  Poller!Registry!Cardinality(S) = Cardinality(S)
  BY Zenon DEF Cardinality, Poller!Registry!Cardinality

LEMMA WaitRefines ==
  ASSUME PolInv, NEW ready \in [Handle -> ReadyFor], NEW max \in EventArrays, Poller!Wait(ready, max)
  PROVE  Poller!Registry!Wait(ready, max)
  <1>1. polItems' = polItems
    BY DEF Poller!Wait
  <1>2. CASE polAnswer' = "IO" /\ polEvents' = << >>
    <2>1. Poller!ToSet(polEvents)' = {}
      BY <1>2 DEF Poller!ToSet
    <2> QED BY <1>1, <1>2, <2>1 DEF Poller!Registry!Wait, Poller!At, Poller!Indices, Poller!count
  <1>3. ASSUME polAnswer' = "NONE", NEW places \in Poller!Scanned(ready, max),
               polEvents' = [k \in DOMAIN places |-> Poller!Reported(places[k], ready)]
        PROVE  Poller!Registry!Wait(ready, max)
    <2>1. /\ Poller!ToSet(polEvents)' \subseteq Poller!Registry!Fired(ready)
          /\ Cardinality(Poller!ToSet(polEvents)') = Poller!Registry!Min({max, Cardinality(Poller!Registry!Fired(ready))})
      BY <1>3, ScanCounted
    <2> QED BY <1>1, <1>3, <2>1, SameCardinality DEF Poller!Registry!Wait, Poller!At, Poller!Indices, Poller!count
  <1> QED BY <1>2, <1>3 DEF Poller!Wait

LEMMA PolRefines ==
  ASSUME PolInv, [Poller!Next]_polVars
  PROVE  [Poller!Registry!Next]_(Poller!Registry!vars)
  <1>1. CASE UNCHANGED polVars
    BY <1>1 DEF polVars, Poller!Registry!vars, Poller!ToSet, Poller!At, Poller!Indices, Poller!count
  <1>2. ASSUME NEW h \in Handle, NEW i \in Interest, NEW d \in Datum, Poller!AddHandle(h, i, d)
        PROVE  Poller!Registry!Next
    <2>1. Poller!ToSet(polEvents)' = {}
      BY <1>2 DEF Poller!AddHandle, Poller!ToSet
    <2> QED BY <1>2, <2>1, AddRefines DEF Poller!Registry!Next
  <1>3. ASSUME NEW h \in Handle, NEW i \in Interest, NEW d \in Datum, Poller!ModifyHandle(h, i, d)
        PROVE  Poller!Registry!Next
    <2>1. Poller!ToSet(polEvents)' = {}
      BY <1>3 DEF Poller!ModifyHandle, Poller!ToSet
    <2> QED BY <1>3, <2>1, ModifyRefines DEF Poller!Registry!Next
  <1>4. ASSUME NEW h \in Handle, Poller!RemoveHandle(h)
        PROVE  Poller!Registry!Next
    <2>1. Poller!ToSet(polEvents)' = {}
      BY <1>4 DEF Poller!RemoveHandle, Poller!ToSet
    <2> QED BY <1>4, <2>1, RemoveRefines DEF Poller!Registry!Next
  <1>5. ASSUME NEW ready \in [Handle -> ReadyFor], NEW max \in EventArrays, Poller!Wait(ready, max)
        PROVE  Poller!Registry!Next
    BY <1>5, WaitRefines DEF Poller!Registry!Next
  <1> QED BY <1>1, <1>2, <1>3, <1>4, <1>5 DEF Poller!Next

LEMMA PolInit ==
  ASSUME Poller!Init
  PROVE  PolInv /\ Poller!Registry!Init
  <1>1. PolInv
    BY PollerAssumption DEF Poller!Init, PolInv, Poller!Parallel, Poller!Indices, Poller!count
  <1>2. Poller!Registry!Init
    BY DEF Poller!Init, Poller!Registry!Init, Poller!Indices, Poller!count, Poller!ToSet
  <1> QED BY <1>1, <1>2

(* ImplementsRegistry: growing, failing to grow and moving elements never  *)
(* lose, double or mix up registrations, and a wait reports each handle    *)
(* that is ready once, for any number of handles and any of its arrays.    *)
THEOREM PollerRegistry == Poller!Spec => ImplementsRegistry
  <1>1. Poller!Init => PolInv /\ Poller!Registry!Init
    BY PolInit
  <1>2. PolInv /\ [Poller!Next]_polVars => PolInv'
    BY PolStep
  <1>3. PolInv /\ [Poller!Next]_polVars => [Poller!Registry!Next]_(Poller!Registry!vars)
    BY PolRefines
  <1>4. PolInv => Poller!Parallel
    BY DEF PolInv
  <1> QED BY <1>1, <1>2, <1>3, <1>4, PTL DEF Poller!Spec, Poller!vars, polVars, ImplementsRegistry,
            Poller!ImplementsRegistry, Poller!Registry!Spec, Poller!Registry!vars

-----------------------------------------------------------------------------
Formats == [facility : Facility, formatter : Formatter]

(* Each facility has one entry at most, and asked for what is in it.       *)
ErrInv ==
  /\ errEntries \in Seq(Formats)
  /\ errRegistered \in [Facility -> Formatter \union {Nil}]
  /\ Len(errEntries) <= FormatterCapacity
  /\ \A i, j \in 1 .. Len(errEntries) : errEntries[i].facility = errEntries[j].facility => i = j
  /\ \A i \in 1 .. Len(errEntries) : errEntries[i].formatter = errRegistered[errEntries[i].facility]
  /\ \A f \in Facility : errRegistered[f] # Nil => \E i \in 1 .. Len(errEntries) : errEntries[i].facility = f

LEMMA FormatsAre ==
  ErrInv => /\ Len(errEntries) \in Nat
            /\ DOMAIN errEntries = 1 .. Len(errEntries)
            /\ \A i \in 1 .. Len(errEntries) : /\ errEntries[i] \in Formats
                                               /\ errEntries[i].facility \in Facility
  <1>1. \A e \in Formats : e.facility \in Facility
    BY DEF Formats
  <1>2. errEntries \in Seq(Formats) => \A i \in 1 .. Len(errEntries) : errEntries[i] \in Formats
    OBVIOUS
  <1> QED BY <1>1, <1>2 DEF ErrInv

LEMMA FoundIs ==
  ASSUME ErrInv, NEW f
  PROVE  /\ Errors!Find(f) = {i \in 1 .. Len(errEntries) : errEntries[i].facility = f}
         /\ \A i \in Errors!Find(f) : Errors!Find(f) = {i}
  <1>1. DOMAIN errEntries = 1 .. Len(errEntries)
    BY DEF ErrInv
  <1>2. Errors!Find(f) = {i \in 1 .. Len(errEntries) : errEntries[i].facility = f}
    <2>1. ASSUME NEW i \in 1 .. Len(errEntries), errEntries[i].facility = f, NEW j \in 1 .. i - 1
          PROVE  errEntries[j].facility # f
      BY <2>1 DEF ErrInv
    <2> QED BY <1>1, <2>1 DEF Errors!Find
  <1> QED BY <1>2 DEF ErrInv

LEMMA ErrReplace ==
  ASSUME ErrInv, NEW f \in Facility, NEW w \in Formatter, Errors!Find(f) # {}, Errors!Replace(f, w)
  PROVE  ErrInv'
  <1>1. Errors!Find(f) = {i \in 1 .. Len(errEntries) : errEntries[i].facility = f}
    BY FoundIs
  <1> DEFINE new == [facility |-> f, formatter |-> w]
             n == Len(errEntries)
             entry(i) == IF errEntries[i].facility = f THEN new ELSE errEntries[i]
  <1>2. new \in Formats /\ new.facility = f /\ new.formatter = w
    BY DEF Formats
  <1>3. n \in Nat /\ DOMAIN errEntries = 1 .. n /\ \A i \in 1 .. n : errEntries[i] \in Formats
    BY FormatsAre
  <1>4. errEntries' = [i \in 1 .. n |-> entry(i)]
    BY <1>1, <1>3 DEF Errors!Replace
  <1> HIDE DEF new
  <1>5. \A i \in 1 .. n : entry(i) \in Formats
    BY <1>2, <1>3
  <1> HIDE DEF entry
  <1>6. /\ errEntries' \in Seq(Formats)
        /\ Len(errEntries') = n
        /\ \A i \in 1 .. n : errEntries'[i] = entry(i)
    BY <1>3, <1>4, <1>5
  <1>7. \A i \in 1 .. n : /\ entry(i).facility = errEntries[i].facility
                          /\ entry(i).formatter = IF errEntries[i].facility = f THEN w ELSE errEntries[i].formatter
    BY <1>2 DEF entry
  <1>8. /\ errRegistered' \in [Facility -> Formatter \union {Nil}]
        /\ \A g \in Facility : errRegistered'[g] = IF g = f THEN w ELSE errRegistered[g]
    BY DEF Errors!Replace, ErrInv
  <1>9. \A i \in 1 .. n : errEntries[i].facility \in Facility
    BY FormatsAre
  <1>10. \A i, j \in 1 .. n : errEntries'[i].facility = errEntries'[j].facility => i = j
    BY <1>6, <1>7 DEF ErrInv
  <1>11. \A i \in 1 .. n : errEntries'[i].formatter = errRegistered'[errEntries'[i].facility]
    BY <1>6, <1>7, <1>8, <1>9 DEF ErrInv
  <1>12. ASSUME NEW g \in Facility, errRegistered'[g] # Nil
         PROVE  \E i \in 1 .. n : errEntries'[i].facility = g
    <2>1. PICK i \in 1 .. n : errEntries[i].facility = g
      <3>1. CASE g = f
        BY <1>1, <3>1
      <3>2. CASE g # f
        BY <1>8, <1>12, <3>2 DEF ErrInv
      <3> QED BY <3>1, <3>2
    <2> QED BY <1>6, <1>7, <2>1
  <1> HIDE DEF n
  <1>13. Len(errEntries') = n /\ n <= FormatterCapacity
    BY <1>6 DEF ErrInv, n
  <1> QED BY <1>6, <1>8, <1>10, <1>11, <1>12, <1>13 DEF ErrInv

LEMMA ErrExtend ==
  ASSUME ErrInv, NEW f \in Facility, NEW w \in Formatter, Errors!Extend(f, w)
  PROVE  ErrInv'
  <1>1. \A i \in 1 .. Len(errEntries) : errEntries[i].facility \in Facility /\ errEntries[i].facility # f
    BY FoundIs, FormatsAre DEF Errors!Extend
  <1> DEFINE new == [facility |-> f, formatter |-> w]
  <1>2. new \in Formats /\ new.facility = f /\ new.formatter = w
    BY DEF Formats
  <1> HIDE DEF new
  <1>3. /\ errEntries' \in Seq(Formats)
        /\ Len(errEntries') = Len(errEntries) + 1
        /\ \A i \in 1 .. Len(errEntries) : errEntries'[i] = errEntries[i]
        /\ errEntries'[Len(errEntries) + 1] = new
    BY <1>2 DEF Errors!Extend, ErrInv, new
  <1>4. /\ errRegistered' \in [Facility -> Formatter \union {Nil}]
        /\ \A g \in Facility : errRegistered'[g] = IF g = f THEN w ELSE errRegistered[g]
    BY DEF Errors!Extend, ErrInv
  <1>5. Len(errEntries) \in Nat /\ Len(errEntries) + 1 <= FormatterCapacity
    BY FormattersAssumption DEF Errors!Extend, ErrInv
  <1> DEFINE n == Len(errEntries)
  <1>6. \A i, j \in 1 .. n + 1 : errEntries'[i].facility = errEntries'[j].facility => i = j
    BY <1>1, <1>2, <1>3, <1>5 DEF ErrInv
  <1>7. ASSUME NEW i \in 1 .. n + 1
        PROVE  errEntries'[i].formatter = errRegistered'[errEntries'[i].facility]
    <2>1. CASE i = n + 1
      BY <1>2, <1>3, <1>4, <2>1
    <2>2. CASE i # n + 1
      <3>1. i \in 1 .. n
        BY <1>5, <2>2
      <3> QED BY <1>1, <1>3, <1>4, <3>1 DEF ErrInv
    <2> QED BY <2>1, <2>2
  <1>8. ASSUME NEW g \in Facility, errRegistered'[g] # Nil
        PROVE  \E i \in 1 .. n + 1 : errEntries'[i].facility = g
    <2>1. CASE g = f
      BY <1>2, <1>3, <1>5, <2>1
    <2>2. CASE g # f
      <3>1. PICK i \in 1 .. n : errEntries[i].facility = g
        BY <1>4, <1>8, <2>2 DEF ErrInv
      <3> QED BY <1>3, <1>5, <3>1
    <2> QED BY <2>1, <2>2
  <1> HIDE DEF n
  <1>9. Len(errEntries') = n + 1
    BY <1>3 DEF n
  <1>10. n + 1 <= FormatterCapacity
    BY <1>5 DEF n
  <1> QED BY <1>3, <1>4, <1>6, <1>7, <1>8, <1>9, <1>10 DEF ErrInv

LEMMA ErrUnregister ==
  ASSUME ErrInv, NEW f \in Facility \union {NexusFacility}, Errors!Unregister(f)
  PROVE  ErrInv'
  <1>1. CASE Errors!Find(f) = {}
    <2>1. \A i \in 1 .. Len(errEntries) : errEntries[i].facility # f /\ errEntries[i].facility \in Facility
      BY <1>1, FoundIs, FormatsAre
    <2>2. errEntries' = errEntries
      BY <1>1 DEF Errors!Unregister
    <2>3. errRegistered' \in [Facility -> Formatter \union {Nil}]
      BY DEF Errors!Unregister, ErrInv
    <2>4. \A g \in Facility : errRegistered'[g] = IF g = f THEN Nil ELSE errRegistered[g]
      BY DEF Errors!Unregister, ErrInv
    <2> QED BY <2>1, <2>2, <2>3, <2>4 DEF ErrInv
  <1>2. CASE Errors!Find(f) # {}
    <2>1. PICK p : p \in Errors!Find(f) /\ Errors!Find(f) = {p}
      BY <1>2, FoundIs
    <2>2. /\ p \in 1 .. Len(errEntries) /\ errEntries[p].facility = f
          /\ \A i \in 1 .. Len(errEntries) : errEntries[i].facility = f => i = p
      BY <2>1, FoundIs
    <2>3. f \in Facility
      BY <2>2, FormatsAre
    <2>4. errEntries' = SubSeq([errEntries EXCEPT ![p] = errEntries[Len(errEntries)]], 1, Len(errEntries) - 1)
      BY <1>2, <2>1 DEF Errors!Unregister, Errors!Without
    <2> DEFINE moved == [errEntries EXCEPT ![p] = errEntries[Len(errEntries)]]
    <2>5. /\ moved \in Seq(Formats)
          /\ Len(moved) = Len(errEntries)
          /\ \A i \in 1 .. Len(errEntries) : moved[i] = IF i = p THEN errEntries[Len(errEntries)] ELSE errEntries[i]
      BY <2>2 DEF ErrInv
    <2>6. errEntries' = SubSeq(moved, 1, Len(errEntries) - 1) /\ Len(errEntries) \in Nat \ {0}
      BY <2>2, <2>4 DEF ErrInv
    <2> HIDE DEF moved
    <2>7. /\ errEntries' \in Seq(Formats)
          /\ Len(errEntries') = Len(errEntries) - 1
          /\ \A i \in 1 .. Len(errEntries) - 1 : errEntries'[i] = moved[i]
      BY <2>5, <2>6
    <2>8. /\ errRegistered' \in [Facility -> Formatter \union {Nil}]
          /\ \A g \in Facility : errRegistered'[g] = IF g = f THEN Nil ELSE errRegistered[g]
      BY <2>3 DEF Errors!Unregister, ErrInv
    <2> DEFINE n == Len(errEntries)
    <2>9. \A i \in 1 .. n - 1 : errEntries'[i] = IF i = p THEN errEntries[n] ELSE errEntries[i]
      BY <2>5, <2>7
    <2>10. ASSUME NEW i \in 1 .. n - 1, NEW j \in 1 .. n - 1, errEntries'[i].facility = errEntries'[j].facility
           PROVE  i = j
      BY <2>2, <2>9, <2>10 DEF ErrInv
    <2>11. ASSUME NEW i \in 1 .. n - 1
           PROVE  errEntries'[i].formatter = errRegistered'[errEntries'[i].facility]
      <3>0. n \in 1 .. n /\ i \in 1 .. n /\ i # n
        BY <2>6
      <3>1. PICK j \in 1 .. n : j # p /\ errEntries'[i] = errEntries[j]
        <4>1. CASE i = p
          BY <2>9, <3>0, <4>1
        <4>2. CASE i # p
          BY <2>9, <3>0, <4>2
        <4> QED BY <4>1, <4>2
      <3>2. errEntries[j].facility \in Facility /\ errEntries[j].facility # f
        BY <2>2, <3>1, FormatsAre
      <3>3. errEntries[j].formatter = errRegistered[errEntries[j].facility]
        BY <3>1 DEF ErrInv
      <3> QED BY <2>8, <3>1, <3>2, <3>3
    <2>12. ASSUME NEW g \in Facility, errRegistered'[g] # Nil
           PROVE  \E i \in 1 .. n - 1 : errEntries'[i].facility = g
      <3>1. g # f /\ errRegistered[g] # Nil
        BY <2>8, <2>12
      <3>2. PICK j \in 1 .. n : errEntries[j].facility = g
        BY <3>1 DEF ErrInv
      <3>3. j # p
        BY <2>2, <3>1, <3>2
      <3>4. n \in Nat \ {0} /\ p \in 1 .. n /\ j \in 1 .. n
        BY <2>2, <2>6, <3>2
      <3> HIDE DEF n
      <3>5. CASE j = n
        <4>1. p \in 1 .. n - 1
          BY <3>3, <3>4, <3>5
        <4>2. errEntries'[p] = errEntries[n]
          BY <2>9, <4>1
        <4> QED BY <3>2, <3>5, <4>1, <4>2
      <3>6. CASE j # n
        <4>1. j \in 1 .. n - 1
          BY <3>4, <3>6
        <4>2. errEntries'[j] = errEntries[j]
          BY <2>9, <3>3, <4>1
        <4> QED BY <3>2, <4>1, <4>2
      <3> QED BY <3>5, <3>6
    <2>13. n - 1 <= FormatterCapacity
      BY <2>6, FormattersAssumption DEF ErrInv
    <2> HIDE DEF n
    <2>14. Len(errEntries') = n - 1
      BY <2>7 DEF n
    <2> QED BY <2>7, <2>8, <2>10, <2>11, <2>12, <2>13, <2>14 DEF ErrInv
  <1> QED BY <1>1, <1>2

LEMMA ErrStep ==
  ASSUME ErrInv, [Errors!Next]_errVars
  PROVE  ErrInv'
  <1>1. CASE UNCHANGED errVars
    BY <1>1 DEF errVars, ErrInv
  <1>2. ASSUME NEW f \in Facility \union {NexusFacility}, NEW w \in Formatter \union {Nil}, Errors!Register(f, w)
        PROVE  ErrInv'
    <2>1. CASE Errors!Refuse(f, w)
      BY <2>1 DEF Errors!Refuse, ErrInv
    <2>2. CASE ~Errors!Refuse(f, w)
      <3>1. w \in Formatter /\ f \in Facility
        BY <1>2, <2>2 DEF Errors!Register
      <3>2. (Errors!Find(f) # {} /\ Errors!Replace(f, w)) \/ Errors!Extend(f, w)
        BY <1>2, <2>2 DEF Errors!Register
      <3> QED BY <3>1, <3>2, ErrReplace, ErrExtend
    <2> QED BY <2>1, <2>2
  <1> QED BY <1>1, <1>2, ErrUnregister DEF Errors!Next

(* Worded: an error is worded by the formatter its facility registered     *)
(* last, whatever was registered, replaced and taken back in between.      *)
THEOREM LastRegisteredWords == Errors!Spec => []Worded
  <1>1. Errors!Init => ErrInv
    BY FormattersAssumption DEF Errors!Init, ErrInv
  <1>2. ErrInv /\ [Errors!Next]_errVars => ErrInv'
    BY ErrStep
  <1>3. ErrInv => Worded
    <2> SUFFICES ASSUME ErrInv PROVE Worded
      OBVIOUS
    <2>1. ASSUME NEW f \in Facility
          PROVE  Errors!Words(f) = errRegistered[f]
      <3>1. f # NexusFacility
        BY FormattersAssumption
      <3>2. CASE Errors!Find(f) = {}
        BY <3>1, <3>2, FoundIs DEF ErrInv, Errors!Words, Errors!Lookup
      <3>3. CASE Errors!Find(f) # {}
        <4>1. PICK p : p \in Errors!Find(f) /\ Errors!Find(f) = {p}
          BY <3>3, FoundIs
        <4>2. p \in 1 .. Len(errEntries) /\ errEntries[p].facility = f
          BY <4>1, FoundIs
        <4>3. Errors!Words(f) = errEntries[p].formatter
          BY <3>1, <3>3, <4>1 DEF Errors!Words, Errors!Lookup
        <4> QED BY <4>2, <4>3 DEF ErrInv
      <3> QED BY <3>2, <3>3
    <2>2. Errors!Words(NexusFacility) = NexusFacility
      BY DEF Errors!Words
    <2>3. DOMAIN errEntries = 1 .. Len(errEntries)
      BY DEF ErrInv
    <2> QED BY <2>1, <2>2, <2>3 DEF Worded, Errors!Worded, ErrInv
  <1> QED BY <1>1, <1>2, <1>3, PTL DEF Errors!Spec, Errors!vars, errVars

-----------------------------------------------------------------------------
(* The atomics.  Numbers are congruent when their bits are the same.       *)
M == Atomic!Modulus
H == Atomic!Modulus \div 2
Bits == 0 .. M - 1
Congruent(a, b) == \E k \in Int : a - b = k * M

LEMMA Words ==
  /\ H \in Nat \ {0} /\ M = 2 * H /\ M \in Nat \ {0}
  /\ Atomic!Signed = -H .. H - 1
  /\ \A n \in Int : Atomic!ToBits(n) = n % M
  /\ AtomicDelta \subseteq Atomic!Signed
  BY AtomicsAssumption DEF M, H, Atomic!Signed, Atomic!ToBits

LEMMA Remainder ==
  ASSUME NEW n \in Int
  PROVE  n % M \in Bits /\ Congruent(n, n % M)
  <1>1. M \in Int /\ M > 0
    BY Words
  <1> HIDE DEF M
  <1>2. n % M \in 0 .. M - 1 /\ n \div M \in Int /\ n = M * (n \div M) + (n % M)
    BY <1>1
  <1>3. n - (n % M) = (n \div M) * M
    BY <1>1, <1>2
  <1> QED BY <1>2, <1>3 DEF Congruent, Bits

LEMMA Congruence ==
  ASSUME NEW a \in Int, NEW b \in Int, NEW c \in Int
  PROVE  /\ Congruent(a, b) => Congruent(b, a)
         /\ Congruent(a, b) /\ Congruent(b, c) => Congruent(a, c)
         /\ Congruent(a, b) => Congruent(a + c, b + c)
  <1>0. M \in Int
    BY Words
  <1> HIDE DEF M
  <1>1. ASSUME Congruent(a, b)
        PROVE  Congruent(b, a)
    <2>1. PICK k \in Int : a - b = k * M
      BY <1>1 DEF Congruent
    <2>2. b - a = (-k) * M /\ -k \in Int
      BY <1>0, <2>1
    <2> QED BY <2>2 DEF Congruent
  <1>2. ASSUME Congruent(a, b), Congruent(b, c)
        PROVE  Congruent(a, c)
    <2>1. PICK k \in Int : a - b = k * M
      BY <1>2 DEF Congruent
    <2>2. PICK l \in Int : b - c = l * M
      BY <1>2 DEF Congruent
    <2>3. a - c = (k + l) * M /\ k + l \in Int
      BY <1>0, <2>1, <2>2
    <2> QED BY <2>3 DEF Congruent
  <1>3. ASSUME Congruent(a, b)
        PROVE  Congruent(a + c, b + c)
    BY <1>0, <1>3 DEF Congruent
  <1> QED BY <1>1, <1>2, <1>3

(* Congruent numbers less than the modulus apart are the same.             *)
LEMMA Apart ==
  ASSUME NEW a \in Int, NEW b \in Int, Congruent(a, b), a - b < M, b - a < M
  PROVE  a = b
  <1>1. M \in Int /\ M > 0
    BY Words
  <1>2. PICK k \in Int : a - b = k * M
    BY DEF Congruent
  <1> HIDE DEF M
  <1>3. k < 1
    <2>1. k >= 1 => k * M >= M
      BY <1>1
    <2> QED BY <1>1, <1>2, <2>1
  <1>4. k > -1
    <2>1. k <= -1 => k * M <= -M
      BY <1>1
    <2> QED BY <1>1, <1>2, <2>1
  <1>5. k = 0
    BY <1>3, <1>4
  <1> QED BY <1>1, <1>2, <1>5

LEMMA Number ==
  ASSUME NEW b \in Bits
  PROVE  Atomic!FromBits(b) \in Atomic!Signed /\ Congruent(b, Atomic!FromBits(b))
  <1>1. Atomic!FromBits(b) = IF b \in Atomic!Signed THEN b ELSE b - M
    BY DEF Atomic!FromBits, M
  <1>2. b \in 0 .. M - 1
    BY DEF Bits
  <1>3. Atomic!FromBits(b) \in Atomic!Signed
    <2>1. CASE b \in -H .. H - 1
      BY <1>1, <2>1, Words
    <2>2. CASE b \notin -H .. H - 1
      <3>1. b >= H /\ b < 2 * H
        BY <1>2, <2>2, Words
      <3>2. b - M \in -H .. H - 1
        BY <1>2, <3>1, Words
      <3> QED BY <1>1, <2>2, <3>2, Words
    <2> QED BY <2>1, <2>2
  <1>4. b - b = 0 * M /\ b - (b - M) = 1 * M
    BY <1>2, Words
  <1> QED BY <1>1, <1>3, <1>4 DEF Congruent

(* A number of the signed type is known by the bits of any congruent one.  *)
LEMMA ReadBack ==
  ASSUME NEW n \in Int, NEW s \in Atomic!Signed, Congruent(n, s)
  PROVE  Atomic!FromBits(n % M) = s
  <1> DEFINE r == Atomic!FromBits(n % M)
  <1>1. n % M \in Bits /\ Congruent(n, n % M)
    BY Remainder
  <1>2. r \in Atomic!Signed /\ Congruent(n % M, r)
    BY <1>1, Number
  <1> HIDE DEF r
  <1>3. s \in Int /\ r \in Int /\ n % M \in Int
    BY <1>1, <1>2, Words DEF Bits
  <1>4. Congruent(n, r) /\ Congruent(s, n)
    BY <1>1, <1>2, <1>3, Congruence
  <1>5. Congruent(s, r)
    BY <1>3, <1>4, Congruence
  <1>6. s - r < M /\ r - s < M
    BY <1>2, Words
  <1>7. s = r
    BY <1>3, <1>5, <1>6, Apart
  <1> QED BY <1>7 DEF r

LEMMA Self ==
  ASSUME NEW n \in Int
  PROVE  Congruent(n, n)
  <1>1. n - n = 0 * M
    BY Words
  <1> QED BY <1>1 DEF Congruent

LEMMA WrappedIs ==
  ASSUME NEW n \in Int
  PROVE  Atomic!Wrapped(n) \in Atomic!Signed /\ Congruent(n, Atomic!Wrapped(n))
  <1>1. n % M \in Bits /\ Congruent(n, n % M)
    BY Remainder
  <1> DEFINE r == Atomic!FromBits(n % M)
  <1>2. r \in Atomic!Signed /\ Congruent(n % M, r)
    BY <1>1, Number
  <1> HIDE DEF r
  <1>3. r \in Int /\ n % M \in Int
    BY <1>1, <1>2, Words DEF Bits
  <1>4. Congruent(n, r)
    BY <1>1, <1>2, <1>3, Congruence
  <1>5. \A s \in Int : Congruent(n, s) <=> (n - s) % M = 0
    <2>1. M \in Int /\ M > 0
      BY Words
    <2> HIDE DEF M
    <2>2. ASSUME NEW s \in Int, Congruent(n, s)
          PROVE  (n - s) % M = 0
      <3>1. PICK k \in Int : n - s = k * M
        BY <2>2 DEF Congruent
      <3> DEFINE q == (n - s) % M
      <3>2. n - s \in Int /\ 0 \in Int
        OBVIOUS
      <3>3. q \in Bits /\ Congruent(n - s, q)
        BY <3>2, Remainder
      <3> HIDE DEF q
      <3>4. q \in Int /\ q < M /\ q >= 0
        BY <2>1, <3>3 DEF Bits
      <3>5. Congruent(n - s, 0)
        <4>1. n - s - 0 = k * M
          BY <3>1, <2>1
        <4> QED BY <4>1 DEF Congruent
      <3>6. Congruent(q, 0)
        BY <3>2, <3>3, <3>4, <3>5, Congruence
      <3>7. q - 0 < M /\ 0 - q < M
        BY <2>1, <3>4
      <3>8. q = 0
        BY <3>2, <3>4, <3>6, <3>7, Apart
      <3> QED BY <3>8 DEF q
    <2>3. ASSUME NEW s \in Int, (n - s) % M = 0
          PROVE  Congruent(n, s)
      <3>1. Congruent(n - s, 0)
        BY <2>3, Remainder
      <3>2. PICK k \in Int : n - s - 0 = k * M
        BY <3>1 DEF Congruent
      <3> QED BY <2>1, <3>2 DEF Congruent
    <2> QED BY <2>2, <2>3
  <1>6. r \in Atomic!Signed /\ (n - r) % Atomic!Modulus = 0
    BY <1>2, <1>3, <1>4, <1>5 DEF M
  <1>7. Atomic!Wrapped(n) \in Atomic!Signed /\ (n - Atomic!Wrapped(n)) % Atomic!Modulus = 0
    BY <1>6 DEF Atomic!Wrapped
  <1>8. Atomic!Wrapped(n) \in Int
    BY <1>7, Words
  <1> QED BY <1>5, <1>7, <1>8 DEF M

(* The bits are those of the number meant, and what is loaded was one.     *)
AtInv ==
  /\ atStorage \in Bits
  /\ atLoaded \in [Thread -> Atomic!Signed \union {Nil}]
  /\ atMeant = Atomic!FromBits(atStorage)
  /\ atAnswer = atExpected

LEMMA AtStep ==
  ASSUME AtInv, [Atomic!Next]_atVars
  PROVE  AtInv'
  <1>1. /\ atMeant \in Atomic!Signed /\ atMeant \in Int /\ atStorage \in Int
        /\ Congruent(atStorage, atMeant)
    BY Number, Words DEF AtInv, Bits
  <1>2. CASE UNCHANGED atVars
    BY <1>2 DEF atVars, AtInv
  <1>3. ASSUME NEW t \in Thread, Atomic!Load(t)
        PROVE  AtInv'
    BY <1>1, <1>3 DEF Atomic!Load, AtInv
  <1>4. ASSUME NEW t \in Thread, NEW delta \in AtomicDelta, Atomic!Add(t, delta)
        PROVE  AtInv'
    <2>1. delta \in Int /\ delta \in Atomic!Signed
      BY Words
    <2> DEFINE bits == delta % M
               sum == atStorage + bits
               w == Atomic!Wrapped(atMeant + delta)
    <2>2. bits \in Bits /\ Congruent(delta, bits)
      BY <2>1, Remainder
    <2>3. atStorage' = sum % M /\ atMeant' = w /\ atAnswer' = Atomic!FromBits(atStorage') /\ atExpected' = atMeant'
          /\ atLoaded' = atLoaded
      <3>1. Atomic!ToBits(delta) = bits
        BY <2>1, Words
      <3> HIDE DEF bits
      <3> QED BY <1>4, <3>1 DEF Atomic!Add, M
    <2> HIDE DEF bits
    <2>4. atStorage + delta \in Int /\ atMeant + delta \in Int /\ sum \in Int /\ bits \in Int
      BY <1>1, <2>1, <2>2 DEF Bits
    <2> HIDE DEF w
    <2>5. Congruent(sum, atStorage + delta)
      <3>1. Congruent(delta + atStorage, bits + atStorage)
        BY <1>1, <2>1, <2>2, <2>4, Congruence
      <3>2. delta + atStorage = atStorage + delta /\ bits + atStorage = sum
        BY <1>1, <2>1, <2>4
      <3> HIDE DEF sum
      <3> QED BY <2>4, <3>1, <3>2, Congruence
    <2>6. Congruent(atStorage + delta, atMeant + delta)
      BY <1>1, <2>1, Congruence
    <2> HIDE DEF sum
    <2>7. Congruent(atMeant + delta, w) /\ w \in Atomic!Signed /\ w \in Int
      BY <2>4, WrappedIs, Words DEF w
    <2>8. Congruent(sum, atMeant + delta)
      BY <2>4, <2>5, <2>6, Congruence
    <2>9. Congruent(sum, w)
      BY <2>4, <2>7, <2>8, Congruence
    <2>10. Atomic!FromBits(atStorage') = w
      BY <2>3, <2>4, <2>7, <2>9, ReadBack
    <2>11. atStorage' \in Bits
      BY <2>3, <2>4, Remainder
    <2> QED BY <2>3, <2>10, <2>11 DEF AtInv, Atomic!FromBits
  <1>5. ASSUME NEW t \in Thread, NEW delta \in AtomicDelta, Atomic!Swap(t, delta)
        PROVE  AtInv'
    <2>1. delta \in Int /\ delta \in Atomic!Signed
      BY Words
    <2>2. atStorage' = delta % M
      BY <1>5, <2>1, Words DEF Atomic!Swap
    <2>3. atStorage' \in Bits /\ Atomic!FromBits(atStorage') = delta
      BY <2>1, <2>2, Remainder, ReadBack, Self
    <2> QED BY <1>5, <2>3 DEF Atomic!Swap, AtInv, Atomic!FromBits
  <1>6. ASSUME NEW t \in Thread, NEW delta \in AtomicDelta, Atomic!CompareExchange(t, delta)
        PROVE  AtInv'
    <2> DEFINE old == atLoaded[t]
    <2>1. old \in Atomic!Signed /\ old \in Int /\ delta \in Int
      BY <1>6, Words DEF AtInv, Atomic!CompareExchange
    <2>2. old + delta \in Atomic!Signed /\ old + delta \in Int
      BY <1>6, <2>1 DEF Atomic!CompareExchange
    <2>3. atLoaded' \in [Thread -> Atomic!Signed \union {Nil}] /\ atAnswer' = atExpected'
      BY <1>6 DEF Atomic!CompareExchange, AtInv
    <2>4. CASE Atomic!Holds(old)
      <3>1. atStorage = old % M
        BY <2>1, <2>4, Words DEF Atomic!Holds
      <3>2. atMeant = old
        BY <2>1, <3>1, Self, ReadBack DEF AtInv
      <3>3. atStorage' = (old + delta) % M /\ atMeant' = Atomic!Wrapped(old + delta)
        BY <1>6, <2>2, <2>4, <3>2, Words DEF Atomic!CompareExchange
      <3>4. atStorage' \in Bits
        BY <2>2, <3>3, Remainder
      <3>5. Atomic!FromBits(atStorage') = atMeant'
        BY <2>2, <3>3, WrappedIs, ReadBack
      <3> QED BY <2>3, <3>4, <3>5 DEF AtInv, Atomic!FromBits
    <2>5. CASE ~Atomic!Holds(old)
      <3>1. UNCHANGED <<atStorage, atMeant>>
        BY <1>6, <2>5 DEF Atomic!CompareExchange
      <3> QED BY <2>3, <3>1 DEF AtInv
    <2> QED BY <2>4, <2>5
  <1> QED BY <1>2, <1>3, <1>4, <1>5, <1>6 DEF Atomic!Next

(* AtomicsCount: no addition, exchange or replacement is lost or made      *)
(* twice, for words of any number of bits.                                 *)
THEOREM NothingLost == Atomic!Spec => []AtomicsCount
  <1>1. Atomic!Init => AtInv
    <2>1. 0 \in Bits /\ 0 \in Atomic!Signed
      BY Words DEF Bits
    <2> QED BY <2>1 DEF Atomic!Init, AtInv, Atomic!FromBits
  <1>2. AtInv /\ [Atomic!Next]_atVars => AtInv'
    BY AtStep
  <1>3. AtInv => AtomicsCount
    BY DEF AtInv, AtomicsCount, Atomic!Counted
  <1> QED BY <1>1, <1>2, <1>3, PTL DEF Atomic!Spec, Atomic!vars, atVars

-----------------------------------------------------------------------------
(* Registered: whatever is captured, registered, replaced and taken back,  *)
(* nothing acts for what was taken back.                                   *)
THEOREM RegistrationsHold == Signal!Spec /\ Errors!Spec => []Registered
  <1>1. Quiet /\ Worded => Registered
    BY DEF Registered
  <1> QED BY <1>1, ReleaseIsQuiet, LastRegisteredWords, PTL

(* CountsKept: whichever ioctl fails, and however the threads' steps fall, *)
(* counters and atomics count what there was to count.                     *)
THEOREM CountsHold == Counters!Spec /\ Atomic!Spec => []CountsKept
  <1>1. Paused /\ AtomicsCount => CountsKept
    BY DEF CountsKept
  <1> QED BY <1>1, CountersPause, NothingLost, PTL
=============================================================================
