------------------------------- MODULE HubProofs -------------------------------
(***************************************************************************)
(* Proofs about Hub, for every number of players, sockets, rooms and       *)
(* rounds and every size of a queue.                                       *)
(***************************************************************************)
EXTENDS Hub, SequenceTheorems, TLAPS

\* A socket has a player from its registration to the end of its read pump.
SockOK(s) ==
    /\ sock[s].pc \in {"registering", "up"} => sock[s].player \in Players
    /\ sock[s].pc \in {"new", "gone"} => sock[s].player = None

\* The message a session works on is about a room.
SessOK(s) == sess[s].pc # "idle" => sess[s].room \in Rooms

\* A loop tells of its own room, and DetachRoom is not told to anyone.
PushOK(r) ==
    \A i \in DOMAIN push[r] :
        /\ push[r][i].frame.room = r
        /\ push[r][i].frame.type = "detach" => push[r][i].to = {}

TypeInv ==
    /\ TypeOK
    /\ \A s \in Sockets : SockOK(s) /\ SessOK(s)
    /\ \A r \in Rooms : PushOK(r)

LEMMA NewSockType ==
    /\ NewSock \in SockRecords
    /\ NewSock.pc = "new" /\ NewSock.player = None /\ NewSock.prev = None
  BY DEF NewSock, SockRecords

LEMMA IdleSessType == IdleSess \in SessRecords /\ IdleSess.pc = "idle"
  BY HubAssumption DEF IdleSess, SessRecords

LEMMA ErrorFrameType == ErrorFrame \in Frames /\ ErrorFrame.room = None
  BY HubAssumption DEF ErrorFrame, Frame, Frames, FrameTypes

LEMMA KeptType == ASSUME NEW s, NEW f \in Frames PROVE Kept(s, f) \in Frames
  BY ErrorFrameType DEF Kept

\* One frame more in one queue that has room for it.
LEMMA AppendKeeps ==
    ASSUME TypeOK, NEW s \in Sockets, NEW f \in Frames, Len(queue[s]) < SendBuffer,
           queue' = [queue EXCEPT ![s] = Append(@, f)]
    PROVE  /\ queue' \in [Sockets -> Seq(Frames)]
           /\ \A t \in Sockets : Len(queue'[t]) <= SendBuffer
           /\ queue'[s] = Append(queue[s], f)
           /\ \A t \in Sockets : t # s => queue'[t] = queue[t]
  <1>1. queue[s] \in Seq(Frames)
    BY DEF TypeOK
  <1>2. Append(queue[s], f) \in Seq(Frames) /\ Len(Append(queue[s], f)) = Len(queue[s]) + 1
    BY <1>1, AppendProperties
  <1>3. Len(queue[s]) + 1 <= SendBuffer
    BY <1>1, LenProperties, HubAssumption
  <1> QED
    BY <1>2, <1>3 DEF TypeOK

\* Client.enqueue: the frame is the last of the queue or is not in it, and a
\* socket may be closed, never reopened.
LEMMA EnqueueKeeps ==
    ASSUME TypeOK, NEW s \in Sockets, NEW f \in Frames, Enqueue(s, f)
    PROVE  /\ queue' \in [Sockets -> Seq(Frames)]
           /\ \A t \in Sockets : Len(queue'[t]) <= SendBuffer
           /\ closed' \in [Sockets -> BOOLEAN]
           /\ \A t \in Sockets : t # s => queue'[t] = queue[t]
           /\ \A t \in Sockets : t # s => closed'[t] = closed[t]
           /\ queue'[s] = queue[s] \/ queue'[s] = Append(queue[s], Kept(s, f))
           /\ \A t \in Sockets : closed[t] => closed'[t]
           /\ closed'[s] \/ queue'[s] = Append(queue[s], Kept(s, f))
  <1>1. CASE closed[s] /\ UNCHANGED <<queue, closed>>
    BY <1>1 DEF TypeOK
  <1>2. CASE /\ Len(queue[s]) < SendBuffer
             /\ queue' = [queue EXCEPT ![s] = Append(@, Kept(s, f))]
             /\ UNCHANGED closed
    <2>1. Kept(s, f) \in Frames
      BY KeptType
    <2> QED
      BY <1>2, <2>1, AppendKeeps DEF TypeOK
  <1>3. CASE closed' = [closed EXCEPT ![s] = TRUE] /\ UNCHANGED queue
    BY <1>3 DEF TypeOK
  <1> QED
    BY <1>1, <1>2, <1>3 DEF Enqueue

\* Hub.SendToPlayer: the same, of the socket the player has now.
LEMMA SendKeeps ==
    ASSUME TypeOK, NEW p \in Players, NEW f \in Frames, SendToPlayer(p, f)
    PROVE  /\ queue' \in [Sockets -> Seq(Frames)]
           /\ \A t \in Sockets : Len(queue'[t]) <= SendBuffer
           /\ closed' \in [Sockets -> BOOLEAN]
           /\ \A t \in Sockets : t # clients[p] => queue'[t] = queue[t]
           /\ \A t \in Sockets : t # clients[p] => closed'[t] = closed[t]
           /\ \A t \in Sockets : closed[t] => closed'[t]
           /\ \A t \in Sockets :
                 queue'[t] = queue[t] \/ queue'[t] = Append(queue[t], Kept(t, f))
           /\ clients[p] # None =>
                 closed'[clients[p]]
                    \/ queue'[clients[p]] = Append(queue[clients[p]], Kept(clients[p], f))
  <1>1. CASE clients[p] = None
    BY <1>1 DEF SendToPlayer, TypeOK
  <1>2. CASE clients[p] # None
    <2>1. clients[p] \in Sockets
      BY <1>2 DEF TypeOK
    <2>2. Enqueue(clients[p], f)
      BY <1>2 DEF SendToPlayer
    <2> QED
      BY <2>1, <2>2, EnqueueKeeps
  <1> QED
    BY <1>1, <1>2
-----------------------------------------------------------------------------
LEMMA TypeInvStep ==
    ASSUME TypeInv, [Next]_vars
    PROVE  TypeInv'
  <1> USE DEF vars, dbVars, hubVars, sockVars
  <1>0. /\ TypeOK /\ (\A s \in Sockets : SockOK(s) /\ SessOK(s))
        /\ \A r \in Rooms : PushOK(r)
    BY DEF TypeInv
  <1>1. CASE UNCHANGED vars
    BY <1>1 DEF TypeInv, TypeOK, SockOK, SessOK, PushOK
  <1>2. ASSUME NEW s \in Sockets, Refuse(s) PROVE TypeInv'
    <2>1. /\ sock' \in [Sockets -> SockRecords]
          /\ sock'[s].pc = "gone" /\ sock'[s].player = sock[s].player
          /\ \A t \in Sockets : t # s => sock'[t] = sock[t]
      <3> DEFINE y == [sock[s] EXCEPT !.pc = "gone"]
      <3>1. sock' = [sock EXCEPT ![s] = y]
        BY <1>0, <1>2 DEF Refuse, TypeOK
      <3>2. sock[s] \in SockRecords
        BY <1>0 DEF TypeOK
      <3>3. y \in SockRecords /\ y.pc = "gone" /\ y.player = sock[s].player
        BY <3>2 DEF SockRecords
      <3> HIDE DEF y
      <3> QED
        BY <1>0, <3>1, <3>3 DEF TypeOK
    <2>2. \A t \in Sockets : SockOK(t)'
      BY <1>0, <1>2, <2>1 DEF Refuse, SockOK
    <2> QED
      BY <1>0, <1>2, <2>1, <2>2 DEF Refuse, TypeInv, TypeOK, SessOK, PushOK
  <1>3. ASSUME NEW s \in Sockets, NEW p \in Players, Register(s, p) PROVE TypeInv'
    <2>1. clients[p] \in Sockets \cup {None}
      BY <1>0 DEF TypeOK
    <2> DEFINE y == [NewSock EXCEPT !.pc = "registering", !.player = p,
                                    !.prev = clients[p]]
    <2>2. y \in SockRecords /\ y.pc = "registering" /\ y.player = p
      BY <2>1, NewSockType DEF SockRecords
    <2>3. sock' = [sock EXCEPT ![s] = y]
      BY <1>3 DEF Register
    <2> HIDE DEF y
    <2>4. sock' \in [Sockets -> SockRecords] /\ \A t \in Sockets : SockOK(t)'
      BY <1>0, <2>2, <2>3 DEF SockOK, TypeOK
    <2>5. clients' \in [Players -> Sockets \cup {None}]
      BY <1>0, <1>3 DEF Register, TypeOK
    <2> QED
      BY <1>0, <1>3, <2>4, <2>5 DEF Register, TypeInv, TypeOK, SessOK, PushOK
  <1>4. ASSUME NEW s \in Sockets, Replace(s) PROVE TypeInv'
    <2>1. /\ sock' \in [Sockets -> SockRecords]
          /\ sock'[s].pc = "up" /\ sock'[s].player = sock[s].player
          /\ \A t \in Sockets : t # s => sock'[t] = sock[t]
      <3> DEFINE y == [sock[s] EXCEPT !.pc = "up", !.prev = None]
      <3>1. sock' = [sock EXCEPT ![s] = y]
        BY <1>0, <1>4 DEF Replace, TypeOK
      <3>2. y \in SockRecords /\ y.pc = "up" /\ y.player = sock[s].player
        BY <1>0 DEF TypeOK, SockRecords
      <3> HIDE DEF y
      <3> QED
        BY <1>0, <3>1, <3>2 DEF TypeOK
    <2>2. \A t \in Sockets : SockOK(t)'
      BY <1>0, <1>4, <2>1 DEF Replace, SockOK
    <2>3. writer' \in [Sockets -> BOOLEAN]
      BY <1>0, <1>4 DEF Replace, TypeOK
    <2>4. sock[s].prev \in Sockets \cup {None}
      BY <1>0 DEF TypeOK, SockRecords
    <2>5. closed' \in [Sockets -> BOOLEAN]
      BY <1>0, <1>4, <2>4 DEF Replace, TypeOK
    <2>6. /\ queue' \in [Sockets -> Seq(Frames)]
          /\ \A t \in Sockets : Len(queue'[t]) <= SendBuffer
      <3>1. CASE UNCHANGED queue
        BY <1>0, <3>1 DEF TypeOK
      <3>2. CASE ~UNCHANGED queue
        <4> DEFINE old == sock[s].prev
        <4>1. /\ old # None /\ Len(queue[old]) < SendBuffer
              /\ queue' = [queue EXCEPT ![old] = Append(@, ErrorFrame)]
          BY <1>4, <3>2 DEF Replace
        <4>2. old \in Sockets
          BY <2>4, <4>1
        <4> HIDE DEF old
        <4> QED
          BY <1>0, <4>1, <4>2, ErrorFrameType, AppendKeeps
      <3> QED
        BY <3>1, <3>2
    <2> QED
      BY <1>0, <1>4, <2>1, <2>2, <2>3, <2>5, <2>6 DEF Replace, TypeInv, TypeOK, SessOK, PushOK
  <1>5. ASSUME NEW s \in Sockets, ReadPumpEnds(s) PROVE TypeInv'
    <2> DEFINE y == [NewSock EXCEPT !.pc = "gone"]
    <2>1. y \in SockRecords /\ y.pc = "gone" /\ y.player = None
      BY NewSockType DEF SockRecords
    <2>2. sock' = [sock EXCEPT ![s] = y]
      BY <1>5 DEF ReadPumpEnds
    <2> HIDE DEF y
    <2>3. sock' \in [Sockets -> SockRecords] /\ \A t \in Sockets : SockOK(t)'
      BY <1>0, <2>1, <2>2 DEF SockOK, TypeOK
    <2>4. sock[s].player \in Players
      BY <1>0, <1>5 DEF ReadPumpEnds, SockOK
    <2>5. /\ clients' \in [Players -> Sockets \cup {None}]
          /\ rooms' \in [Rooms -> SUBSET Players]
      <3>1. CASE clients[sock[s].player] = s
        <4>1. /\ clients' = [clients EXCEPT ![sock[s].player] = None]
              /\ rooms' = [r \in Rooms |-> rooms[r] \ {sock[s].player}]
          BY <1>5, <3>1 DEF ReadPumpEnds, Unregister
        <4>2. \A r \in Rooms : rooms[r] \ {sock[s].player} \in SUBSET Players
          BY <1>0 DEF TypeOK
        <4> QED
          BY <1>0, <4>1, <4>2 DEF TypeOK
      <3>2. CASE clients[sock[s].player] # s
        BY <1>0, <1>5, <3>2 DEF ReadPumpEnds, Unregister, TypeOK
      <3> QED
        BY <3>1, <3>2
    <2>6. closed' \in [Sockets -> BOOLEAN]
      BY <1>0, <1>5 DEF ReadPumpEnds, TypeOK
    <2> QED
      BY <1>0, <1>5, <2>3, <2>5, <2>6 DEF ReadPumpEnds, TypeInv, TypeOK, SessOK, PushOK
  <1>6. ASSUME NEW s \in Sockets, Write(s) PROVE TypeInv'
    <2>1. queue[s] \in Seq(Frames) /\ queue[s] # <<>> /\ got[s] \in Seq(Frames)
      BY <1>0, <1>6 DEF Write, TypeOK
    <2>2. /\ Head(queue[s]) \in Frames /\ Tail(queue[s]) \in Seq(Frames)
          /\ Len(Tail(queue[s])) = Len(queue[s]) - 1 /\ Len(queue[s]) \in Nat
      BY <2>1, HeadTailProperties, LenProperties
    <2>3. queue' = [queue EXCEPT ![s] = Tail(queue[s])]
      BY <1>0, <1>6 DEF Write, TypeOK
    <2>4. /\ queue' \in [Sockets -> Seq(Frames)]
          /\ \A t \in Sockets : Len(queue'[t]) <= SendBuffer
      <3>1. Len(Tail(queue[s])) <= SendBuffer
        BY <1>0, <2>2, HubAssumption DEF TypeOK
      <3> QED
        BY <1>0, <2>2, <2>3, <3>1 DEF TypeOK
    <2>5. got' \in [Sockets -> Seq(Frames)]
      <3>1. Append(got[s], Head(queue[s])) \in Seq(Frames)
        BY <2>1, <2>2, AppendProperties
      <3>2. got' = got \/ got' = [got EXCEPT ![s] = Append(got[s], Head(queue[s]))]
        BY <1>0, <1>6 DEF Write, TypeOK
      <3> QED
        BY <1>0, <3>1, <3>2 DEF TypeOK
    <2> QED
      BY <1>0, <1>6, <2>4, <2>5 DEF Write, TypeInv, TypeOK, SockOK, SessOK, PushOK
  <1>7. ASSUME NEW s \in Sockets, WritePumpEnds(s) PROVE TypeInv'
    <2>1. <<>> \in Seq(Frames) /\ Len(<<>>) <= SendBuffer
      BY HubAssumption, EmptySeq
    <2>2. /\ queue' \in [Sockets -> Seq(Frames)] /\ got' \in [Sockets -> Seq(Frames)]
          /\ \A t \in Sockets : Len(queue'[t]) <= SendBuffer
      BY <1>0, <1>7, <2>1 DEF WritePumpEnds, TypeOK
    <2>3. writer' \in [Sockets -> BOOLEAN] /\ closed' \in [Sockets -> BOOLEAN]
      BY <1>0, <1>7 DEF WritePumpEnds, TypeOK
    <2> QED
      BY <1>0, <1>7, <2>2, <2>3 DEF WritePumpEnds, TypeInv, TypeOK, SockOK, SessOK, PushOK
  <1>8. ASSUME NEW s \in Sockets, NEW r \in Rooms, JoinRoom(s, r) PROVE TypeInv'
    <2>1. sock[s].player \in Players
      BY <1>0, <1>8 DEF JoinRoom, Runs, SockOK
    <2>2. members' \in [Rooms -> SUBSET Players]
      BY <1>0, <1>8, <2>1 DEF JoinRoom, TypeOK
    <2> DEFINE y == [IdleSess EXCEPT !.pc = "set", !.room = r]
    <2>3. y \in SessRecords /\ y.room = r
      BY IdleSessType DEF SessRecords
    <2>4. sess' = [sess EXCEPT ![s] = y]
      BY <1>8 DEF JoinRoom
    <2> HIDE DEF y
    <2>5. sess' \in [Sockets -> SessRecords] /\ \A t \in Sockets : SessOK(t)'
      BY <1>0, <2>3, <2>4 DEF SessOK, TypeOK
    <2>6. handled' \in 0..MaxMessages
      BY <1>0, <1>8, HubAssumption DEF JoinRoom, TypeOK
    <2> QED
      BY <1>0, <1>8, <2>2, <2>5, <2>6 DEF JoinRoom, TypeInv, TypeOK, SockOK, PushOK
  <1>9. ASSUME NEW s \in Sockets, SetRoom(s) PROVE TypeInv'
    <2> DEFINE y == [sock[s] EXCEPT !.room = sess[s].room]
               z == [sess[s] EXCEPT !.pc = "attach"]
    <2>1. sess[s].room \in Rooms
      BY <1>0, <1>9 DEF SetRoom, Runs, SessOK
    <2>2. y \in SockRecords /\ y.pc = sock[s].pc /\ y.player = sock[s].player
      <3>1. sock[s] \in SockRecords
        BY <1>0 DEF TypeOK
      <3> QED
        BY <2>1, <3>1 DEF SockRecords
    <2>3. z \in SessRecords /\ z.room = sess[s].room
      BY <1>0 DEF TypeOK, SessRecords
    <2>4. sock' = [sock EXCEPT ![s] = y] /\ sess' = [sess EXCEPT ![s] = z]
      BY <1>0, <1>9 DEF SetRoom, TypeOK
    <2> HIDE DEF y, z
    <2>5. sock' \in [Sockets -> SockRecords] /\ \A t \in Sockets : SockOK(t)'
      BY <1>0, <2>2, <2>4 DEF SockOK, TypeOK
    <2>6. sess' \in [Sockets -> SessRecords] /\ \A t \in Sockets : SessOK(t)'
      BY <1>0, <2>1, <2>3, <2>4 DEF SessOK, TypeOK
    <2> QED
      BY <1>0, <1>9, <2>5, <2>6 DEF SetRoom, TypeInv, TypeOK, PushOK
  <1>10. ASSUME NEW s \in Sockets, AttachToRoom(s) PROVE TypeInv'
    <2> DEFINE z == [sess[s] EXCEPT !.pc = "read"]
    <2>1. sess[s].room \in Rooms /\ sock[s].player \in Players
      BY <1>0, <1>10 DEF AttachToRoom, Runs, SessOK, SockOK
    <2>2. z \in SessRecords /\ z.room = sess[s].room
      BY <1>0 DEF TypeOK, SessRecords
    <2>3. sess' = [sess EXCEPT ![s] = z]
      BY <1>0, <1>10 DEF AttachToRoom, TypeOK
    <2> HIDE DEF z
    <2>4. sess' \in [Sockets -> SessRecords] /\ \A t \in Sockets : SessOK(t)'
      BY <1>0, <2>1, <2>2, <2>3 DEF SessOK, TypeOK
    <2>5. rooms' \in [Rooms -> SUBSET Players]
      BY <1>0, <1>10, <2>1 DEF AttachToRoom, TypeOK
    <2> QED
      BY <1>0, <1>10, <2>4, <2>5 DEF AttachToRoom, TypeInv, TypeOK, SockOK, PushOK
  <1>11. ASSUME NEW s \in Sockets, ReadState(s) PROVE TypeInv'
    <2> DEFINE r == sess[s].room
               z == [pc |-> "push", room |-> r, todo |-> members[r],
                     n |-> round[r], over |-> ended[r]]
               y == [sock[s] EXCEPT !.joined = r]
    <2>1. r \in Rooms
      BY <1>0, <1>11 DEF ReadState, Runs, SessOK
    <2>2. z \in SessRecords /\ z.room = r
      BY <1>0, <2>1 DEF TypeOK, SessRecords
    <2>3. y \in SockRecords /\ y.pc = sock[s].pc /\ y.player = sock[s].player
      <3>1. sock[s] \in SockRecords
        BY <1>0 DEF TypeOK
      <3> QED
        BY <2>1, <3>1 DEF SockRecords
    <2>4. sess' = [sess EXCEPT ![s] = z] /\ sock' = [sock EXCEPT ![s] = y]
      BY <1>0, <1>11 DEF ReadState, TypeOK
    <2> HIDE DEF y, z
    <2>5. sess' \in [Sockets -> SessRecords] /\ \A t \in Sockets : SessOK(t)'
      BY <1>0, <2>1, <2>2, <2>4 DEF SessOK, TypeOK
    <2>6. sock' \in [Sockets -> SockRecords] /\ \A t \in Sockets : SockOK(t)'
      BY <1>0, <2>3, <2>4 DEF SockOK, TypeOK
    <2> QED
      BY <1>0, <1>11, <2>5, <2>6 DEF ReadState, TypeInv, TypeOK, PushOK
  <1>12. ASSUME NEW s \in Sockets, PushState(s) PROVE TypeInv'
    <2>1. sess[s] \in SessRecords /\ sess[s].room \in Rooms
      BY <1>0, <1>12 DEF PushState, Runs, SessOK, TypeOK
    <2>2. StateFrame(sess[s]) \in Frames
      BY <2>1 DEF StateFrame, Frame, Frames, FrameTypes, SessRecords
    <2>3. PICK p \in sess[s].todo :
             /\ SendToPlayer(p, StateFrame(sess[s]))
             /\ sess' = [sess EXCEPT ![s] = IF sess[s].todo = {p} THEN IdleSess
                                            ELSE [sess[s] EXCEPT !.todo = @ \ {p}]]
      BY <1>12 DEF PushState
    <2>4. p \in Players
      BY <2>1, <2>3 DEF SessRecords
    <2>5. /\ queue' \in [Sockets -> Seq(Frames)]
          /\ \A t \in Sockets : Len(queue'[t]) <= SendBuffer
          /\ closed' \in [Sockets -> BOOLEAN]
      BY <1>0, <2>2, <2>3, <2>4, SendKeeps
    <2> DEFINE z == [sess[s] EXCEPT !.todo = @ \ {p}]
    <2>6. z \in SessRecords /\ z.room = sess[s].room
      BY <2>1 DEF SessRecords
    <2>7. sess' = [sess EXCEPT ![s] = IdleSess] \/ sess' = [sess EXCEPT ![s] = z]
      <3>1. CASE sess[s].todo = {p}
        BY <2>3, <3>1
      <3>2. CASE sess[s].todo # {p}
        BY <2>3, <3>2
      <3> QED
        BY <3>1, <3>2
    <2> HIDE DEF z
    <2>8. sess' \in [Sockets -> SessRecords] /\ \A t \in Sockets : SessOK(t)'
      BY <1>0, <2>1, <2>6, <2>7, IdleSessType DEF SessOK, TypeOK
    <2> QED
      BY <1>0, <1>12, <2>5, <2>8 DEF PushState, TypeInv, TypeOK, SockOK, PushOK
  <1>13. ASSUME NEW s \in Sockets, Reply(s) PROVE TypeInv'
    <2>1. /\ queue' \in [Sockets -> Seq(Frames)]
          /\ \A t \in Sockets : Len(queue'[t]) <= SendBuffer
          /\ closed' \in [Sockets -> BOOLEAN]
      BY <1>0, <1>13, ErrorFrameType, EnqueueKeeps DEF Reply
    <2>2. handled' \in 0..MaxMessages
      BY <1>0, <1>13, HubAssumption DEF Reply, TypeOK
    <2> QED
      BY <1>0, <1>13, <2>1, <2>2 DEF Reply, TypeInv, TypeOK, SockOK, SessOK, PushOK
  \* A loop that has something to tell, to whoever is seated now.
  <1>14. ASSUME NEW r \in Rooms, NEW q \in Seq(Pushes),
                push' = [push EXCEPT ![r] = q],
                \A i \in DOMAIN q : /\ q[i].frame.room = r
                                    /\ q[i].frame.type = "detach" => q[i].to = {}
         PROVE  push' \in [Rooms -> Seq(Pushes)] /\ \A x \in Rooms : PushOK(x)'
    BY <1>0, <1>14 DEF TypeOK, PushOK
  <1>15. ASSUME NEW r \in Rooms, NEW type \in LoopTypes, NEW n \in 0..MaxRounds
         PROVE  /\ ToMembers(type, r, n) \in Pushes
                /\ ToMembers(type, r, n).frame.room = r
                /\ ToMembers(type, r, n).frame.type = type /\ type # "detach"
    BY <1>0 DEF ToMembers, Frame, Pushes, TypeOK, LoopTypes
  <1>16. ASSUME NEW r \in Rooms
         PROVE  /\ Detaching(r) \in Pushes /\ Detaching(r).frame.room = r
                /\ Detaching(r).frame.type = "detach" /\ Detaching(r).to = {}
    BY HubAssumption DEF Detaching, Frame, Pushes
  <1>17. ASSUME NEW r \in Rooms, RoundStarted(r) PROVE TypeInv'
    <2>1. round[r] + 1 \in 0..MaxRounds
      BY <1>0, <1>17, HubAssumption DEF RoundStarted, TypeOK
    <2> DEFINE a == ToMembers("started", r, round[r] + 1)
    <2>2. a \in Pushes /\ a.frame.room = r /\ a.frame.type # "detach"
      BY <1>15, <2>1 DEF LoopTypes
    <2>3. push' = [push EXCEPT ![r] = <<a>>]
      BY <1>17 DEF RoundStarted
    <2> HIDE DEF a
    <2>4. push' \in [Rooms -> Seq(Pushes)] /\ \A x \in Rooms : PushOK(x)'
      <3> DEFINE q == <<a>>
      <3>1. q \in Seq(Pushes) /\ \A i \in DOMAIN q : q[i] = a
        BY <2>2
      <3>2. push' = [push EXCEPT ![r] = q]
        BY <2>3
      <3> HIDE DEF q
      <3>3. \A i \in DOMAIN q : q[i].frame.room = r /\ q[i].frame.type # "detach"
        BY <2>2, <3>1
      <3> QED
        BY <1>14, <3>1, <3>2, <3>3
    <2>5. round' \in [Rooms -> 0..MaxRounds] /\ betting' \in [Rooms -> BOOLEAN]
      BY <1>0, <1>17, <2>1 DEF RoundStarted, TypeOK
    <2> QED
      BY <1>0, <1>17, <2>4, <2>5 DEF RoundStarted, TypeInv, TypeOK, SockOK, SessOK
  <1>18. ASSUME NEW r \in Rooms, NEW closes \in BOOLEAN, RoundSettled(r, closes)
         PROVE  TypeInv'
    <2>1. round[r] \in 0..MaxRounds
      BY <1>0 DEF TypeOK
    <2> DEFINE a == ToMembers("result", r, round[r])
               b == ToMembers("final", r, round[r])
               c == ToMembers("closed", r, round[r])
               d == Detaching(r)
               e == ToMembers("balance", r, round[r])
    <2>2. \A x \in {a, b, c, e} :
             x \in Pushes /\ x.frame.room = r /\ x.frame.type # "detach"
      BY <1>15, <2>1 DEF LoopTypes
    <2>3. d \in Pushes /\ d.frame.room = r /\ d.to = {}
      BY <1>16
    <2>4. push' = [push EXCEPT ![r] = <<a, b, c, d>>] \/ push' = [push EXCEPT ![r] = <<a, e>>]
      BY <1>18 DEF RoundSettled, Settled
    <2> HIDE DEF a, b, c, d, e
    <2>5. push' \in [Rooms -> Seq(Pushes)] /\ \A x \in Rooms : PushOK(x)'
      <3> DEFINE q1 == <<a, b, c, d>>
                 q2 == <<a, e>>
      <3>1. /\ q1 \in Seq(Pushes) /\ \A i \in DOMAIN q1 : q1[i] \in {a, b, c, d}
            /\ q2 \in Seq(Pushes) /\ \A i \in DOMAIN q2 : q2[i] \in {a, e}
        BY <2>2, <2>3
      <3>2. push' = [push EXCEPT ![r] = q1] \/ push' = [push EXCEPT ![r] = q2]
        BY <2>4
      <3> HIDE DEF q1, q2
      <3> QED
        BY <1>14, <2>2, <2>3, <3>1, <3>2
    <2>6. ended' \in [Rooms -> BOOLEAN] /\ betting' \in [Rooms -> BOOLEAN]
      BY <1>0, <1>18 DEF RoundSettled, TypeOK
    <2> QED
      BY <1>0, <1>18, <2>5, <2>6 DEF RoundSettled, TypeInv, TypeOK, SockOK, SessOK
  <1>19. ASSUME NEW r \in Rooms, RoomClosed(r) PROVE TypeInv'
    <2>1. round[r] \in 0..MaxRounds
      BY <1>0 DEF TypeOK
    <2> DEFINE b == ToMembers("final", r, round[r])
               c == ToMembers("closed", r, round[r])
               d == Detaching(r)
    <2>2. \A x \in {b, c} :
             x \in Pushes /\ x.frame.room = r /\ x.frame.type # "detach"
      BY <1>15, <2>1 DEF LoopTypes
    <2>3. d \in Pushes /\ d.frame.room = r /\ d.to = {}
      BY <1>16
    <2>4. push' = [push EXCEPT ![r] = <<b, c, d>>]
      BY <1>19 DEF RoomClosed
    <2> HIDE DEF b, c, d
    <2>5. push' \in [Rooms -> Seq(Pushes)] /\ \A x \in Rooms : PushOK(x)'
      <3> DEFINE q == <<b, c, d>>
      <3>1. q \in Seq(Pushes) /\ \A i \in DOMAIN q : q[i] \in {b, c, d}
        BY <2>2, <2>3
      <3>2. push' = [push EXCEPT ![r] = q]
        BY <2>4
      <3> HIDE DEF q
      <3>3. \A i \in DOMAIN q : /\ q[i].frame.room = r
                                /\ q[i].frame.type = "detach" => q[i].to = {}
        BY <2>2, <2>3, <3>1
      <3> QED
        BY <1>14, <3>1, <3>2, <3>3
    <2>6. ended' \in [Rooms -> BOOLEAN] /\ betting' \in [Rooms -> BOOLEAN]
      BY <1>0, <1>19 DEF RoomClosed, TypeOK
    <2> QED
      BY <1>0, <1>19, <2>5, <2>6 DEF RoomClosed, TypeInv, TypeOK, SockOK, SessOK
  <1>20. ASSUME NEW r \in Rooms, push[r] # <<>>
         PROVE  /\ Head(push[r]) \in Pushes /\ Head(push[r]) = push[r][1]
                /\ Tail(push[r]) \in Seq(Pushes)
                /\ 1 \in DOMAIN push[r]
                /\ \A i \in DOMAIN Tail(push[r]) :
                      i + 1 \in DOMAIN push[r] /\ Tail(push[r])[i] = push[r][i + 1]
    BY <1>0, <1>20 DEF TypeOK
  <1>21. ASSUME NEW r \in Rooms, PushNext(r) PROVE TypeInv'
    <2> DEFINE now == Head(push[r])
    <2>1. push[r] # <<>> /\ now.to # {}
      BY <1>21 DEF PushNext
    <2>2. PICK p \in now.to :
             /\ SendToPlayer(p, now.frame)
             /\ push' = [push EXCEPT ![r] =
                            IF now.to = {p} THEN Tail(push[r])
                            ELSE <<[now EXCEPT !.to = @ \ {p}]>> \o Tail(push[r])]
      BY <1>0, <1>21 DEF PushNext, TypeOK
    <2> DEFINE tail == Tail(push[r])
    <2>3. /\ now \in Pushes /\ now.frame.room = r /\ now.frame.type # "detach"
          /\ \A i \in DOMAIN tail : /\ tail[i].frame.room = r
                                    /\ tail[i].frame.type = "detach" => tail[i].to = {}
      BY <1>0, <1>20, <2>1 DEF PushOK
    <2>4. p \in Players /\ now.frame \in Frames
      BY <2>2, <2>3 DEF Pushes, Frames, FrameTypes
    <2>5. /\ queue' \in [Sockets -> Seq(Frames)]
          /\ \A t \in Sockets : Len(queue'[t]) <= SendBuffer
          /\ closed' \in [Sockets -> BOOLEAN]
      BY <1>0, <2>2, <2>4, SendKeeps
    <2> DEFINE rest == [now EXCEPT !.to = @ \ {p}]
    <2>6. rest \in Pushes /\ rest.frame = now.frame
      BY <2>3 DEF Pushes
    <2>7. tail \in Seq(Pushes)
      BY <1>20, <2>1
    <2>8. push' = [push EXCEPT ![r] = tail] \/ push' = [push EXCEPT ![r] = <<rest>> \o tail]
      BY <2>2
    <2> HIDE DEF now, rest, tail
    <2>9. push' \in [Rooms -> Seq(Pushes)] /\ \A x \in Rooms : PushOK(x)'
      <3>1. CASE push' = [push EXCEPT ![r] = tail]
        BY <1>14, <2>3, <2>7, <3>1
      <3>2. CASE push' = [push EXCEPT ![r] = <<rest>> \o tail]
        <4> DEFINE q == <<rest>> \o tail
        <4>1. /\ q \in Seq(Pushes)
              /\ \A i \in DOMAIN q : q[i] = rest \/ \E j \in DOMAIN tail : q[i] = tail[j]
          BY <2>6, <2>7
        <4>2. \A i \in DOMAIN q : /\ q[i].frame.room = r
                                  /\ q[i].frame.type = "detach" => q[i].to = {}
          BY <2>3, <2>6, <4>1
        <4> HIDE DEF q
        <4> QED
          BY <1>14, <3>2, <4>1, <4>2 DEF q
      <3> QED
        BY <2>8, <3>1, <3>2
    <2> QED
      BY <1>0, <1>21, <2>5, <2>9 DEF PushNext, TypeInv, TypeOK, SockOK, SessOK
  <1>22. ASSUME NEW r \in Rooms, DetachRoom(r) PROVE TypeInv'
    <2>1. push[r] # <<>> /\ push' = [push EXCEPT ![r] = Tail(push[r])]
      BY <1>0, <1>22 DEF DetachRoom, TypeOK
    <2>2. push' \in [Rooms -> Seq(Pushes)] /\ \A x \in Rooms : PushOK(x)'
      <3> DEFINE tail == Tail(push[r])
      <3>1. /\ tail \in Seq(Pushes)
            /\ \A i \in DOMAIN tail : /\ tail[i].frame.room = r
                                      /\ tail[i].frame.type = "detach" => tail[i].to = {}
        BY <1>0, <1>20, <2>1 DEF PushOK
      <3>2. push' = [push EXCEPT ![r] = tail]
        BY <2>1
      <3> HIDE DEF tail
      <3> QED
        BY <1>14, <3>1, <3>2
    <2>3. rooms' \in [Rooms -> SUBSET Players]
      BY <1>0, <1>22 DEF DetachRoom, TypeOK
    <2>4. detach' \in [Rooms -> SUBSET (Sockets \X {"check", "clear"})]
      <3>1. {<<clients[p], "check">> : p \in {q \in rooms[r] : clients[q] # None}}
               \subseteq Sockets \X {"check", "clear"}
        BY <1>0 DEF TypeOK
      <3> QED
        BY <1>0, <1>22, <3>1 DEF DetachRoom, TypeOK
    <2> QED
      BY <1>0, <1>22, <2>2, <2>3, <2>4 DEF DetachRoom, TypeInv, TypeOK, SockOK, SessOK
  <1>23. ASSUME NEW r \in Rooms, NEW s \in Sockets, DetachCheck(r, s) PROVE TypeInv'
    <2>1. detach' \in [Rooms -> SUBSET (Sockets \X {"check", "clear"})]
      BY <1>0, <1>23 DEF DetachCheck, TypeOK
    <2> QED
      BY <1>0, <1>23, <2>1 DEF DetachCheck, TypeInv, TypeOK, SockOK, SessOK, PushOK
  <1>24. ASSUME NEW r \in Rooms, NEW s \in Sockets, DetachClear(r, s) PROVE TypeInv'
    <2>1. detach' \in [Rooms -> SUBSET (Sockets \X {"check", "clear"})]
      BY <1>0, <1>24 DEF DetachClear, TypeOK
    <2> DEFINE y == [sock[s] EXCEPT !.room = None]
    <2>2. y \in SockRecords /\ y.pc = sock[s].pc /\ y.player = sock[s].player
      <3>1. sock[s] \in SockRecords
        BY <1>0 DEF TypeOK
      <3> QED
        BY <3>1 DEF SockRecords
    <2>3. sock' = [sock EXCEPT ![s] = y]
      BY <1>0, <1>24 DEF DetachClear, TypeOK
    <2> HIDE DEF y
    <2>4. sock' \in [Sockets -> SockRecords] /\ \A t \in Sockets : SockOK(t)'
      BY <1>0, <2>2, <2>3 DEF SockOK, TypeOK
    <2> QED
      BY <1>0, <1>24, <2>1, <2>4 DEF DetachClear, TypeInv, TypeOK, SessOK, PushOK
  <1>25. ASSUME NEW s \in Sockets, ReadFails(s) PROVE TypeInv'
    <2>1. /\ queue' \in [Sockets -> Seq(Frames)]
          /\ \A t \in Sockets : Len(queue'[t]) <= SendBuffer
          /\ closed' \in [Sockets -> BOOLEAN]
      BY <1>0, <1>25, ErrorFrameType, EnqueueKeeps DEF ReadFails
    <2>2. sess' \in [Sockets -> SessRecords] /\ \A t \in Sockets : SessOK(t)'
      BY <1>0, <1>25, IdleSessType DEF ReadFails, SessOK, TypeOK
    <2> QED
      BY <1>0, <1>25, <2>1, <2>2 DEF ReadFails, TypeInv, TypeOK, SockOK, PushOK
  <1>26. ASSUME NEW p \in Players, NEW r \in Rooms, CreateRoom(p, r) PROVE TypeInv'
    <2>1. members' \in [Rooms -> SUBSET Players]
      BY <1>0, <1>26 DEF CreateRoom, TypeOK
    <2> QED
      BY <1>0, <1>26, <2>1 DEF CreateRoom, TypeInv, TypeOK, SockOK, SessOK, PushOK
  <1>27. CASE \E s \in Sockets : SessNext(s)
    BY <1>9, <1>10, <1>11, <1>12, <1>25, <1>27 DEF SessNext
  <1>28. CASE \E r \in Rooms : LoopNext(r)
    BY <1>21, <1>22, <1>23, <1>24, <1>28 DEF LoopNext
  <1> QED
    BY <1>1, <1>2, <1>3, <1>4, <1>5, <1>6, <1>7, <1>8, <1>13, <1>17, <1>18, <1>19,
       <1>26, <1>27, <1>28 DEF Next

LEMMA TypeInvariant == Spec => []TypeInv
  <1>1. Init => TypeInv
    <2> SUFFICES ASSUME Init PROVE TypeInv
      OBVIOUS
    <2>1. <<>> \in Seq(Frames) /\ <<>> \in Seq(Pushes) /\ Len(<<>>) <= SendBuffer
      BY EmptySeq, HubAssumption
    <2>2. TypeOK
      BY <2>1, NewSockType, IdleSessType, HubAssumption DEF Init, TypeOK
    <2> QED
      BY <2>2, NewSockType, IdleSessType DEF Init, TypeInv, SockOK, SessOK, PushOK
  <1> QED
    BY <1>1, TypeInvStep, PTL DEF Spec

\* TypeOK holds in every state.  Its part that could fail is client.go's bound: a
\* queue never holds more than SendBuffer frames, whoever enqueues.
THEOREM HubTyped == Spec => []TypeOK
  BY TypeInvariant, PTL DEF TypeInv
-----------------------------------------------------------------------------
(***************************************************************************)
(* The registry.                                                           *)
(***************************************************************************)
Live(s) == sock[s].pc \in {"registering", "up"}

\* The frames of the player of s go to s, or s is about to be closed by the one
\* that replaced it.
Owned(s) ==
    \/ clients[sock[s].player] = s
    \/ \E t \in Sockets : sock[t].pc = "registering" /\ sock[t].prev = s

\* RegistryHonest also of a socket whose pumps have not started (it may be
\* replaced before they do), and with whose socket it is: unregister goes by the
\* player of the socket.
RegistryInv ==
    /\ \A s \in Sockets : Live(s) /\ ~closed[s] => Owned(s)
    /\ \A p \in Players : clients[p] # None =>
          Live(clients[p]) /\ sock[clients[p]].player = p

\* A step after which every socket has the player it had, and no closed one is
\* open.
LEMMA RegistryKept ==
    ASSUME TypeInv, RegistryInv, UNCHANGED clients,
           \A s \in Sockets : /\ sock'[s].pc = sock[s].pc
                              /\ sock'[s].player = sock[s].player
                              /\ sock'[s].prev = sock[s].prev,
           \A s \in Sockets : closed[s] => closed'[s]
    PROVE  RegistryInv'
  <1>1. \A p \in Players : clients[p] \in Sockets \cup {None}
    BY DEF TypeInv, TypeOK
  <1>2. \A s \in Sockets : (Live(s)' <=> Live(s)) /\ (Owned(s) => Owned(s)')
    BY DEF Live, Owned
  <1> QED
    BY <1>1, <1>2 DEF RegistryInv

\* setRoom, from a session or from DetachRoom, writes the room pointer only, and
\* the read of a snapshot leaves a note of its room.
LEMMA SetRoomKeeps ==
    ASSUME TypeInv, NEW s \in Sockets,
           SetRoom(s) \/ ReadState(s) \/ \E r \in Rooms : DetachClear(r, s)
    PROVE  \A t \in Sockets : /\ sock'[t].pc = sock[t].pc
                              /\ sock'[t].player = sock[t].player
                              /\ sock'[t].prev = sock[t].prev
  <1>0. /\ TypeOK /\ \A t \in Sockets : SockOK(t) /\ SessOK(t)
        /\ \A t \in Sockets : sock[t] \in SockRecords
    BY DEF TypeInv, TypeOK
  <1>1. PICK y \in SockRecords :
           /\ sock' = [sock EXCEPT ![s] = y]
           /\ y.pc = sock[s].pc /\ y.player = sock[s].player /\ y.prev = sock[s].prev
    <2>1. CASE SetRoom(s)
      <3> DEFINE z == [sock[s] EXCEPT !.room = sess[s].room]
      <3>1. sess[s].room \in Rooms
        BY <1>0, <2>1 DEF SetRoom, Runs, SessOK
      <3>2. sock' = [sock EXCEPT ![s] = z]
        BY <1>0, <2>1 DEF SetRoom, TypeOK
      <3>3. /\ z \in SockRecords /\ z.pc = sock[s].pc
            /\ z.player = sock[s].player /\ z.prev = sock[s].prev
        BY <1>0, <3>1 DEF SockRecords
      <3> QED
        BY <3>2, <3>3
    <2>2. CASE \E r \in Rooms : DetachClear(r, s)
      <3> DEFINE z == [sock[s] EXCEPT !.room = None]
      <3>1. sock' = [sock EXCEPT ![s] = z]
        BY <1>0, <2>2 DEF DetachClear, TypeOK
      <3>2. /\ z \in SockRecords /\ z.pc = sock[s].pc
            /\ z.player = sock[s].player /\ z.prev = sock[s].prev
        BY <1>0 DEF SockRecords
      <3> QED
        BY <3>1, <3>2
    <2>3. CASE ReadState(s)
      <3> DEFINE z == [sock[s] EXCEPT !.joined = sess[s].room]
      <3>1. sess[s].room \in Rooms
        BY <1>0, <2>3 DEF ReadState, Runs, SessOK
      <3>2. sock' = [sock EXCEPT ![s] = z]
        BY <1>0, <2>3 DEF ReadState, TypeOK
      <3>3. /\ z \in SockRecords /\ z.pc = sock[s].pc
            /\ z.player = sock[s].player /\ z.prev = sock[s].prev
        BY <1>0, <3>1 DEF SockRecords
      <3> QED
        BY <3>2, <3>3
    <2> QED
      BY <2>1, <2>2, <2>3
  <1> QED
    BY <1>0, <1>1 DEF TypeOK

LEMMA RegistryInvStep ==
    ASSUME TypeInv, RegistryInv, [Next]_vars
    PROVE  RegistryInv'
  <1> USE DEF vars, dbVars, hubVars, sockVars
  <1>0. /\ TypeOK /\ \A s \in Sockets : SockOK(s) /\ SessOK(s)
        /\ \A r \in Rooms : PushOK(r)
        /\ \A p \in Players : clients[p] \in Sockets \cup {None}
        /\ \A s \in Sockets : sock[s] \in SockRecords
    BY DEF TypeInv, TypeOK
  <1>1. ASSUME UNCHANGED <<clients, sock>>, \A s \in Sockets : closed[s] => closed'[s]
        PROVE  RegistryInv'
    BY <1>1, RegistryKept
  <1>2. ASSUME NEW s \in Sockets, Refuse(s) PROVE RegistryInv'
    <2>1. /\ sock[s].pc = "new" /\ sock'[s].pc = "gone"
          /\ \A t \in Sockets : t # s => sock'[t] = sock[t]
          /\ UNCHANGED <<clients, closed>>
      BY <1>0, <1>2 DEF Refuse, TypeOK, SockRecords
    <2>2. \A t \in Sockets : Live(t)' => t # s /\ Live(t)
      BY <2>1 DEF Live
    <2>3. \A t \in Sockets : t # s /\ Owned(t) => Owned(t)'
      BY <2>1 DEF Owned
    <2> QED
      BY <1>0, <2>1, <2>2, <2>3, HubAssumption DEF RegistryInv, Live
  <1>3. ASSUME NEW s \in Sockets, NEW p \in Players, Register(s, p)
        PROVE  RegistryInv'
    <2>1. /\ sock[s].pc = "new" /\ sock'[s].pc = "registering" /\ sock'[s].player = p
          /\ sock'[s].prev = clients[p]
          /\ \A t \in Sockets : t # s => sock'[t] = sock[t]
          /\ clients'[p] = s /\ \A q \in Players : q # p => clients'[q] = clients[q]
          /\ UNCHANGED closed
      <3> DEFINE y == [NewSock EXCEPT !.pc = "registering", !.player = p,
                                      !.prev = clients[p]]
      <3>1. y.pc = "registering" /\ y.player = p /\ y.prev = clients[p]
        BY DEF NewSock
      <3>2. sock' = [sock EXCEPT ![s] = y]
        BY <1>3 DEF Register
      <3> HIDE DEF y
      <3> QED
        BY <1>0, <1>3, <3>1, <3>2 DEF Register, TypeOK
    <2>2. \A t \in Sockets : t # s /\ Live(t) /\ Owned(t) => Owned(t)'
      BY <1>0, <2>1 DEF Owned, Live, SockOK
    <2>3. Owned(s)'
      BY <2>1 DEF Owned
    <2>4. \A t \in Sockets : t # s => (Live(t)' <=> Live(t))
      BY <2>1 DEF Live
    <2>5. \A q \in Players : clients[q] # s
      BY <2>1, HubAssumption DEF RegistryInv, Live
    <2> QED
      BY <1>0, <2>1, <2>2, <2>3, <2>4, <2>5, HubAssumption DEF RegistryInv, Live
  <1>4. ASSUME NEW s \in Sockets, Replace(s) PROVE RegistryInv'
    <2>1. /\ sock[s].pc = "registering" /\ sock'[s].pc = "up"
          /\ sock'[s].player = sock[s].player
          /\ \A t \in Sockets : t # s => sock'[t] = sock[t]
          /\ UNCHANGED clients
      <3> DEFINE y == [sock[s] EXCEPT !.pc = "up", !.prev = None]
      <3>1. sock' = [sock EXCEPT ![s] = y]
        BY <1>0, <1>4 DEF Replace, TypeOK
      <3>2. y.pc = "up" /\ y.player = sock[s].player
        BY <1>0 DEF SockRecords
      <3> HIDE DEF y
      <3> QED
        BY <1>0, <1>4, <3>1, <3>2 DEF Replace, TypeOK
    <2>2. /\ \A t \in Sockets : closed[t] => closed'[t]
          /\ \A t \in Sockets : t = sock[s].prev => closed'[t]
      BY <1>0, <1>4, HubAssumption DEF Replace, TypeOK
    <2>3. \A t \in Sockets : (Live(t)' <=> Live(t)) /\ sock'[t].player = sock[t].player
      BY <2>1 DEF Live
    <2>4. \A t \in Sockets : Owned(t) /\ ~closed'[t] => Owned(t)'
      BY <2>1, <2>2 DEF Owned
    <2> QED
      BY <1>0, <2>1, <2>2, <2>3, <2>4 DEF RegistryInv
  \* Hub.unregister: a socket that was replaced takes nothing away.
  <1>5. ASSUME NEW s \in Sockets, ReadPumpEnds(s) PROVE RegistryInv'
    <2>1. /\ sock[s].pc = "up" /\ sock'[s].pc = "gone"
          /\ \A t \in Sockets : t # s => sock'[t] = sock[t]
          /\ \A t \in Sockets : closed[t] => closed'[t]
      <3> DEFINE y == [NewSock EXCEPT !.pc = "gone"]
      <3>1. y.pc = "gone"
        BY DEF NewSock
      <3>2. sock' = [sock EXCEPT ![s] = y]
        BY <1>5 DEF ReadPumpEnds
      <3> HIDE DEF y
      <3> QED
        BY <1>0, <1>5, <3>1, <3>2 DEF ReadPumpEnds, TypeOK
    <2>2. sock[s].player \in Players
      BY <1>0, <2>1 DEF SockOK
    <2>3. \A q \in Players : clients'[q] = IF clients[q] = s THEN None ELSE clients[q]
      BY <1>0, <1>5, <2>2, HubAssumption
         DEF ReadPumpEnds, Unregister, TypeOK, RegistryInv
    <2>4. \A t \in Sockets : Live(t)' => t # s /\ Live(t)
      BY <2>1 DEF Live
    <2>5. \A t \in Sockets : t # s /\ Live(t) /\ Owned(t) => Owned(t)'
      BY <1>0, <2>1, <2>3 DEF Owned, Live, SockOK
    <2> QED
      BY <1>0, <2>1, <2>3, <2>4, <2>5, HubAssumption DEF RegistryInv, Live
  \* Whoever enqueues may close a socket, and changes no more of it.
  <1>6. ASSUME NEW s \in Sockets, NEW f \in Frames, Enqueue(s, f), UNCHANGED <<clients, sock>>
        PROVE  RegistryInv'
    BY <1>0, <1>1, <1>6, EnqueueKeeps
  <1>7. ASSUME NEW p \in Players, NEW f \in Frames, SendToPlayer(p, f),
               UNCHANGED <<clients, sock>>
        PROVE  RegistryInv'
    BY <1>0, <1>1, <1>7, SendKeeps
  <1>8. ASSUME NEW s \in Sockets, Reply(s) PROVE RegistryInv'
    BY <1>6, <1>8, ErrorFrameType DEF Reply
  <1>9. ASSUME NEW s \in Sockets, PushState(s) PROVE RegistryInv'
    <2>1. sess[s] \in SessRecords /\ sess[s].room \in Rooms
      BY <1>0, <1>9 DEF PushState, Runs, SessOK, TypeOK
    <2>2. StateFrame(sess[s]) \in Frames /\ sess[s].todo \subseteq Players
      BY <2>1 DEF StateFrame, Frame, Frames, FrameTypes, SessRecords
    <2> QED
      BY <1>7, <1>9, <2>2 DEF PushState
  <1>10. ASSUME NEW r \in Rooms, PushNext(r) PROVE RegistryInv'
    <2> DEFINE now == Head(push[r])
    <2>1. now.to # {} /\ push[r] # <<>> /\ push[r] \in Seq(Pushes)
      BY <1>0, <1>10 DEF PushNext, TypeOK
    <2>2. now \in Pushes /\ now = push[r][1] /\ 1 \in DOMAIN push[r]
      BY <2>1
    <2>3. now.frame.type # "detach"
      BY <1>0, <2>1, <2>2 DEF PushOK
    <2>4. now.frame \in Frames /\ now.to \subseteq Players
      BY <2>2, <2>3 DEF Pushes, Frames, FrameTypes
    <2> QED
      BY <1>7, <1>10, <2>4 DEF PushNext
  <1>11. ASSUME NEW s \in Sockets, WritePumpEnds(s) PROVE RegistryInv'
    BY <1>0, <1>1, <1>11 DEF WritePumpEnds, TypeOK
  <1>12. ASSUME NEW s \in Sockets, UNCHANGED <<clients, closed>>,
                SetRoom(s) \/ ReadState(s) \/ \E r \in Rooms : DetachClear(r, s)
         PROVE  RegistryInv'
    BY <1>12, SetRoomKeeps, RegistryKept
  <1>13. ASSUME UNCHANGED <<clients, sock, closed>> PROVE RegistryInv'
    BY <1>1, <1>13
  <1>14. CASE UNCHANGED vars
    BY <1>13, <1>14
  <1>15. ASSUME NEW s \in Sockets,
                \/ \E p \in Players : Register(s, p)
                \/ Refuse(s) \/ Replace(s) \/ ReadPumpEnds(s) \/ Write(s)
                \/ WritePumpEnds(s) \/ SessNext(s) \/ Reply(s)
                \/ \E r \in Rooms : JoinRoom(s, r)
         PROVE  RegistryInv'
    <2>1. CASE Write(s) \/ (\E r \in Rooms : JoinRoom(s, r)) \/ AttachToRoom(s)
      BY <1>13, <2>1 DEF Write, JoinRoom, AttachToRoom
    <2>2. CASE SetRoom(s) \/ ReadState(s)
      BY <1>12, <2>2 DEF SetRoom, ReadState
    <2>3. CASE ReadFails(s)
      BY <1>6, <2>3, ErrorFrameType DEF ReadFails
    <2> QED
      BY <1>2, <1>3, <1>4, <1>5, <1>8, <1>9, <1>11, <1>15, <2>1, <2>2, <2>3 DEF SessNext
  <1>16. ASSUME NEW r \in Rooms,
                \/ RoundStarted(r) \/ RoomClosed(r) \/ LoopNext(r)
                \/ \E closes \in BOOLEAN : RoundSettled(r, closes)
                \/ \E p \in Players : CreateRoom(p, r)
         PROVE  RegistryInv'
    <2>1. CASE \/ RoundStarted(r) \/ RoomClosed(r) \/ DetachRoom(r)
               \/ \E closes \in BOOLEAN : RoundSettled(r, closes)
               \/ \E s \in Sockets : DetachCheck(r, s)
               \/ \E p \in Players : CreateRoom(p, r)
      BY <1>13, <2>1 DEF RoundStarted, RoomClosed, DetachRoom, RoundSettled, DetachCheck,
                         CreateRoom
    <2>2. CASE \E s \in Sockets : DetachClear(r, s)
      BY <1>12, <2>2 DEF DetachClear
    <2> QED
      BY <1>10, <1>16, <2>1, <2>2 DEF LoopNext
  <1> QED
    BY <1>14, <1>15, <1>16 DEF Next

LEMMA RegistryInvariant == Spec => []RegistryInv
  <1>1. Init => RegistryInv
    BY NewSockType DEF Init, RegistryInv, Live
  <1> QED
    BY <1>1, TypeInvariant, RegistryInvStep, PTL DEF Spec

\* hub.go, register and unregister: a socket that is up and not closed is the one
\* its player's frames go to, or its successor is about to close it, and no
\* player's frames go to a socket that has gone, however many logins,
\* replacements and late clean-ups of one player overlap.
THEOREM RegistryIsHonest == Spec => []RegistryHonest
  <1>1. TypeInv /\ RegistryInv => RegistryHonest
    BY DEF TypeInv, TypeOK, RegistryInv, RegistryHonest, Live, Owned
  <1> QED
    BY <1>1, TypeInvariant, RegistryInvariant, PTL
-----------------------------------------------------------------------------
(***************************************************************************)
(* The order of the frames.                                                *)
(***************************************************************************)
\* f is a loop's frame about r.
About(f, r) == f.type \in LoopTypes /\ f.room = r

\* f may come before g.
Ordered(f, g) ==
    (f.type \in LoopTypes /\ g.type \in LoopTypes /\ f.room = g.room)
        => Rank(f) < Rank(g)

\* The frames that reached the peer of s or are on their way.
Held(s) == {got[s][i] : i \in DOMAIN got[s]} \cup {queue[s][i] : i \in DOMAIN queue[s]}

\* They are in order, those that were written before those that are queued.
InLine(s) ==
    /\ \A i, j \in DOMAIN got[s] : i < j => Ordered(got[s][i], got[s][j])
    /\ \A i, j \in DOMAIN queue[s] : i < j => Ordered(queue[s][i], queue[s][j])
    /\ \A i \in DOMAIN got[s], j \in DOMAIN queue[s] : Ordered(got[s][i], queue[s][j])

\* What a loop has still to tell the player of s comes after all of them.
Behind(s) ==
    \A r \in Rooms : \A k \in DOMAIN push[r] : sock[s].player \in push[r][k].to =>
        \A f \in Held(s) : About(f, r) => Rank(f) < Rank(push[r][k].frame)

\* The life of the room so far, as a rank that no frame about it exceeds.
Limit(r) == CASE ended[r]   -> 5 * round[r] + 4
              [] ~ended[r] /\ betting[r] -> 5 * round[r]
              [] OTHER      -> 5 * round[r] + 2

Within(s) == \A r \in Rooms : \A f \in Held(s) : About(f, r) => Rank(f) <= Limit(r)

\* A connection that is not registered has no frames, and only a registered one
\* is replaced.
Fresh(s) ==
    /\ sock[s].pc = "new" => Held(s) = {}
    /\ sock[s].prev # None => sock[sock[s].prev].pc # "new"

\* What a loop has to tell is in order as well.
Telling(r) ==
    \A k \in DOMAIN push[r] : push[r][k].frame.type # "detach" =>
        /\ Rank(push[r][k].frame) <= Limit(r)
        /\ \A l \in DOMAIN push[r] :
              l < k /\ push[r][l].frame.type # "detach" =>
                 Rank(push[r][l].frame) < Rank(push[r][k].frame)

OrderInv ==
    /\ \A s \in Sockets : InLine(s) /\ Behind(s) /\ Within(s) /\ Fresh(s)
    /\ \A r \in Rooms : Telling(r)

LEMMA RankType ==
    ASSUME NEW f, f.type \in LoopTypes, f.n \in Nat
    PROVE  Rank(f) \in Nat
  BY DEF Rank, LoopTypes

LEMMA HeldType == ASSUME TypeOK, NEW s \in Sockets PROVE Held(s) \subseteq Frames
  <1>1. got[s] \in Seq(Frames) /\ queue[s] \in Seq(Frames)
    BY DEF TypeOK
  <1> QED
    BY <1>1 DEF Held

\* The limit of a room, case by case, before and after a step.
LEMMA LimitType ==
    ASSUME TypeOK, NEW r \in Rooms
    PROVE  /\ Limit(r) \in Nat
           /\ ended[r] => Limit(r) = 5 * round[r] + 4
           /\ ~ended[r] /\ betting[r] => Limit(r) = 5 * round[r]
           /\ ~ended[r] /\ ~betting[r] => Limit(r) = 5 * round[r] + 2
  <1>1. round[r] \in Nat
    BY HubAssumption DEF TypeOK
  <1>2. CASE ended[r]
    BY <1>1, <1>2 DEF Limit
  <1>3. CASE ~ended[r] /\ betting[r]
    BY <1>1, <1>3 DEF Limit
  <1>4. CASE ~ended[r] /\ ~betting[r]
    BY <1>1, <1>4 DEF Limit
  <1> QED
    BY <1>2, <1>3, <1>4

LEMMA LimitTypeNext ==
    ASSUME TypeOK', NEW r \in Rooms
    PROVE  /\ Limit(r)' \in Nat
           /\ ended'[r] => Limit(r)' = 5 * round'[r] + 4
           /\ ~ended'[r] /\ betting'[r] => Limit(r)' = 5 * round'[r]
           /\ ~ended'[r] /\ ~betting'[r] => Limit(r)' = 5 * round'[r] + 2
  <1>1. round'[r] \in Nat
    BY HubAssumption DEF TypeOK
  <1>2. CASE ended'[r]
    BY <1>1, <1>2 DEF Limit
  <1>3. CASE ~ended'[r] /\ betting'[r]
    BY <1>1, <1>3 DEF Limit
  <1>4. CASE ~ended'[r] /\ ~betting'[r]
    BY <1>1, <1>4 DEF Limit
  <1> QED
    BY <1>2, <1>3, <1>4

\* A frame more at the end of the queue.
LEMMA LineAppend ==
    ASSUME TypeOK, NEW s \in Sockets, InLine(s), NEW g \in Frames,
           got'[s] = got[s], queue'[s] = Append(queue[s], g),
           \A f \in Held(s) : Ordered(f, g)
    PROVE  InLine(s)' /\ Held(s)' = Held(s) \cup {g}
  <1>1. got[s] \in Seq(Frames) /\ queue[s] \in Seq(Frames)
    BY DEF TypeOK
  <1>2. /\ DOMAIN queue'[s] = DOMAIN queue[s] \cup {Len(queue[s]) + 1}
        /\ \A i \in DOMAIN queue[s] : queue'[s][i] = queue[s][i] /\ i < Len(queue[s]) + 1
        /\ queue'[s][Len(queue[s]) + 1] = g
    BY <1>1
  <1>3. Held(s)' = Held(s) \cup {g}
    BY <1>2 DEF Held
  <1>4. /\ \A i \in DOMAIN got[s] : Ordered(got[s][i], g)
        /\ \A i \in DOMAIN queue[s] : Ordered(queue[s][i], g)
    BY DEF Held
  <1>5. Len(queue[s]) \in Nat /\ DOMAIN queue[s] = 1..Len(queue[s])
    BY <1>1
  <1>6. \A i, j \in DOMAIN queue'[s] : i < j => Ordered(queue'[s][i], queue'[s][j])
    <2> SUFFICES ASSUME NEW i \in DOMAIN queue'[s], NEW j \in DOMAIN queue'[s], i < j
                 PROVE  Ordered(queue'[s][i], queue'[s][j])
      OBVIOUS
    <2>1. i \in DOMAIN queue[s]
      BY <1>2, <1>5
    <2>2. CASE j \in DOMAIN queue[s]
      BY <1>2, <2>1, <2>2 DEF InLine
    <2>3. CASE j = Len(queue[s]) + 1
      BY <1>2, <1>4, <2>1, <2>3
    <2> QED
      BY <1>2, <2>2, <2>3
  <1>7. \A i \in DOMAIN got'[s], j \in DOMAIN queue'[s] : Ordered(got'[s][i], queue'[s][j])
    BY <1>2, <1>4 DEF InLine
  <1>8. \A i, j \in DOMAIN got'[s] : i < j => Ordered(got'[s][i], got'[s][j])
    BY DEF InLine
  <1> QED
    BY <1>3, <1>6, <1>7, <1>8 DEF InLine, Ordered

LEMMA LineSame ==
    ASSUME NEW s \in Sockets, InLine(s), got'[s] = got[s], queue'[s] = queue[s]
    PROVE  InLine(s)' /\ Held(s)' = Held(s)
  BY DEF InLine, Held, Ordered

\* The write pump takes the first frame of the queue: it comes after everything
\* that was written before, or tells nothing of a room.
LEMMA LineWrite ==
    ASSUME TypeOK, NEW s \in Sockets, InLine(s), Write(s)
    PROVE  InLine(s)' /\ Held(s)' \subseteq Held(s)
  <1>1. /\ got[s] \in Seq(Frames) /\ queue[s] \in Seq(Frames) /\ queue[s] # <<>>
        /\ queue'[s] = Tail(queue[s])
        /\ got'[s] = got[s] \/ got'[s] = Append(got[s], Head(queue[s]))
    BY DEF TypeOK, Write
  <1>2. /\ 1 \in DOMAIN queue[s] /\ Head(queue[s]) = queue[s][1]
        /\ queue[s][1] \in Frames /\ Len(got[s]) \in Nat
        /\ \A j \in DOMAIN queue'[s] : /\ j \in Nat /\ j + 1 \in DOMAIN queue[s] /\ 1 < j + 1
                                      /\ queue'[s][j] = queue[s][j + 1]
    BY <1>1
  <1>3. \A i, j \in DOMAIN queue'[s] : i < j => Ordered(queue'[s][i], queue'[s][j])
    <2> SUFFICES ASSUME NEW i \in DOMAIN queue'[s], NEW j \in DOMAIN queue'[s], i < j
                 PROVE  Ordered(queue'[s][i], queue'[s][j])
      OBVIOUS
    <2>1. i + 1 < j + 1
      BY <1>2
    <2> QED
      BY <1>2, <2>1 DEF InLine
  <1>4. CASE got'[s] = got[s]
    <2>1. \A i \in DOMAIN got'[s], j \in DOMAIN queue'[s] : Ordered(got'[s][i], queue'[s][j])
      BY <1>2, <1>4 DEF InLine
    <2>2. \A i, j \in DOMAIN got'[s] : i < j => Ordered(got'[s][i], got'[s][j])
      BY <1>4 DEF InLine
    <2>3. Held(s)' \subseteq Held(s)
      BY <1>2, <1>4 DEF Held
    <2> QED
      BY <1>3, <2>1, <2>2, <2>3 DEF InLine, Ordered
  <1>5. CASE got'[s] = Append(got[s], queue[s][1])
    <2>1. /\ DOMAIN got'[s] = DOMAIN got[s] \cup {Len(got[s]) + 1}
          /\ \A i \in DOMAIN got[s] : got'[s][i] = got[s][i] /\ i < Len(got[s]) + 1
          /\ got'[s][Len(got[s]) + 1] = queue[s][1]
          /\ DOMAIN got[s] = 1..Len(got[s])
      BY <1>1, <1>2, <1>5
    <2>2. \A i, j \in DOMAIN got'[s] : i < j => Ordered(got'[s][i], got'[s][j])
      <3> SUFFICES ASSUME NEW i \in DOMAIN got'[s], NEW j \in DOMAIN got'[s], i < j
                   PROVE  Ordered(got'[s][i], got'[s][j])
        OBVIOUS
      <3>1. i \in DOMAIN got[s]
        BY <1>2, <2>1
      <3>2. CASE j \in DOMAIN got[s]
        BY <2>1, <3>1, <3>2 DEF InLine
      <3>3. CASE j = Len(got[s]) + 1
        BY <1>2, <2>1, <3>1, <3>3 DEF InLine
      <3> QED
        BY <2>1, <3>2, <3>3
    <2>3. \A i \in DOMAIN got'[s], j \in DOMAIN queue'[s] : Ordered(got'[s][i], queue'[s][j])
      <3> SUFFICES ASSUME NEW i \in DOMAIN got'[s], NEW j \in DOMAIN queue'[s]
                   PROVE  Ordered(got'[s][i], queue'[s][j])
        OBVIOUS
      <3>1. CASE i \in DOMAIN got[s]
        BY <1>2, <2>1, <3>1 DEF InLine
      <3>2. CASE i = Len(got[s]) + 1
        BY <1>2, <2>1, <3>2 DEF InLine
      <3> QED
        BY <2>1, <3>1, <3>2
    <2>4. Held(s)' \subseteq Held(s)
      BY <1>2, <2>1 DEF Held
    <2> QED
      BY <1>3, <2>2, <2>3, <2>4 DEF InLine, Ordered
  <1> QED
    BY <1>1, <1>2, <1>4, <1>5

\* A step of the sockets while the loops have the same to tell: frames that are
\* not a loop's may come, and any may go.
LEMMA OrderOfSockets ==
    ASSUME TypeInv, OrderInv, UNCHANGED <<push, round, betting, ended>>,
           \A s \in Sockets :
              /\ InLine(s)' /\ Fresh(s)'
              /\ \A f \in Held(s)' : f \in Held(s) \/ f.type \notin LoopTypes
              /\ sock'[s].player \in {sock[s].player, None} \/ Held(s)' = {}
    PROVE  OrderInv'
  <1>1. \A r \in Rooms : Limit(r)' = Limit(r) /\ Telling(r)'
    BY DEF Limit, Telling, OrderInv
  <1>2. \A r \in Rooms : \A k \in DOMAIN push[r] : None \notin push[r][k].to
    <2>1. \A r \in Rooms : \A k \in DOMAIN push[r] : push[r][k] \in Pushes
      BY DEF TypeInv, TypeOK
    <2> QED
      BY <2>1, HubAssumption DEF Pushes
  <1>3. ASSUME NEW s \in Sockets PROVE Behind(s)'
    BY <1>2, <1>3 DEF OrderInv, Behind, About
  <1>4. ASSUME NEW s \in Sockets PROVE Within(s)'
    BY <1>1, <1>4 DEF OrderInv, Within, About
  <1> QED
    BY <1>1, <1>3, <1>4 DEF OrderInv

\* Ranks are numbers.
LEMMA Ranks ==
    ASSUME TypeOK
    PROVE  /\ \A s \in Sockets : \A f \in Held(s) : f.type \in LoopTypes => Rank(f) \in Nat
           /\ \A r \in Rooms : \A k \in DOMAIN push[r] :
                 push[r][k].frame.type # "detach" => Rank(push[r][k].frame) \in Nat
  <1>1. ASSUME NEW s \in Sockets, NEW f \in Held(s), f.type \in LoopTypes
        PROVE  Rank(f) \in Nat
    <2>1. f.n \in Nat
      BY <1>1, HeldType, HubAssumption DEF Frames
    <2> QED
      BY <1>1, <2>1, RankType
  <1>2. ASSUME NEW r \in Rooms, NEW k \in DOMAIN push[r],
               push[r][k].frame.type # "detach"
        PROVE  Rank(push[r][k].frame) \in Nat
    <2>1. push[r][k] \in Pushes
      BY <1>2 DEF TypeOK
    <2>2. push[r][k].frame.n \in Nat /\ push[r][k].frame.type \in LoopTypes
      BY <1>2, <2>1, HubAssumption DEF Pushes
    <2> QED
      BY <2>2, RankType
  <1> QED
    BY <1>1, <1>2

\* After the step the list of the loop is in order, and between what the life of
\* its room had come to and what it has come to.
TellsNew(r) ==
    \A k \in DOMAIN push'[r] : push'[r][k].frame.type # "detach" =>
        /\ Rank(push'[r][k].frame) \in Nat
        /\ Limit(r) < Rank(push'[r][k].frame)
        /\ Rank(push'[r][k].frame) <= Limit(r)'
        /\ \A l \in DOMAIN push'[r] :
              l < k /\ push'[r][l].frame.type # "detach" =>
                 Rank(push'[r][l].frame) < Rank(push'[r][k].frame)

\* A loop that was idle has something new to tell.
LEMMA OrderOfLoop ==
    ASSUME TypeInv, TypeInv', OrderInv, NEW r \in Rooms, push[r] = <<>>,
           UNCHANGED <<sock, queue, got>>, Limit(r)' \in Nat, Limit(r) <= Limit(r)',
           \A x \in Rooms : x # r => push'[x] = push[x] /\ Limit(x)' = Limit(x),
           TellsNew(r)
    PROVE  OrderInv'
  <1>0. TypeOK /\ Limit(r) \in Nat
    BY LimitType DEF TypeInv
  <1>1. \A x \in Rooms : Telling(x)'
    BY DEF OrderInv, Telling, TellsNew
  <1>2. \A s \in Sockets : InLine(s)' /\ Held(s)' = Held(s)
    BY LineSame DEF OrderInv
  <1>3. \A s \in Sockets : Fresh(s)'
    BY <1>2 DEF OrderInv, Fresh
  <1>4. ASSUME NEW s \in Sockets PROVE Within(s)'
    <2> SUFFICES ASSUME NEW x \in Rooms, NEW f \in Held(s), About(f, x)
                 PROVE  Rank(f) <= Limit(x)'
      BY <1>2 DEF Within, About
    <2>1. Rank(f) <= Limit(x) /\ Rank(f) \in Nat
      BY <1>0, Ranks DEF OrderInv, Within, About
    <2> QED
      BY <1>0, <2>1
  <1>5. ASSUME NEW s \in Sockets PROVE Behind(s)'
    <2> SUFFICES ASSUME NEW x \in Rooms, NEW k \in DOMAIN push'[x],
                        sock[s].player \in push'[x][k].to,
                        NEW f \in Held(s), About(f, x)
                 PROVE  Rank(f) < Rank(push'[x][k].frame)
      BY <1>2 DEF Behind, About
    <2>1. CASE x # r
      BY <2>1 DEF OrderInv, Behind
    <2>2. CASE x = r
      <3>1. Rank(f) <= Limit(r) /\ Rank(f) \in Nat
        BY <1>0, <2>2, Ranks DEF OrderInv, Within, About
      <3>2. push'[r][k].frame.type # "detach"
        BY <2>2 DEF TypeInv, PushOK
      <3> QED
        BY <1>0, <2>2, <3>1, <3>2 DEF TellsNew
    <2> QED
      BY <2>1, <2>2
  <1> QED
    BY <1>1, <1>2, <1>3, <1>4, <1>5 DEF OrderInv

\* The entries of a loop's list after a step are some of those from before, in
\* the same order, each for no more players than before.
Fewer(r) ==
    \/ push'[r] = push[r]
    \/ /\ DOMAIN push'[r] = {k \in Nat : k + 1 \in DOMAIN push[r] /\ k > 0}
       /\ \A k \in DOMAIN push'[r] : push'[r][k] = push[r][k + 1]
    \/ /\ DOMAIN push'[r] = DOMAIN push[r]
       /\ \A k \in DOMAIN push'[r] : /\ push'[r][k].frame = push[r][k].frame
                                     /\ push'[r][k].to \subseteq push[r][k].to

\* A list that only loses entries stays in order.
LEMMA TellingFewer ==
    ASSUME TypeInv, OrderInv, NEW r \in Rooms, Fewer(r),
           UNCHANGED <<round, betting, ended>>
    PROVE  Telling(r)'
  <1>0. DOMAIN push[r] \subseteq Nat
    BY DEF TypeInv, TypeOK
  <1>1. Limit(r)' = Limit(r) /\ Telling(r)
    BY DEF Limit, OrderInv
  <1>2. CASE push'[r] = push[r]
    BY <1>1, <1>2 DEF Telling
  <1>3. CASE /\ DOMAIN push'[r] = {k \in Nat : k + 1 \in DOMAIN push[r] /\ k > 0}
             /\ \A k \in DOMAIN push'[r] : push'[r][k] = push[r][k + 1]
    <2>1. \A k, l \in DOMAIN push'[r] : l < k => l + 1 < k + 1
      BY <1>3
    <2>2. \A k \in DOMAIN push'[r] : k + 1 \in DOMAIN push[r]
      BY <1>3
    <2> QED
      BY <1>1, <1>3, <2>1, <2>2 DEF Telling
  <1>4. CASE /\ DOMAIN push'[r] = DOMAIN push[r]
             /\ \A k \in DOMAIN push'[r] : push'[r][k].frame = push[r][k].frame
    BY <1>1, <1>4 DEF Telling
  <1> QED
    BY <1>2, <1>3, <1>4 DEF Fewer

\* p is done with the first entry of the list of r, and nothing else is lost.
Served(r, p) ==
    /\ \A k \in DOMAIN push'[r] : p \in push'[r][k].to =>
          \E l \in DOMAIN push[r] : 1 < l /\ push'[r][k] = push[r][l]
    /\ \A l \in DOMAIN push[r] : \A q \in push[r][l].to : ~(l = 1 /\ q = p) =>
          \E k \in DOMAIN push'[r] : /\ push'[r][k].frame = push[r][l].frame
                                     /\ q \in push'[r][k].to

\* One player is told of the first entry of a loop's list.
LEMMA PushNextParts ==
    ASSUME TypeInv, NEW r \in Rooms, PushNext(r)
    PROVE  \E p \in Players :
              /\ 1 \in DOMAIN push[r] /\ p \in push[r][1].to
              /\ push[r][1].frame \in Frames /\ About(push[r][1].frame, r)
              /\ SendToPlayer(p, push[r][1].frame)
              /\ Fewer(r) /\ \A x \in Rooms : x # r => push'[x] = push[x]
              /\ Served(r, p)
  <1> DEFINE now == Head(push[r])
             tail == Tail(push[r])
  <1>1. push[r] # <<>> /\ now.to # {} /\ push[r] \in Seq(Pushes)
    BY DEF PushNext, TypeInv, TypeOK
  <1>2. PICK p \in now.to :
           /\ SendToPlayer(p, now.frame)
           /\ push' = [push EXCEPT ![r] =
                          IF now.to = {p} THEN tail
                          ELSE <<[now EXCEPT !.to = @ \ {p}]>> \o tail]
    BY DEF PushNext, TypeInv, TypeOK
  <1>3. /\ now = push[r][1] /\ 1 \in DOMAIN push[r] /\ now \in Pushes
        /\ tail \in Seq(Pushes) /\ Len(tail) = Len(push[r]) - 1 /\ Len(push[r]) \in Nat
        /\ DOMAIN push[r] = 1..Len(push[r])
        /\ \A k \in 1..Len(tail) : tail[k] = push[r][k + 1]
    BY <1>1
  <1>4. now.frame.type # "detach" /\ now.frame.room = r
    BY <1>1, <1>3 DEF TypeInv, PushOK
  <1>5. now.frame \in Frames /\ About(now.frame, r) /\ p \in Players
    BY <1>2, <1>3, <1>4 DEF Pushes, Frames, FrameTypes, About
  <1>6. \A x \in Rooms : x # r => push'[x] = push[x]
    BY <1>2 DEF TypeInv, TypeOK
  <1>7. CASE push'[r] = tail /\ now.to = {p}
    <2>1. DOMAIN push'[r] = 1..Len(tail)
      BY <1>3, <1>7
    <2>2. /\ DOMAIN push'[r] = {k \in Nat : k + 1 \in DOMAIN push[r] /\ k > 0}
          /\ \A k \in DOMAIN push'[r] : /\ push'[r][k] = push[r][k + 1]
                                        /\ k + 1 \in DOMAIN push[r] /\ 1 < k + 1
      <3>1. \A k : k \in 1..Len(tail) <=> k \in Nat /\ k + 1 \in DOMAIN push[r] /\ k > 0
        BY <1>3
      <3> QED
        BY <1>3, <1>7, <2>1, <3>1
    <2>3. Fewer(r)
      BY <2>2 DEF Fewer
    <2>4. ASSUME NEW l \in DOMAIN push[r], NEW q \in push[r][l].to, ~(l = 1 /\ q = p)
          PROVE  \E k \in DOMAIN push'[r] : /\ push'[r][k].frame = push[r][l].frame
                                            /\ q \in push'[r][k].to
      <3>1. l # 1 /\ l - 1 \in DOMAIN push'[r]
        BY <1>3, <1>7, <2>1, <2>4
      <3>2. push'[r][l - 1] = push[r][l]
        BY <1>3, <2>2, <3>1
      <3> QED
        BY <2>4, <3>1, <3>2
    <2>5. Served(r, p)
      BY <2>2, <2>4 DEF Served
    <2> QED
      BY <1>2, <1>3, <1>5, <1>6, <2>3, <2>5
  <1>8. CASE push'[r] = <<[now EXCEPT !.to = @ \ {p}]>> \o tail
    <2> DEFINE rest == [now EXCEPT !.to = @ \ {p}]
    <2>1. rest \in Pushes /\ rest.frame = now.frame /\ rest.to = now.to \ {p}
      BY <1>3 DEF Pushes
    <2>2. push'[r] = <<rest>> \o tail
      BY <1>8
    <2> HIDE DEF rest, tail
    <2>3. /\ DOMAIN push'[r] = 1..(Len(tail) + 1)
          /\ push'[r][1] = rest
          /\ \A k \in 1..(Len(tail) + 1) : k > 1 => push'[r][k] = tail[k - 1]
      BY <1>3, <2>1, <2>2
    <2>4. DOMAIN push'[r] = DOMAIN push[r]
      BY <1>3, <2>3
    <2>5. \A k \in DOMAIN push'[r] : k > 1 => push'[r][k] = push[r][k] /\ k \in DOMAIN push[r]
      BY <1>3, <2>3
    <2>6. \A k \in DOMAIN push'[r] : /\ push'[r][k].frame = push[r][k].frame
                                     /\ push'[r][k].to \subseteq push[r][k].to
      <3> SUFFICES ASSUME NEW k \in DOMAIN push'[r]
                   PROVE  /\ push'[r][k].frame = push[r][k].frame
                          /\ push'[r][k].to \subseteq push[r][k].to
        OBVIOUS
      <3>1. CASE k = 1
        BY <1>3, <2>1, <2>3, <3>1
      <3>2. CASE k > 1
        BY <2>5, <3>2
      <3> QED
        BY <1>3, <2>4, <3>1, <3>2
    <2>7. Fewer(r)
      BY <2>4, <2>6 DEF Fewer
    <2>8. \A k \in DOMAIN push'[r] : p \in push'[r][k].to => k > 1
      BY <1>3, <2>1, <2>3, <2>4
    <2>9. \A k \in DOMAIN push[r] : \A q \in push[r][k].to :
             ~(k = 1 /\ q = p) => q \in push'[r][k].to
      BY <1>3, <2>1, <2>3, <2>4, <2>5
    <2>10. Served(r, p)
      BY <2>4, <2>5, <2>6, <2>8, <2>9 DEF Served
    <2> QED
      BY <1>2, <1>3, <1>5, <1>6, <2>7, <2>10
  <1>9. /\ now.to = {p} => push'[r] = tail
        /\ now.to # {p} => push'[r] = <<[now EXCEPT !.to = @ \ {p}]>> \o tail
    BY <1>2 DEF TypeInv, TypeOK
  <1> QED
    BY <1>7, <1>8, <1>9

\* Its frame comes after all that its player's socket holds.
LEMMA OrderOfPush ==
    ASSUME TypeInv, RegistryInv, OrderInv, NEW r \in Rooms, PushNext(r)
    PROVE  OrderInv'
  <1>0. /\ TypeOK /\ UNCHANGED <<sock, got, round, betting, ended>>
        /\ \A p \in Players : clients[p] \in Sockets \cup {None}
    BY DEF TypeInv, TypeOK, PushNext, dbVars
  <1>1. PICK p \in Players :
           /\ 1 \in DOMAIN push[r] /\ p \in push[r][1].to
           /\ push[r][1].frame \in Frames /\ About(push[r][1].frame, r)
           /\ SendToPlayer(p, push[r][1].frame)
           /\ Fewer(r) /\ \A x \in Rooms : x # r => push'[x] = push[x]
           /\ Served(r, p)
    BY PushNextParts
  <1> DEFINE g == push[r][1].frame
  <1>2. g.type \in LoopTypes /\ g.type # "detach" /\ g.room = r
    BY <1>1 DEF About, LoopTypes
  <1>3. \A t \in Sockets : /\ t # clients[p] => queue'[t] = queue[t]
                           /\ queue'[t] = queue[t] \/ queue'[t] = Append(queue[t], Kept(t, g))
    BY <1>0, <1>1, SendKeeps
  <1>4. \A t \in Sockets : t = clients[p] => Live(t) /\ sock[t].player = p
    BY <1>0, HubAssumption DEF RegistryInv
  <1>5. \A x \in Rooms : Fewer(x)
    BY <1>1 DEF Fewer
  <1>6. \A x \in Rooms : Telling(x)' /\ Limit(x)' = Limit(x)
    BY <1>0, <1>5, TellingFewer DEF Limit
  <1>7. ASSUME NEW t \in Sockets
        PROVE  /\ InLine(t)'
               /\ \A f \in Held(t)' : \/ f \in Held(t) \/ f.type \notin LoopTypes
                                      \/ f = g /\ t = clients[p]
               /\ t # clients[p] => Held(t)' = Held(t)
    <2>1. CASE queue'[t] = queue[t]
      BY <1>0, <2>1, LineSame DEF OrderInv
    <2>2. CASE t = clients[p] /\ queue'[t] = Append(queue[t], Kept(t, g))
      <3>1. Kept(t, g) \in Frames /\ (Kept(t, g) = g \/ Kept(t, g).type \notin LoopTypes)
        BY <1>1, KeptType DEF Kept, ErrorFrame, Frame, LoopTypes
      <3>2. \A f \in Held(t) : About(f, r) => Rank(f) < Rank(g)
        BY <1>1, <1>4, <2>2 DEF OrderInv, Behind
      <3>3. \A f \in Held(t) : Ordered(f, Kept(t, g))
        BY <1>2, <3>1, <3>2 DEF Ordered, About
      <3>4. InLine(t)' /\ Held(t)' = Held(t) \cup {Kept(t, g)}
        BY <1>0, <2>2, <3>1, <3>3, LineAppend DEF OrderInv
      <3> QED
        BY <2>2, <3>1, <3>4
    <2> QED
      BY <1>3, <2>1, <2>2
  <1>8. \A t \in Sockets : Fresh(t)'
    BY <1>0, <1>4, <1>7 DEF OrderInv, Fresh, Live
  <1>9. ASSUME NEW t \in Sockets PROVE Within(t)'
    <2>1. Rank(g) <= Limit(r)
      BY <1>1, <1>2 DEF OrderInv, Telling
    <2> QED
      BY <1>2, <1>6, <1>7, <1>9, <2>1 DEF OrderInv, Within, About
  <1>10. ASSUME NEW t \in Sockets PROVE Behind(t)'
    <2> SUFFICES ASSUME NEW x \in Rooms, NEW k \in DOMAIN push'[x],
                        sock[t].player \in push'[x][k].to,
                        NEW f \in Held(t)', About(f, x)
                 PROVE  Rank(f) < Rank(push'[x][k].frame)
      BY <1>0 DEF Behind, About
    <2>1. CASE f \in Held(t)
      <3>1. PICK l \in DOMAIN push[x] : /\ push'[x][k].frame = push[x][l].frame
                                        /\ push'[x][k].to \subseteq push[x][l].to
        BY <1>5 DEF Fewer
      <3> QED
        BY <2>1, <3>1 DEF OrderInv, Behind
    <2>2. CASE f = g /\ t = clients[p]
      <3>1. x = r /\ sock[t].player = p
        BY <1>2, <1>4, <2>2 DEF About
      <3>2. PICK l \in DOMAIN push[r] : 1 < l /\ push'[r][k] = push[r][l]
        BY <1>1, <3>1 DEF Served
      <3>3. push[r][l].frame.type # "detach"
        BY <3>1, <3>2 DEF TypeInv, PushOK
      <3> QED
        BY <1>1, <1>2, <2>2, <3>1, <3>2, <3>3 DEF OrderInv, Telling
    <2> QED
      BY <1>7, <2>1, <2>2 DEF About
  <1> QED
    BY <1>6, <1>7, <1>8, <1>9, <1>10 DEF OrderInv
\* Steps that write nothing to a peer: a queue may get a frame that is not a
\* loop's, and a socket may lose its player.
LEMMA OrderOfOthers ==
    ASSUME TypeInv, TypeInv', OrderInv, UNCHANGED <<push, round, betting, ended, got>>,
           \A s \in Sockets :
              /\ \/ queue'[s] = queue[s]
                 \/ \E g \in Frames : /\ g.type \notin LoopTypes
                                      /\ queue'[s] = Append(queue[s], g)
              /\ \/ sock'[s].player \in {sock[s].player, None}
                 \/ sock[s].pc = "new" /\ queue'[s] = queue[s]
              /\ sock'[s].pc = "new" => sock[s].pc = "new" /\ queue'[s] = queue[s]
              /\ sock'[s].prev \in {sock[s].prev, None} \/ sock[sock'[s].prev].pc # "new"
    PROVE  OrderInv'
  <1>0. TypeOK /\ \A s \in Sockets : sock'[s].prev \in Sockets \cup {None}
    BY DEF TypeInv, TypeOK, SockRecords
  <1>1. ASSUME NEW s \in Sockets
        PROVE  /\ InLine(s)'
               /\ \A f \in Held(s)' : f \in Held(s) \/ f.type \notin LoopTypes
               /\ queue'[s] = queue[s] => Held(s)' = Held(s)
    <2>1. CASE queue'[s] = queue[s]
      BY <2>1, LineSame DEF OrderInv
    <2>2. CASE \E g \in Frames : /\ g.type \notin LoopTypes
                                 /\ queue'[s] = Append(queue[s], g)
      <3>1. PICK g \in Frames : g.type \notin LoopTypes /\ queue'[s] = Append(queue[s], g)
        BY <2>2
      <3>2. \A f \in Held(s) : Ordered(f, g)
        BY <3>1 DEF Ordered
      <3>3. InLine(s)' /\ Held(s)' = Held(s) \cup {g}
        BY <1>0, <3>1, <3>2, LineAppend DEF OrderInv
      <3> QED
        BY <2>1, <3>1, <3>3
    <2> QED
      BY <2>1, <2>2
  <1>2. ASSUME NEW s \in Sockets PROVE Fresh(s)'
    <2>1. sock'[s].pc = "new" => Held(s)' = {}
      BY <1>1 DEF OrderInv, Fresh
    <2>2. sock'[s].prev # None => sock'[sock'[s].prev].pc # "new"
      BY <1>0 DEF OrderInv, Fresh
    <2> QED
      BY <2>1, <2>2 DEF Fresh
  <1>3. \A s \in Sockets : sock[s].pc = "new" => Held(s) = {}
    BY DEF OrderInv, Fresh
  <1>4. \A s \in Sockets : sock'[s].player \in {sock[s].player, None} \/ Held(s)' = {}
    BY <1>1, <1>3
  <1> QED
    BY <1>1, <1>2, <1>4, OrderOfSockets

\* A step of the room's life: the loop has a new list to tell.
LEMMA OrderOfLife ==
    ASSUME TypeInv, TypeInv', OrderInv, NEW r \in Rooms,
           \/ RoundStarted(r) \/ RoomClosed(r)
           \/ \E closes \in BOOLEAN : RoundSettled(r, closes)
    PROVE  OrderInv'
  <1> USE DEF vars, dbVars, hubVars, sockVars
  <1>a. TypeOK /\ TypeOK'
    BY DEF TypeInv
  <1>b. /\ round[r] \in Nat /\ members[r] \subseteq Players
        /\ ended[r] \in BOOLEAN /\ betting[r] \in BOOLEAN
    BY <1>a, HubAssumption DEF TypeOK
  <1>1. /\ push[r] = <<>> /\ ~ended[r] /\ UNCHANGED <<sock, queue, got>>
        /\ \A x \in Rooms : x # r => /\ push'[x] = push[x] /\ round'[x] = round[x]
                                     /\ betting'[x] = betting[x] /\ ended'[x] = ended[x]
    BY <1>a DEF RoundStarted, RoomClosed, RoundSettled, LoopIdle, TypeOK
  <1>2. \A x \in Rooms : x # r => push'[x] = push[x] /\ Limit(x)' = Limit(x)
    BY <1>1 DEF Limit
  <1>3. /\ Limit(r) \in Nat /\ Limit(r)' \in Nat
        /\ betting[r] => Limit(r) = 5 * round[r]
        /\ ~betting[r] => Limit(r) = 5 * round[r] + 2
        /\ ended'[r] => Limit(r)' = 5 * round'[r] + 4
        /\ ~ended'[r] /\ betting'[r] => Limit(r)' = 5 * round'[r]
        /\ ~ended'[r] /\ ~betting'[r] => Limit(r)' = 5 * round'[r] + 2
    BY <1>a, <1>1, LimitType, LimitTypeNext
  <1> DEFINE n == round[r]
  <1>4. CASE RoundStarted(r)
    <2>1. /\ ~betting[r] /\ betting'[r] /\ ~ended'[r] /\ round'[r] = n + 1
          /\ push'[r] = <<ToMembers("started", r, n + 1)>>
      BY <1>a, <1>4 DEF RoundStarted, TypeOK
    <2>2. /\ DOMAIN push'[r] = {1}
          /\ push'[r][1].frame.type = "started" /\ push'[r][1].frame.n = n + 1
      BY <2>1 DEF ToMembers, Frame
    <2>3. Rank(push'[r][1].frame) = 5 * (n + 1)
      BY <2>2 DEF Rank
    <2>4. TellsNew(r)
      BY <1>b, <1>3, <2>1, <2>2, <2>3 DEF TellsNew
    <2>5. Limit(r) <= Limit(r)'
      BY <1>b, <1>3, <2>1
    <2> QED
      BY <1>1, <1>2, <1>3, <2>4, <2>5, OrderOfLoop
  <1>5. CASE RoomClosed(r)
    <2>1. /\ ended'[r] /\ round'[r] = n
          /\ push'[r] = <<ToMembers("final", r, n), ToMembers("closed", r, n), Detaching(r)>>
      BY <1>a, <1>5 DEF RoomClosed, TypeOK
    <2>2. /\ DOMAIN push'[r] = {1, 2, 3}
          /\ push'[r][1].frame.type = "final" /\ push'[r][1].frame.n = n
          /\ push'[r][2].frame.type = "closed" /\ push'[r][2].frame.n = n
          /\ push'[r][3].frame.type = "detach"
      BY <2>1 DEF ToMembers, Detaching, Frame
    <2>3. /\ Rank(push'[r][1].frame) = 5 * n + 3
          /\ Rank(push'[r][2].frame) = 5 * n + 4
      BY <2>2 DEF Rank
    <2>4. TellsNew(r)
      BY <1>b, <1>3, <2>1, <2>2, <2>3 DEF TellsNew
    <2>5. Limit(r) <= Limit(r)'
      BY <1>b, <1>3, <2>1
    <2> QED
      BY <1>1, <1>2, <1>3, <2>4, <2>5, OrderOfLoop
  <1>6. CASE RoundSettled(r, TRUE)
    <2>1. /\ betting[r] /\ ended'[r] /\ round'[r] = n
          /\ push'[r] = <<ToMembers("result", r, n), ToMembers("final", r, n),
                          ToMembers("closed", r, n), Detaching(r)>>
      BY <1>a, <1>6 DEF RoundSettled, Settled, TypeOK
    <2>2. /\ DOMAIN push'[r] = {1, 2, 3, 4}
          /\ push'[r][1].frame.type = "result" /\ push'[r][1].frame.n = n
          /\ push'[r][2].frame.type = "final" /\ push'[r][2].frame.n = n
          /\ push'[r][3].frame.type = "closed" /\ push'[r][3].frame.n = n
          /\ push'[r][4].frame.type = "detach"
      BY <2>1 DEF ToMembers, Detaching, Frame
    <2>3. /\ Rank(push'[r][1].frame) = 5 * n + 1
          /\ Rank(push'[r][2].frame) = 5 * n + 3
          /\ Rank(push'[r][3].frame) = 5 * n + 4
      BY <2>2 DEF Rank
    <2>4. TellsNew(r)
      BY <1>b, <1>3, <2>1, <2>2, <2>3 DEF TellsNew
    <2>5. Limit(r) <= Limit(r)'
      BY <1>b, <1>3, <2>1
    <2> QED
      BY <1>1, <1>2, <1>3, <2>4, <2>5, OrderOfLoop
  <1>7. CASE RoundSettled(r, FALSE)
    <2>1. /\ betting[r] /\ ~betting'[r] /\ ~ended'[r] /\ round'[r] = n
          /\ push'[r] = <<ToMembers("result", r, n), ToMembers("balance", r, n)>>
      BY <1>a, <1>7 DEF RoundSettled, Settled, TypeOK
    <2>2. /\ DOMAIN push'[r] = {1, 2}
          /\ push'[r][1].frame.type = "result" /\ push'[r][1].frame.n = n
          /\ push'[r][2].frame.type = "balance" /\ push'[r][2].frame.n = n
      BY <2>1 DEF ToMembers, Frame
    <2>3. /\ Rank(push'[r][1].frame) = 5 * n + 1
          /\ Rank(push'[r][2].frame) = 5 * n + 2
      BY <2>2 DEF Rank
    <2>4. TellsNew(r)
      BY <1>b, <1>3, <2>1, <2>2, <2>3 DEF TellsNew
    <2>5. Limit(r) <= Limit(r)'
      BY <1>b, <1>3, <2>1
    <2> QED
      BY <1>1, <1>2, <1>3, <2>4, <2>5, OrderOfLoop
  <1> QED
    BY <1>4, <1>5, <1>6, <1>7

\* DetachRoom is told to nobody.
LEMMA OrderOfDetach ==
    ASSUME TypeInv, OrderInv, NEW r \in Rooms, DetachRoom(r)
    PROVE  OrderInv'
  <1>1. /\ UNCHANGED <<sock, queue, got, round, betting, ended>>
        /\ push' = [push EXCEPT ![r] = Tail(push[r])]
        /\ push[r] \in Seq(Pushes) /\ push[r] # <<>>
    BY DEF DetachRoom, TypeInv, TypeOK, sockVars, dbVars
  <1>2. push'[r] = Tail(push[r]) /\ \A x \in Rooms : x # r => push'[x] = push[x]
    BY <1>1 DEF TypeInv, TypeOK
  <1>3. /\ Len(push[r]) \in Nat /\ DOMAIN push[r] = 1..Len(push[r])
        /\ DOMAIN push'[r] = 1..(Len(push[r]) - 1)
        /\ \A k \in DOMAIN push'[r] : push'[r][k] = push[r][k + 1]
    <2> DEFINE tail == Tail(push[r])
    <2>1. /\ Len(push[r]) \in Nat /\ DOMAIN push[r] = 1..Len(push[r])
          /\ tail \in Seq(Pushes) /\ Len(tail) = Len(push[r]) - 1
          /\ \A k \in 1..Len(tail) : tail[k] = push[r][k + 1]
      BY <1>1
    <2> QED
      BY <1>2, <2>1
  <1>4. \A k : k \in DOMAIN push'[r] <=> k \in Nat /\ k + 1 \in DOMAIN push[r] /\ k > 0
    BY <1>3
  <1>5. \A x \in Rooms : Fewer(x)
    BY <1>2, <1>3, <1>4 DEF Fewer
  <1>6. \A x \in Rooms : Telling(x)' /\ Limit(x)' = Limit(x)
    BY <1>1, <1>5, TellingFewer DEF Limit
  <1>7. \A s \in Sockets : InLine(s)' /\ Held(s)' = Held(s)
    BY <1>1, LineSame DEF OrderInv
  <1>8. \A s \in Sockets : Fresh(s)' /\ Within(s)'
    BY <1>1, <1>6, <1>7 DEF OrderInv, Fresh, Within, About
  <1>9. ASSUME NEW s \in Sockets PROVE Behind(s)'
    <2> SUFFICES ASSUME NEW x \in Rooms, NEW k \in DOMAIN push'[x],
                        sock[s].player \in push'[x][k].to,
                        NEW f \in Held(s), About(f, x)
                 PROVE  Rank(f) < Rank(push'[x][k].frame)
      BY <1>1, <1>7 DEF Behind, About
    <2>1. PICK l \in DOMAIN push[x] : /\ push'[x][k].frame = push[x][l].frame
                                      /\ push'[x][k].to \subseteq push[x][l].to
      BY <1>5 DEF Fewer
    <2> QED
      BY <2>1 DEF OrderInv, Behind
  <1> QED
    BY <1>6, <1>7, <1>8, <1>9 DEF OrderInv

\* One step for every action, most of them by OrderOfOthers.
LEMMA OrderInvStep ==
    ASSUME TypeInv, TypeInv', RegistryInv, OrderInv, [Next]_vars
    PROVE  OrderInv'
  <1> USE DEF vars, dbVars, hubVars, sockVars
  <1>0. /\ TypeOK /\ \A s \in Sockets : SockOK(s) /\ SessOK(s)
        /\ \A p \in Players : clients[p] \in Sockets \cup {None}
        /\ \A s \in Sockets : sock[s] \in SockRecords
    BY DEF TypeInv, TypeOK
  <1> DEFINE LoopsSame == UNCHANGED <<push, round, betting, ended, got>>
  \* Steps that leave the sockets and what the loops have to tell.
  <1>1. ASSUME LoopsSame, UNCHANGED <<sock, queue>> PROVE OrderInv'
    BY <1>1, OrderOfOthers
  <1>2. ASSUME NEW s \in Sockets, Refuse(s) PROVE OrderInv'
    <2>1. /\ LoopsSame /\ UNCHANGED queue
          /\ sock'[s].pc = "gone" /\ sock'[s].player = sock[s].player
          /\ sock'[s].prev = sock[s].prev
          /\ \A t \in Sockets : t # s => sock'[t] = sock[t]
      BY <1>0, <1>2 DEF Refuse, TypeOK, SockRecords
    <2> QED
      BY <2>1, OrderOfOthers
  <1>3. ASSUME NEW s \in Sockets, NEW p \in Players, Register(s, p) PROVE OrderInv'
    <2> DEFINE y == [NewSock EXCEPT !.pc = "registering", !.player = p,
                                    !.prev = clients[p]]
    <2>1. y.pc = "registering" /\ y.prev = clients[p]
      BY DEF NewSock
    <2>2. sock' = [sock EXCEPT ![s] = y] /\ sock[s].pc = "new"
      BY <1>3 DEF Register
    <2> HIDE DEF y
    <2>3. /\ LoopsSame /\ UNCHANGED queue
          /\ sock'[s].pc = "registering" /\ sock'[s].prev = clients[p]
          /\ \A t \in Sockets : t # s => sock'[t] = sock[t]
      BY <1>0, <1>3, <2>1, <2>2 DEF Register, TypeOK
    <2>4. clients[p] # None => sock[clients[p]].pc # "new"
      BY DEF RegistryInv, Live
    <2> QED
      BY <2>2, <2>3, <2>4, OrderOfOthers
  \* The error that explains goes to a socket that was registered.
  <1>4. ASSUME NEW s \in Sockets, Replace(s) PROVE OrderInv'
    <2>1. /\ LoopsSame /\ sock[s].pc = "registering"
          /\ sock'[s].pc = "up" /\ sock'[s].player = sock[s].player /\ sock'[s].prev = None
          /\ \A t \in Sockets : t # s => sock'[t] = sock[t]
      <3> DEFINE y == [sock[s] EXCEPT !.pc = "up", !.prev = None]
      <3>1. sock' = [sock EXCEPT ![s] = y]
        BY <1>0, <1>4 DEF Replace, TypeOK
      <3>2. y.pc = "up" /\ y.player = sock[s].player /\ y.prev = None
        BY <1>0 DEF SockRecords
      <3> HIDE DEF y
      <3> QED
        BY <1>0, <1>4, <3>1, <3>2 DEF Replace, TypeOK
    <2> DEFINE old == sock[s].prev
    <2>2. old \in Sockets \cup {None}
      BY <1>0 DEF SockRecords
    <2>3. old # None => sock[old].pc # "new"
      BY DEF OrderInv, Fresh
    <2>4. \A t \in Sockets : \/ queue'[t] = queue[t]
                             \/ t = old /\ old # None /\ queue'[t] = Append(queue[t], ErrorFrame)
      <3>1. CASE UNCHANGED queue
        BY <3>1
      <3>2. CASE ~UNCHANGED queue
        <4>1. old # None /\ queue' = [queue EXCEPT ![old] = Append(queue[old], ErrorFrame)]
          BY <1>0, <1>4, <2>2, <3>2 DEF Replace, TypeOK
        <4> HIDE DEF old
        <4> QED
          BY <1>0, <2>2, <4>1 DEF TypeOK
      <3> QED
        BY <3>1, <3>2
    <2>5. ErrorFrame \in Frames /\ ErrorFrame.type \notin LoopTypes
      BY ErrorFrameType DEF ErrorFrame, Frame, LoopTypes
    <2> HIDE DEF old
    <2>6. \A t \in Sockets : queue'[t] # queue[t] => sock[t].pc # "new"
      BY <2>3, <2>4
    <2>7. \A t \in Sockets : /\ sock'[t].player = sock[t].player
                             /\ sock'[t].pc = "new" => sock[t].pc = "new"
                             /\ sock'[t].prev \in {sock[t].prev, None}
      BY <2>1
    <2> QED
      BY <2>1, <2>4, <2>5, <2>6, <2>7, OrderOfOthers
  <1>5. ASSUME NEW s \in Sockets, ReadPumpEnds(s) PROVE OrderInv'
    <2> DEFINE y == [NewSock EXCEPT !.pc = "gone"]
    <2>1. y.pc = "gone" /\ y.player = None /\ y.prev = None
      BY DEF NewSock
    <2>2. sock' = [sock EXCEPT ![s] = y]
      BY <1>5 DEF ReadPumpEnds
    <2> HIDE DEF y
    <2>3. /\ LoopsSame /\ UNCHANGED queue
          /\ sock'[s].pc = "gone" /\ sock'[s].player = None /\ sock'[s].prev = None
          /\ \A t \in Sockets : t # s => sock'[t] = sock[t]
      BY <1>0, <1>5, <2>1, <2>2 DEF ReadPumpEnds, TypeOK
    <2> QED
      BY <2>3, OrderOfOthers
  <1>6. ASSUME NEW s \in Sockets, Write(s) PROVE OrderInv'
    <2>1. /\ UNCHANGED <<sock, push, round, betting, ended>>
          /\ \A t \in Sockets : t # s => got'[t] = got[t] /\ queue'[t] = queue[t]
      BY <1>0, <1>6 DEF Write, TypeOK
    <2>2. \A t \in Sockets : InLine(t)' /\ Held(t)' \subseteq Held(t)
      BY <1>0, <1>6, <2>1, LineWrite, LineSame DEF OrderInv
    <2>3. \A t \in Sockets : Fresh(t)'
      BY <2>1, <2>2 DEF OrderInv, Fresh
    <2> QED
      BY <2>1, <2>2, <2>3, OrderOfSockets
  <1>7. ASSUME NEW s \in Sockets, WritePumpEnds(s) PROVE OrderInv'
    <2>1. /\ UNCHANGED <<sock, push, round, betting, ended>>
          /\ got'[s] = <<>> /\ queue'[s] = <<>>
          /\ \A t \in Sockets : t # s => got'[t] = got[t] /\ queue'[t] = queue[t]
      BY <1>0, <1>7 DEF WritePumpEnds, TypeOK
    <2>2. InLine(s)' /\ Held(s)' = {}
      BY <2>1 DEF InLine, Held
    <2>3. \A t \in Sockets : InLine(t)' /\ Held(t)' \subseteq Held(t)
      BY <2>1, <2>2, LineSame DEF OrderInv
    <2>4. \A t \in Sockets : Fresh(t)'
      BY <2>1, <2>3 DEF OrderInv, Fresh
    <2> QED
      BY <2>1, <2>3, <2>4, OrderOfSockets
  \* A snapshot or a reply is no frame of a loop, and goes to a registered socket.
  <1>8. ASSUME NEW s \in Sockets, Reply(s) \/ ReadFails(s) PROVE OrderInv'
    <2>1. LoopsSame /\ UNCHANGED sock /\ sock[s].pc = "up" /\ Enqueue(s, ErrorFrame)
      BY <1>8 DEF Reply, ReadFails, Runs
    <2>2. /\ ErrorFrame \in Frames /\ ErrorFrame.type \notin LoopTypes
          /\ Kept(s, ErrorFrame) = ErrorFrame
      BY ErrorFrameType DEF Kept, ErrorFrame, Frame, LoopTypes
    <2>3. /\ \A t \in Sockets : t # s => queue'[t] = queue[t]
          /\ queue'[s] = queue[s] \/ queue'[s] = Append(queue[s], ErrorFrame)
      BY <1>0, <2>1, <2>2, EnqueueKeeps
    <2> QED
      BY <2>1, <2>2, <2>3, OrderOfOthers
  <1>9. ASSUME NEW s \in Sockets, PushState(s) PROVE OrderInv'
    <2>1. sess[s] \in SessRecords /\ sess[s].room \in Rooms
      BY <1>0, <1>9 DEF PushState, Runs, SessOK, TypeOK
    <2> DEFINE f == StateFrame(sess[s])
    <2>2. f \in Frames /\ f.type \in {"state", "over"} /\ sess[s].todo \subseteq Players
      BY <2>1 DEF StateFrame, Frame, Frames, FrameTypes, SessRecords
    <2>3. PICK p \in Players : SendToPlayer(p, f)
      BY <1>9, <2>2 DEF PushState
    <2>4. LoopsSame /\ UNCHANGED sock
      BY <1>9 DEF PushState
    <2>5. \A t \in Sockets : Kept(t, f) \in Frames /\ Kept(t, f).type \notin LoopTypes
      BY <2>2, KeptType DEF Kept, ErrorFrame, Frame, LoopTypes
    <2> HIDE DEF f
    <2>6. \A t \in Sockets : /\ t # clients[p] => queue'[t] = queue[t]
                             /\ queue'[t] = queue[t] \/ queue'[t] = Append(queue[t], Kept(t, f))
      BY <1>0, <2>2, <2>3, SendKeeps
    <2>7. \A t \in Sockets : t = clients[p] => sock[t].pc # "new"
      BY HubAssumption DEF RegistryInv, Live
    <2> QED
      BY <2>4, <2>5, <2>6, <2>7, OrderOfOthers
  \* setRoom, from a session or from DetachRoom, and the read of a snapshot.
  <1>10. ASSUME NEW s \in Sockets,
                SetRoom(s) \/ ReadState(s) \/ \E r \in Rooms : DetachClear(r, s)
         PROVE  OrderInv'
    <2>1. LoopsSame /\ UNCHANGED queue
      BY <1>10 DEF SetRoom, ReadState, DetachClear
    <2>2. \A t \in Sockets : /\ sock'[t].pc = sock[t].pc
                             /\ sock'[t].player = sock[t].player
                             /\ sock'[t].prev = sock[t].prev
      BY <1>0, <1>10, SetRoomKeeps
    <2> QED
      BY <2>1, <2>2, OrderOfOthers
  <1>11. CASE UNCHANGED vars
    BY <1>1, <1>11
  <1>12. ASSUME NEW s \in Sockets,
                \/ \E p \in Players : Register(s, p)
                \/ Refuse(s) \/ Replace(s) \/ ReadPumpEnds(s) \/ Write(s)
                \/ WritePumpEnds(s) \/ SessNext(s) \/ Reply(s)
                \/ \E r \in Rooms : JoinRoom(s, r)
         PROVE  OrderInv'
    <2>1. CASE (\E r \in Rooms : JoinRoom(s, r)) \/ AttachToRoom(s)
      BY <1>1, <2>1 DEF JoinRoom, AttachToRoom
    <2> QED
      BY <1>2, <1>3, <1>4, <1>5, <1>6, <1>7, <1>8, <1>9, <1>10, <1>12, <2>1 DEF SessNext
  <1>13. ASSUME NEW r \in Rooms,
                \/ RoundStarted(r) \/ RoomClosed(r) \/ LoopNext(r)
                \/ \E closes \in BOOLEAN : RoundSettled(r, closes)
                \/ \E p \in Players : CreateRoom(p, r)
         PROVE  OrderInv'
    <2>1. CASE \/ RoundStarted(r) \/ RoomClosed(r)
               \/ \E closes \in BOOLEAN : RoundSettled(r, closes)
      BY <2>1, OrderOfLife
    <2>2. CASE \/ \E s \in Sockets : DetachCheck(r, s)
               \/ \E p \in Players : CreateRoom(p, r)
      BY <1>1, <2>2 DEF DetachCheck, CreateRoom
    <2> QED
      BY <1>10, <1>13, <2>1, <2>2, OrderOfPush, OrderOfDetach DEF LoopNext
  <1> QED
    BY <1>11, <1>12, <1>13 DEF Next

LEMMA OrderInvariant == Spec => []OrderInv
  <1>1. Init => OrderInv
    <2> SUFFICES ASSUME Init PROVE OrderInv
      OBVIOUS
    <2>1. \A s \in Sockets : Held(s) = {}
      BY DEF Init, Held
    <2>2. \A s \in Sockets : InLine(s) /\ Behind(s) /\ Within(s) /\ Fresh(s)
      BY <2>1, NewSockType DEF Init, InLine, Behind, Within, Fresh
    <2>3. \A r \in Rooms : Telling(r)
      BY DEF Init, Telling
    <2> QED
      BY <2>2, <2>3 DEF OrderInv
  <1>2. TypeInv /\ TypeInv' /\ RegistryInv /\ OrderInv /\ [Next]_vars => OrderInv'
    BY OrderInvStep
  <1> QED
    BY <1>1, <1>2, TypeInvariant, RegistryInvariant, PTL DEF Spec

\* hub.go, RoundSettled: "a client should learn what happened before it is told
\* what it is now worth".  On every socket the frames of a loop arrive in the
\* order of the room's life, whatever is dropped, whenever the socket came and
\* whatever else is queued in between: for any number of players, sockets, rooms
\* and rounds, and a queue of any size.
THEOREM FramesInOrder == Spec => []RoundFramesInOrder
  <1>1. OrderInv => RoundFramesInOrder
    BY DEF OrderInv, InLine, Ordered, RoundFramesInOrder
  <1> QED
    BY <1>1, OrderInvariant, PTL
-----------------------------------------------------------------------------
(***************************************************************************)
(* What a joiner learns.                                                   *)
(***************************************************************************)
\* The frames about r that reached the peer of s, or are on their way to it.
Coming(s, r) ==
    {f \in Held(s) : f.room = r}
        \cup {push[r][i].frame : i \in {k \in DOMAIN push[r] :
                                            sock[s].player \in push[r][k].to}}

\* s is where the frames of its player go, and all of them are recorded.
Reached(s) ==
    s \in Watched /\ sock[s].pc = "up" /\ ~closed[s] /\ clients[sock[s].player] = s

Knows(s, r)    == \E f \in Coming(s, r) : f.n = round[r]
KnowsEnd(s, r) == \E f \in Coming(s, r) : f.type \in {"closed", "over"}

\* The snapshot the session of s has read is still to be sent to s.
Pending(s) == sess[s].pc = "push" /\ sock[s].player \in sess[s].todo

\* What s, which has read a snapshot of r, knows of r: the latest round and the
\* end, from what has come or from the snapshot.
Learns(s, r) ==
    /\ sock[s].player \in members[r]
    /\ sess[s].pc = "push" => sess[s].room = r
    /\ Knows(s, r) \/ (Pending(s) /\ sess[s].n = round[r])
    /\ ended[r] => KnowsEnd(s, r) \/ (Pending(s) /\ sess[s].over)

\* Before its pumps start a socket has joined nothing.
Unjoined(s) ==
    sock[s].pc \in {"new", "registering"} => sock[s].joined = None /\ sess[s].pc = "idle"

\* The seat comes before everything else session.join does.
Seated(s) == sess[s].pc # "idle" => sock[s].player \in members[sess[s].room]

LearnInv ==
    /\ \A s \in Sockets : Unjoined(s) /\ Seated(s)
    /\ \A s \in Sockets : Reached(s) /\ sock[s].joined # None => Learns(s, sock[s].joined)

\* A queue that gets a frame loses none.
LEMMA HeldGrows ==
    ASSUME TypeOK, NEW s \in Sockets, got'[s] = got[s],
           NEW g \in Frames, queue'[s] = queue[s] \/ queue'[s] = Append(queue[s], g)
    PROVE  /\ Held(s) \subseteq Held(s)'
           /\ queue'[s] = Append(queue[s], g) => g \in Held(s)'
  <1>1. queue[s] \in Seq(Frames)
    BY DEF TypeOK
  <1>2. CASE queue'[s] = queue[s] /\ queue'[s] # Append(queue[s], g)
    BY <1>2 DEF Held
  <1>3. CASE queue'[s] = Append(queue[s], g)
    <2>1. /\ \A i \in DOMAIN queue[s] : i \in DOMAIN queue'[s] /\ queue'[s][i] = queue[s][i]
          /\ Len(queue[s]) + 1 \in DOMAIN queue'[s]
          /\ queue'[s][Len(queue[s]) + 1] = g
      BY <1>1, <1>3
    <2> QED
      BY <1>3, <2>1 DEF Held
  <1> QED
    BY <1>2, <1>3

\* The write pump delivers what it takes from the queue.
LEMMA HeldWrite ==
    ASSUME TypeOK, NEW s \in Sockets, s \in Watched, Write(s),
           NEW f \in Held(s), f.room # None
    PROVE  f \in Held(s)'
  <1>1. /\ got[s] \in Seq(Frames) /\ queue[s] \in Seq(Frames) /\ queue[s] # <<>>
        /\ queue'[s] = Tail(queue[s])
        /\ Head(queue[s]).room # None => got'[s] = Append(got[s], Head(queue[s]))
        /\ Head(queue[s]).room = None => got'[s] = got[s]
    BY DEF TypeOK, Write
  <1>2. /\ Head(queue[s]) = queue[s][1] /\ queue[s][1] \in Frames /\ Len(got[s]) \in Nat
        /\ \A j \in DOMAIN queue[s] : j # 1 =>
              j - 1 \in DOMAIN queue'[s] /\ queue'[s][j - 1] = queue[s][j]
    BY <1>1
  <1>3. \A i \in DOMAIN got[s] : i \in DOMAIN got'[s] /\ got'[s][i] = got[s][i]
    <2>1. CASE got'[s] = got[s]
      BY <2>1
    <2>2. CASE got'[s] = Append(got[s], queue[s][1])
      BY <1>1, <1>2, <2>2
    <2> QED
      BY <1>1, <1>2, <2>1, <2>2
  <1>4. f = queue[s][1] => got'[s][Len(got[s]) + 1] = f /\ Len(got[s]) + 1 \in DOMAIN got'[s]
    BY <1>1, <1>2
  <1>5. CASE \E i \in DOMAIN got[s] : f = got[s][i]
    BY <1>3, <1>5 DEF Held
  <1>6. CASE \E j \in DOMAIN queue[s] : f = queue[s][j]
    BY <1>2, <1>4, <1>6 DEF Held
  <1> QED
    BY <1>5, <1>6 DEF Held

\* A loop that has the same to tell, and a socket that loses no frame about a room.
LEMMA ComingKept ==
    ASSUME NEW s \in Sockets, NEW r \in Rooms, sock'[s].player = sock[s].player,
           push'[r] = push[r], \A f \in Held(s) : f.room # None => f \in Held(s)'
    PROVE  Coming(s, r) \subseteq Coming(s, r)'
  BY HubAssumption DEF Coming

\* PushNext moves a frame from the loop to the queue of the socket, unless that
\* closes the socket.
LEMMA ComingOfPush ==
    ASSUME TypeInv, NEW x \in Rooms, PushNext(x), NEW s \in Sockets, NEW r \in Rooms,
           Reached(s), ~closed'[s]
    PROVE  Coming(s, r) \subseteq Coming(s, r)'
  <1>0. /\ TypeOK /\ UNCHANGED <<sock, got>> /\ sock[s].player \in Players
        /\ s \in Watched /\ clients[sock[s].player] = s
    BY DEF TypeInv, SockOK, PushNext, Reached
  <1>1. PICK p \in Players :
           /\ 1 \in DOMAIN push[x] /\ p \in push[x][1].to
           /\ push[x][1].frame \in Frames /\ About(push[x][1].frame, x)
           /\ SendToPlayer(p, push[x][1].frame)
           /\ \A y \in Rooms : y # x => push'[y] = push[y]
           /\ Served(x, p)
    BY PushNextParts
  <1> DEFINE g == push[x][1].frame
  <1>2. /\ queue'[s] = queue[s] \/ queue'[s] = Append(queue[s], g)
        /\ p = sock[s].player => queue'[s] = Append(queue[s], g)
    <2>1. Kept(s, g) = g
      BY <1>0 DEF Kept
    <2> QED
      BY <1>0, <1>1, <2>1, SendKeeps, HubAssumption
  <1>3. Held(s) \subseteq Held(s)' /\ (p = sock[s].player => g \in Held(s)')
    BY <1>0, <1>1, <1>2, HeldGrows
  <1>4. CASE r # x
    BY <1>0, <1>1, <1>3, <1>4, ComingKept
  <1>5. CASE r = x
    <2> SUFFICES ASSUME NEW l \in DOMAIN push[x], sock[s].player \in push[x][l].to
                 PROVE  push[x][l].frame \in Coming(s, x)'
      BY <1>0, <1>3, <1>5 DEF Coming
    <2>1. CASE l = 1 /\ p = sock[s].player
      BY <1>1, <1>3, <2>1 DEF Coming, About
    <2>2. CASE ~(l = 1 /\ p = sock[s].player)
      <3>1. PICK k \in DOMAIN push'[x] : /\ push'[x][k].frame = push[x][l].frame
                                         /\ sock[s].player \in push'[x][k].to
        BY <1>1, <2>2 DEF Served
      <3> QED
        BY <1>0, <3>1 DEF Coming
    <2> QED
      BY <2>1, <2>2
  <1> QED
    BY <1>4, <1>5

\* The session of s does nothing, and nothing is taken from what s is told.
LEMMA LearnsKept ==
    ASSUME NEW s \in Sockets, NEW r \in Rooms, Learns(s, r),
           sock'[s].player = sock[s].player, sock'[s].joined = sock[s].joined,
           sess'[s] = sess[s], members[r] \subseteq members'[r],
           Coming(s, r) \subseteq Coming(s, r)',
           round'[r] = round[r] \/ Knows(s, r)',
           ended'[r] = ended[r] \/ KnowsEnd(s, r)'
    PROVE  Learns(s, r)'
  <1>1. round'[r] = round[r] /\ Knows(s, r) => Knows(s, r)'
    BY DEF Knows
  <1>2. KnowsEnd(s, r) => KnowsEnd(s, r)'
    BY DEF KnowsEnd
  <1>3. Pending(s)' <=> Pending(s)
    BY DEF Pending
  <1> QED
    BY <1>1, <1>2, <1>3 DEF Learns

\* The life of the room: whoever is seated is on the list of the loop.
LEMMA LearnsOfLife ==
    ASSUME TypeInv, NEW s \in Sockets, NEW r \in Rooms, NEW x \in Rooms, Learns(s, r),
           \/ RoundStarted(x) \/ RoomClosed(x)
           \/ \E closes \in BOOLEAN : RoundSettled(x, closes)
    PROVE  Learns(s, r)'
  <1> USE DEF vars, dbVars, hubVars, sockVars
  <1>0. /\ TypeOK /\ UNCHANGED <<sock, queue, got, sess, members>> /\ push[x] = <<>>
        /\ sock[s].player \in members[r]
        /\ \A y \in Rooms : y # x => /\ push'[y] = push[y] /\ round'[y] = round[y]
                                     /\ ended'[y] = ended[y]
    BY DEF RoundStarted, RoomClosed, RoundSettled, LoopIdle, TypeInv, TypeOK, Learns
  <1>1. Held(s)' = Held(s)
    BY <1>0 DEF Held
  <1>2. Coming(s, r) \subseteq Coming(s, r)'
    BY <1>0, <1>1 DEF Coming
  <1>3. CASE r # x
    BY <1>0, <1>2, <1>3, LearnsKept
  <1>4. ASSUME r = x, NEW k \in DOMAIN push'[x], push'[x][k].to = members[x]
        PROVE  push'[x][k].frame \in Coming(s, r)'
    BY <1>0, <1>4 DEF Coming
  <1>5. CASE r = x /\ RoundStarted(x)
    <2>1. /\ ended'[x] = ended[x] /\ round'[x] = round[x] + 1
          /\ push'[x] = <<ToMembers("started", x, round[x] + 1)>>
      BY <1>0, <1>5 DEF RoundStarted, TypeOK
    <2>2. /\ 1 \in DOMAIN push'[x] /\ push'[x][1].to = members[x]
          /\ push'[x][1].frame.n = round'[x]
      BY <2>1 DEF ToMembers, Frame
    <2>3. Knows(s, r)'
      BY <1>4, <1>5, <2>2 DEF Knows
    <2> QED
      BY <1>0, <1>2, <1>5, <2>1, <2>3, LearnsKept
  <1>6. CASE r = x /\ RoomClosed(x)
    <2>1. /\ round'[x] = round[x]
          /\ push'[x] = <<ToMembers("final", x, round[x]), ToMembers("closed", x, round[x]),
                          Detaching(x)>>
      BY <1>0, <1>6 DEF RoomClosed, TypeOK
    <2>2. /\ 2 \in DOMAIN push'[x] /\ push'[x][2].to = members[x]
          /\ push'[x][2].frame.type = "closed"
      BY <2>1 DEF ToMembers, Frame
    <2>3. KnowsEnd(s, r)'
      BY <1>4, <1>6, <2>2 DEF KnowsEnd
    <2> QED
      BY <1>0, <1>2, <1>6, <2>1, <2>3, LearnsKept
  <1>7. CASE r = x /\ RoundSettled(x, TRUE)
    <2>1. /\ round'[x] = round[x]
          /\ push'[x] = <<ToMembers("result", x, round[x]), ToMembers("final", x, round[x]),
                          ToMembers("closed", x, round[x]), Detaching(x)>>
      BY <1>0, <1>7 DEF RoundSettled, Settled, TypeOK
    <2>2. /\ 3 \in DOMAIN push'[x] /\ push'[x][3].to = members[x]
          /\ push'[x][3].frame.type = "closed"
      BY <2>1 DEF ToMembers, Frame
    <2>3. KnowsEnd(s, r)'
      BY <1>4, <1>7, <2>2 DEF KnowsEnd
    <2> QED
      BY <1>0, <1>2, <1>7, <2>1, <2>3, LearnsKept
  <1>8. CASE r = x /\ RoundSettled(x, FALSE)
    <2>1. round'[x] = round[x] /\ ended'[x] = ended[x]
      BY <1>0, <1>8 DEF RoundSettled, TypeOK
    <2> QED
      BY <1>0, <1>2, <1>8, <2>1, LearnsKept
  <1> QED
    BY <1>3, <1>5, <1>6, <1>7, <1>8

\* Unjoined is kept: only a session joins, and it runs on a socket that is up.
LEMMA UnjoinedStep ==
    ASSUME TypeInv, LearnInv, [Next]_vars, NEW s \in Sockets
    PROVE  Unjoined(s)'
  <1> USE DEF vars, dbVars, hubVars, sockVars
  <1>0. /\ TypeOK /\ sock \in [Sockets -> SockRecords] /\ sess \in [Sockets -> SessRecords]
        /\ Unjoined(s)
    BY DEF TypeInv, TypeOK, LearnInv
  <1>1. ASSUME sock'[s].pc = sock[s].pc, sock'[s].joined = sock[s].joined,
               sess'[s] = sess[s]
        PROVE  Unjoined(s)'
    BY <1>0, <1>1 DEF Unjoined
  <1>2. ASSUME NEW t \in Sockets, UNCHANGED sess,
               \/ Refuse(t) \/ Replace(t) \/ ReadPumpEnds(t)
               \/ \E p \in Players : Register(t, p)
        PROVE  Unjoined(s)'
    <2>1. t # s => sock'[s] = sock[s]
      BY <1>0, <1>2 DEF Refuse, Replace, ReadPumpEnds, Register
    <2>2. CASE t = s /\ (Refuse(t) \/ Replace(t) \/ ReadPumpEnds(t))
      <3>1. sock'[s].pc \in {"up", "gone"}
        BY <1>0, <2>2 DEF Refuse, Replace, ReadPumpEnds, NewSock, SockRecords
      <3> QED
        BY <3>1 DEF Unjoined
    <2>3. CASE t = s /\ \E p \in Players : Register(t, p)
      <3>1. sock'[s].joined = None /\ sock[s].pc = "new"
        BY <1>0, <2>3 DEF Register, NewSock
      <3> QED
        BY <1>0, <1>2, <3>1 DEF Unjoined
    <2> QED
      BY <1>1, <1>2, <2>1, <2>2, <2>3
  \* What a session does, it does on a socket that is up.
  <1>3. ASSUME NEW t \in Sockets, SessNext(t) \/ \E r \in Rooms : JoinRoom(t, r)
        PROVE  Unjoined(s)'
    <2>1. /\ sock[t].pc = "up" /\ sock'[t].pc = "up"
          /\ t # s => sock'[s] = sock[s] /\ sess'[s] = sess[s]
      <3>1. CASE SetRoom(t) \/ ReadState(t)
        BY <1>0, <3>1 DEF SetRoom, ReadState, Runs, SockRecords
      <3>2. CASE \/ AttachToRoom(t) \/ ReadFails(t) \/ PushState(t)
                 \/ \E r \in Rooms : JoinRoom(t, r)
        BY <1>0, <3>2 DEF JoinRoom, AttachToRoom, ReadFails, PushState, Runs
      <3> QED
        BY <1>3, <3>1, <3>2 DEF SessNext
    <2>2. CASE t = s
      BY <2>1, <2>2 DEF Unjoined
    <2>3. CASE t # s
      BY <1>1, <2>1, <2>3
    <2> QED
      BY <2>2, <2>3
  <1>4. ASSUME NEW t \in Sockets, NEW r \in Rooms, DetachClear(r, t) PROVE Unjoined(s)'
    <2>1. sock'[s].joined = sock[s].joined /\ sock'[s].pc = sock[s].pc /\ UNCHANGED sess
      BY <1>0, <1>4 DEF DetachClear, SockRecords
    <2> QED
      BY <1>1, <2>1
  <1>5. ASSUME UNCHANGED <<sock, sess>> PROVE Unjoined(s)'
    BY <1>1, <1>5
  <1>6. ASSUME NEW t \in Sockets,
               \/ \E p \in Players : Register(t, p)
               \/ Refuse(t) \/ Replace(t) \/ ReadPumpEnds(t) \/ Write(t)
               \/ WritePumpEnds(t) \/ SessNext(t) \/ Reply(t)
               \/ \E r \in Rooms : JoinRoom(t, r)
        PROVE  Unjoined(s)'
    <2>1. CASE Write(t) \/ WritePumpEnds(t) \/ Reply(t)
      BY <1>5, <2>1 DEF Write, WritePumpEnds, Reply
    <2>2. CASE \/ \E p \in Players : Register(t, p)
               \/ Refuse(t) \/ Replace(t) \/ ReadPumpEnds(t)
      BY <1>2, <2>2 DEF Register, Refuse, Replace, ReadPumpEnds
    <2> QED
      BY <1>3, <1>6, <2>1, <2>2
  <1>7. ASSUME NEW r \in Rooms,
               \/ RoundStarted(r) \/ RoomClosed(r) \/ LoopNext(r)
               \/ \E closes \in BOOLEAN : RoundSettled(r, closes)
               \/ \E p \in Players : CreateRoom(p, r)
        PROVE  Unjoined(s)'
    <2>1. CASE \/ RoundStarted(r) \/ RoomClosed(r) \/ DetachRoom(r) \/ PushNext(r)
               \/ \E closes \in BOOLEAN : RoundSettled(r, closes)
               \/ \E t \in Sockets : DetachCheck(r, t)
               \/ \E p \in Players : CreateRoom(p, r)
      BY <1>5, <2>1 DEF RoundStarted, RoomClosed, DetachRoom, PushNext, RoundSettled,
                        DetachCheck, CreateRoom
    <2> QED
      BY <1>4, <1>7, <2>1 DEF LoopNext
  <1>8. CASE UNCHANGED vars
    BY <1>5, <1>8
  <1> QED
    BY <1>6, <1>7, <1>8 DEF Next

\* Nobody leaves a room, and a session is seated before it does anything else.
LEMMA SeatedStep ==
    ASSUME TypeInv, LearnInv, [Next]_vars, NEW s \in Sockets
    PROVE  Seated(s)'
  <1> USE DEF vars, dbVars, hubVars, sockVars
  <1>0. /\ TypeOK /\ sock \in [Sockets -> SockRecords] /\ sess \in [Sockets -> SessRecords]
        /\ members \in [Rooms -> SUBSET Players] /\ Seated(s) /\ SessOK(s) /\ Unjoined(s)
    BY DEF TypeInv, TypeOK, LearnInv
  <1>1. \A r \in Rooms : members[r] \subseteq members'[r]
    <2>1. CASE \E x \in Rooms : \/ \E t \in Sockets : JoinRoom(t, x)
                                \/ \E p \in Players : CreateRoom(p, x)
      BY <1>0, <2>1 DEF JoinRoom, CreateRoom
    <2>2. CASE UNCHANGED members
      BY <2>2
    <2> QED
      BY <2>1, <2>2 DEF Next, SessNext, LoopNext, Register, Refuse, Replace, ReadPumpEnds,
            Write, WritePumpEnds, SetRoom, AttachToRoom, ReadState, ReadFails, PushState,
            Reply, RoundStarted, RoomClosed, RoundSettled, PushNext, DetachRoom,
            DetachCheck, DetachClear
  \* A session that works on the same room, or on none.
  <1>2. ASSUME sock'[s].player = sock[s].player \/ sess[s].pc = "idle",
               sess'[s].pc = "idle" \/ (sess[s].pc # "idle" /\ sess'[s].room = sess[s].room)
        PROVE  Seated(s)'
    BY <1>0, <1>1, <1>2 DEF Seated, SessOK
  <1>3. ASSUME NEW t \in Sockets, NEW r \in Rooms, JoinRoom(t, r) PROVE Seated(s)'
    <2>1. CASE t = s
      <3>1. sess'[s].room = r /\ sock'[s].player \in members'[r]
        BY <1>0, <1>3, <2>1 DEF JoinRoom, IdleSess
      <3> QED
        BY <3>1 DEF Seated
    <2>2. CASE t # s
      <3>1. sess'[s] = sess[s] /\ UNCHANGED sock
        BY <1>0, <1>3, <2>2 DEF JoinRoom
      <3> QED
        BY <1>2, <3>1
    <2> QED
      BY <2>1, <2>2
  <1>4. ASSUME NEW t \in Sockets, SessNext(t) PROVE Seated(s)'
    <2>1. sock'[s].player = sock[s].player
      <3>1. CASE SetRoom(t) \/ ReadState(t)
        BY <1>0, <3>1 DEF SetRoom, ReadState, SockRecords
      <3>2. CASE AttachToRoom(t) \/ ReadFails(t) \/ PushState(t)
        BY <3>2 DEF AttachToRoom, ReadFails, PushState
      <3> QED
        BY <1>4, <3>1, <3>2 DEF SessNext
    <2>2. sess'[s].pc = "idle" \/ (sess[s].pc # "idle" /\ sess'[s].room = sess[s].room)
          \/ sess'[s] = sess[s]
      <3>1. CASE SetRoom(t) \/ AttachToRoom(t) \/ ReadState(t)
        BY <1>0, <3>1 DEF SetRoom, AttachToRoom, ReadState, Runs, SessRecords
      <3>2. CASE ReadFails(t)
        BY <1>0, <3>2, IdleSessType DEF ReadFails
      <3>3. CASE PushState(t)
        <4>1. PICK p \in sess[t].todo :
                 sess' = [sess EXCEPT ![t] = IF sess[t].todo = {p} THEN IdleSess
                                             ELSE [sess[t] EXCEPT !.todo = @ \ {p}]]
          BY <3>3 DEF PushState
        <4>2. sess[t].pc = "push"
          BY <3>3 DEF PushState, Runs
        <4>3. CASE sess[t].todo = {p}
          BY <1>0, <4>1, <4>3, IdleSessType
        <4>4. CASE sess[t].todo # {p}
          BY <1>0, <4>1, <4>2, <4>4 DEF SessRecords
        <4> QED
          BY <4>3, <4>4
      <3> QED
        BY <1>4, <3>1, <3>2, <3>3 DEF SessNext
    <2> QED
      BY <1>2, <2>1, <2>2
  <1>5. ASSUME UNCHANGED sess, sock'[s].player = sock[s].player PROVE Seated(s)'
    BY <1>2, <1>5
  <1>6. ASSUME NEW t \in Sockets,
               \/ Refuse(t) \/ Replace(t) \/ ReadPumpEnds(t)
               \/ \E p \in Players : Register(t, p)
               \/ \E r \in Rooms : DetachClear(r, t)
        PROVE  Seated(s)'
    <2>1. UNCHANGED sess
      BY <1>6 DEF Refuse, Replace, ReadPumpEnds, Register, DetachClear
    <2>2. sock'[s].player = sock[s].player \/ sess[s].pc = "idle"
      <3>1. CASE Refuse(t) \/ Replace(t) \/ \E r \in Rooms : DetachClear(r, t)
        BY <1>0, <3>1 DEF Refuse, Replace, DetachClear, SockRecords
      <3>2. CASE ReadPumpEnds(t)
        BY <1>0, <3>2 DEF ReadPumpEnds
      <3>3. CASE \E p \in Players : Register(t, p)
        BY <1>0, <3>3 DEF Register, Unjoined
      <3> QED
        BY <1>6, <3>1, <3>2, <3>3
    <2> QED
      BY <1>2, <2>1, <2>2
  <1>7. CASE UNCHANGED <<sock, sess>>
    BY <1>5, <1>7
  <1> QED
    BY <1>3, <1>4, <1>6, <1>7
    DEF Next, LoopNext, Write, WritePumpEnds, Reply, RoundStarted, RoomClosed,
        RoundSettled, PushNext, DetachRoom, DetachCheck, CreateRoom

\* A socket that is reached after a step was reached before it, or has joined
\* nothing; what it knew then it knows now, and what is new it is told.
LEMMA LearnsStep ==
    ASSUME TypeInv, RegistryInv, LearnInv, [Next]_vars,
           NEW s \in Sockets, Reached(s)', NEW r \in Rooms, sock'[s].joined = r
    PROVE  Learns(s, r)'
  <1> USE DEF vars, dbVars, hubVars, sockVars
  <1>0. /\ TypeOK /\ sock \in [Sockets -> SockRecords] /\ sess \in [Sockets -> SessRecords]
        /\ closed \in [Sockets -> BOOLEAN] /\ clients \in [Players -> Sockets \cup {None}]
        /\ queue \in [Sockets -> Seq(Frames)] /\ got \in [Sockets -> Seq(Frames)]
        /\ SockOK(s) /\ Unjoined(s) /\ Seated(s)
    BY DEF TypeInv, TypeOK, LearnInv
  <1>1. Reached(s) /\ sock[s].joined = r => Learns(s, r)
    BY HubAssumption DEF LearnInv
  <1>2. /\ s \in Watched /\ sock'[s].pc = "up" /\ ~closed'[s]
        /\ clients'[sock'[s].player] = s
    BY DEF Reached
  \* The session of s does nothing, and what it has learnt stays.
  <1>3. ASSUME Reached(s), sock'[s].player = sock[s].player,
               sock'[s].joined = sock[s].joined, sess'[s] = sess[s],
               UNCHANGED <<round, ended>>, members[r] \subseteq members'[r],
               Coming(s, r) \subseteq Coming(s, r)'
        PROVE  Learns(s, r)'
    BY <1>1, <1>3, LearnsKept
  <1>4. ASSUME UNCHANGED <<push, round, ended>>, sock'[s] = sock[s], sess'[s] = sess[s],
               ~closed[s], clients[sock[s].player] = s,
               \A f \in Held(s) : f.room # None => f \in Held(s)',
               members[r] \subseteq members'[r]
        PROVE  Learns(s, r)'
    <2>1. Reached(s)
      BY <1>2, <1>4 DEF Reached
    <2>2. Coming(s, r) \subseteq Coming(s, r)'
      BY <1>4, ComingKept
    <2> QED
      BY <1>3, <1>4, <2>1, <2>2
  <1>5. got'[s] = got[s] /\ queue'[s] = queue[s] => Held(s)' = Held(s)
    BY DEF Held
  <1>6. ASSUME UNCHANGED <<push, round, ended, members>>, sock'[s] = sock[s],
               sess'[s] = sess[s], ~closed[s], clients[sock[s].player] = s,
               got'[s] = got[s] /\ queue'[s] = queue[s]
        PROVE  Learns(s, r)'
    BY <1>4, <1>5, <1>6
  \* Connections: those of others touch nothing of s, those of s come before it joins.
  <1>7. ASSUME NEW t \in Sockets, Refuse(t) PROVE Learns(s, r)'
    <2>1. t # s /\ sock'[s] = sock[s]
      BY <1>0, <1>2, <1>7 DEF Refuse, SockRecords
    <2> QED
      BY <1>2, <1>6, <1>7, <2>1 DEF Refuse
  <1>8. ASSUME NEW t \in Sockets, NEW p \in Players, Register(t, p) PROVE Learns(s, r)'
    <2>1. t # s
      BY <1>0, <1>2, <1>8 DEF Register, NewSock
    <2>2. sock'[s] = sock[s] /\ sock[s].player \in Players
      BY <1>0, <1>2, <1>8, <2>1 DEF Register, SockOK
    <2>3. clients[sock[s].player] = s
      BY <1>0, <1>2, <1>8, <2>1, <2>2 DEF Register
    <2> QED
      BY <1>2, <1>6, <1>8, <2>2, <2>3 DEF Register
  <1>9. ASSUME NEW t \in Sockets, Replace(t) PROVE Learns(s, r)'
    <2>1. t # s
      <3>1. t = s => sock'[s].joined = None
        BY <1>0, <1>9 DEF Replace, Unjoined, SockRecords
      <3> QED
        BY <3>1, HubAssumption
    <2>2. sock'[s] = sock[s]
      BY <1>0, <1>9, <2>1 DEF Replace
    <2>3. ~closed[s] /\ s # sock[t].prev
      BY <1>0, <1>2, <1>9, HubAssumption DEF Replace
    <2>4. queue'[s] = queue[s]
      BY <1>0, <1>9, <2>3 DEF Replace
    <2> QED
      BY <1>2, <1>6, <1>9, <2>2, <2>3, <2>4 DEF Replace
  <1>10. ASSUME NEW t \in Sockets, ReadPumpEnds(t) PROVE Learns(s, r)'
    <2>1. t # s /\ sock'[s] = sock[s]
      BY <1>0, <1>2, <1>10 DEF ReadPumpEnds, NewSock
    <2>2. ~closed[s]
      BY <1>0, <1>2, <1>10 DEF ReadPumpEnds
    <2>3. sock[s].player \in Players
      BY <1>0, <1>2, <2>1 DEF SockOK
    <2>4. clients[sock[s].player] = s
      BY <1>0, <1>2, <1>10, <2>1, <2>3, HubAssumption DEF ReadPumpEnds, Unregister
    <2> QED
      BY <1>2, <1>6, <1>10, <2>1, <2>2, <2>4 DEF ReadPumpEnds
  \* The pumps: a frame is delivered, or the socket is closed.
  <1>11. ASSUME NEW t \in Sockets, Write(t) PROVE Learns(s, r)'
    <2>1. t # s => got'[s] = got[s] /\ queue'[s] = queue[s]
      BY <1>0, <1>11 DEF Write
    <2>2. \A f \in Held(s) : f.room # None => f \in Held(s)'
      BY <1>0, <1>2, <1>5, <1>11, <2>1, HeldWrite
    <2> QED
      BY <1>2, <1>4, <1>11, <2>2 DEF Write
  <1>12. ASSUME NEW t \in Sockets, WritePumpEnds(t) PROVE Learns(s, r)'
    <2>1. t # s /\ ~closed[s]
      BY <1>0, <1>2, <1>12 DEF WritePumpEnds
    <2>2. got'[s] = got[s] /\ queue'[s] = queue[s]
      BY <1>0, <1>12, <2>1 DEF WritePumpEnds
    <2> QED
      BY <1>2, <1>6, <1>12, <2>1, <2>2 DEF WritePumpEnds
  <1>13. ASSUME NEW t \in Sockets, Reply(t) PROVE Learns(s, r)'
    <2>1. Enqueue(t, ErrorFrame) /\ ErrorFrame \in Frames /\ UNCHANGED got
      BY <1>13, ErrorFrameType DEF Reply
    <2>2. /\ closed[s] => closed'[s]
          /\ queue'[s] = queue[s] \/ queue'[s] = Append(queue[s], Kept(s, ErrorFrame))
      BY <1>0, <2>1, EnqueueKeeps
    <2>3. Held(s) \subseteq Held(s)'
      BY <1>0, <2>1, <2>2, KeptType, HeldGrows
    <2> QED
      BY <1>2, <1>4, <1>13, <2>2, <2>3 DEF Reply
  \* The session of s goes on, but has no snapshot to send before or after.
  <1>25. ASSUME UNCHANGED <<push, round, ended, clients>>, ~closed[s],
                sock'[s].player = sock[s].player, sock'[s].joined = sock[s].joined,
                sock'[s].pc = sock[s].pc,
                sess[s].pc # "push", sess'[s].pc # "push",
                Held(s) \subseteq Held(s)', members[r] \subseteq members'[r]
         PROVE  Learns(s, r)'
    <2>1. Reached(s) /\ sock[s].joined = r
      BY <1>2, <1>25 DEF Reached
    <2>2. Coming(s, r) \subseteq Coming(s, r)'
      BY <1>25, ComingKept
    <2>3. /\ sock[s].player \in members[r] /\ Knows(s, r)
          /\ ended[r] => KnowsEnd(s, r)
      BY <1>1, <1>25, <2>1 DEF Learns, Pending
    <2>4. Knows(s, r)' /\ (ended'[r] => KnowsEnd(s, r)')
      BY <1>25, <2>2, <2>3 DEF Knows, KnowsEnd
    <2> QED
      BY <1>25, <2>3, <2>4 DEF Learns
  \* session.join: the seat comes first, so that no later frame of the loop misses s.
  <1>14. ASSUME NEW t \in Sockets, NEW x \in Rooms, JoinRoom(t, x) PROVE Learns(s, r)'
    <2>1. members[r] \subseteq members'[r]
      BY <1>0, <1>14 DEF JoinRoom, TypeOK
    <2>2. CASE t # s
      BY <1>0, <1>2, <1>4, <1>5, <1>14, <2>1, <2>2 DEF JoinRoom
    <2>3. CASE t = s
      <3>1. sess[s].pc # "push" /\ sess'[s].pc # "push"
        BY <1>0, <1>14, <2>3 DEF JoinRoom, Runs, IdleSess
      <3>2. UNCHANGED <<push, round, ended, clients, sock, closed, queue, got>>
        BY <1>14 DEF JoinRoom
      <3> QED
        BY <1>2, <1>5, <1>25, <2>1, <3>1, <3>2
    <2> QED
      BY <2>2, <2>3
  \* The steps of the session itself, up to the snapshot.
  <1>15. ASSUME NEW t \in Sockets, SetRoom(t) \/ AttachToRoom(t) PROVE Learns(s, r)'
    <2>0. UNCHANGED <<push, round, ended, members, closed, clients, got, queue>>
      BY <1>15 DEF SetRoom, AttachToRoom
    <2>1. CASE t # s
      <3>1. sock'[s] = sock[s] /\ sess'[s] = sess[s]
        BY <1>0, <1>15, <2>1 DEF SetRoom, AttachToRoom
      <3> QED
        BY <1>2, <1>6, <2>0, <3>1
    <2>2. CASE t = s
      <3>1. /\ sock'[s].player = sock[s].player /\ sock'[s].joined = sock[s].joined
            /\ sock[s].pc = "up" /\ sess[s].pc # "push" /\ sess'[s].pc # "push"
        BY <1>0, <1>15, <2>2 DEF SetRoom, AttachToRoom, Runs, SockRecords, SessRecords
      <3> QED
        BY <1>2, <1>5, <1>25, <2>0, <3>1
    <2> QED
      BY <2>1, <2>2
  \* The snapshot has everything there is to know, and will be sent to s.
  <1>26. ASSUME NEW t \in Sockets, ReadState(t) PROVE Learns(s, r)'
    <2>0. UNCHANGED <<push, round, ended, members, closed, clients, got, queue>>
      BY <1>26 DEF ReadState
    <2>1. CASE t # s
      <3>1. sock'[s] = sock[s] /\ sess'[s] = sess[s]
        BY <1>0, <1>26, <2>1 DEF ReadState
      <3> QED
        BY <1>2, <1>6, <2>0, <3>1
    <2>2. CASE t = s
      <3>1. /\ sock'[s].player = sock[s].player /\ sock'[s].joined = sess[s].room
            /\ sess[s].pc # "idle"
            /\ sess'[s] = [pc |-> "push", room |-> sess[s].room,
                           todo |-> members[sess[s].room], n |-> round[sess[s].room],
                           over |-> ended[sess[s].room]]
        BY <1>0, <1>26, <2>2 DEF ReadState, Runs, SockRecords
      <3>2. sock[s].player \in members[r] /\ sess[s].room = r
        BY <1>0, <3>1 DEF Seated
      <3>3. Pending(s)' /\ sess'[s].n = round[r] /\ sess'[s].over = ended[r]
        BY <2>0, <3>1, <3>2 DEF Pending
      <3> QED
        BY <2>0, <3>1, <3>2, <3>3 DEF Learns
    <2> QED
      BY <2>1, <2>2
  \* A snapshot that cannot be read leaves what s knew of the last one.
  <1>27. ASSUME NEW t \in Sockets, ReadFails(t) PROVE Learns(s, r)'
    <2>1. Enqueue(t, ErrorFrame) /\ ErrorFrame \in Frames /\ UNCHANGED got
      BY <1>27, ErrorFrameType DEF ReadFails
    <2>2. /\ closed[s] => closed'[s]
          /\ queue'[s] = queue[s] \/ queue'[s] = Append(queue[s], Kept(s, ErrorFrame))
      BY <1>0, <2>1, EnqueueKeeps
    <2>3. Held(s) \subseteq Held(s)'
      BY <1>0, <2>1, <2>2, KeptType, HeldGrows
    <2>4. CASE t # s
      <3>1. sess'[s] = sess[s]
        BY <1>0, <1>27, <2>4 DEF ReadFails
      <3> QED
        BY <1>2, <1>4, <1>27, <2>2, <2>3, <3>1 DEF ReadFails
    <2>5. CASE t = s
      <3>1. sess[s].pc # "push" /\ sess'[s].pc # "push"
        BY <1>0, <1>27, <2>5, IdleSessType DEF ReadFails, Runs
      <3> QED
        BY <1>2, <1>25, <1>27, <2>2, <2>3, <3>1 DEF ReadFails
    <2> QED
      BY <2>4, <2>5
  <1>16. ASSUME NEW t \in Sockets, PushState(t) PROVE Learns(s, r)'
    <2>0. /\ UNCHANGED <<push, round, ended, members, sock, clients, got>>
          /\ sock[s].player \in Players
      BY <1>0, <1>2, <1>16 DEF PushState, SockOK
    <2> DEFINE f == StateFrame(sess[t])
    <2>1. /\ f \in Frames /\ sess[t].todo \subseteq Players
          /\ f.room = sess[t].room /\ f.n = sess[t].n
          /\ sess[t].over => f.type = "over"
      <3>1. sess[t] \in SessRecords /\ sess[t].room \in Rooms
        BY <1>16 DEF PushState, Runs, TypeInv, TypeOK, SessOK
      <3> QED
        BY <3>1 DEF StateFrame, Frame, Frames, FrameTypes, SessRecords
    <2>2. PICK p \in sess[t].todo :
             /\ SendToPlayer(p, f)
             /\ sess' = [sess EXCEPT ![t] = IF sess[t].todo = {p} THEN IdleSess
                                            ELSE [sess[t] EXCEPT !.todo = @ \ {p}]]
      BY <1>16 DEF PushState
    <2> HIDE DEF f
    <2>3. /\ closed[s] => closed'[s]
          /\ queue'[s] = queue[s] \/ queue'[s] = Append(queue[s], f)
          /\ p = sock[s].player => queue'[s] = Append(queue[s], f)
      <3>1. Kept(s, f) = f
        BY <1>2 DEF Kept
      <3>2. p = sock[s].player => clients[p] = s
        BY <1>2, <2>0
      <3>3. /\ \A u \in Sockets : closed[u] => closed'[u]
            /\ \A u \in Sockets :
                  queue'[u] = queue[u] \/ queue'[u] = Append(queue[u], Kept(u, f))
            /\ clients[p] # None =>
                  closed'[clients[p]]
                     \/ queue'[clients[p]] = Append(queue[clients[p]], Kept(clients[p], f))
        BY <1>0, <2>1, <2>2, SendKeeps
      <3> QED
        BY <1>2, <3>1, <3>2, <3>3, HubAssumption
    <2>4. Held(s) \subseteq Held(s)' /\ (p = sock[s].player => f \in Held(s)')
      BY <1>0, <2>0, <2>1, <2>3, HeldGrows
    <2>5. CASE t # s
      BY <1>0, <1>2, <1>4, <2>0, <2>2, <2>3, <2>4, <2>5
    <2>6. CASE t = s
      <3>1. Reached(s) /\ sess[s].pc = "push"
        BY <1>2, <1>16, <2>0, <2>3, <2>6 DEF Reached, PushState, Runs
      <3>2. /\ sess[s].todo = {p} => sess'[s] = IdleSess
            /\ sess[s].todo # {p} => /\ sess'[s].pc = "push"
                                     /\ sess'[s].room = sess[s].room
                                     /\ sess'[s].n = sess[s].n
                                     /\ sess'[s].over = sess[s].over
                                     /\ sess'[s].todo = sess[s].todo \ {p}
        BY <1>0, <2>2, <2>6, <3>1 DEF SessRecords
      <3>3. sock[s].joined = r /\ Learns(s, r) /\ sess[s].room = r
        BY <1>1, <2>0, <3>1 DEF Learns
      <3>4. Coming(s, r) \subseteq Coming(s, r)'
        BY <2>0, <2>4, ComingKept
      <3>5. (Knows(s, r) => Knows(s, r)') /\ (KnowsEnd(s, r) => KnowsEnd(s, r)')
        BY <2>0, <3>4 DEF Knows, KnowsEnd
      \* Either the snapshot goes to s now, or it is still to come, or s knows more.
      <3>6. p = sock[s].player => f \in Coming(s, r)'
        BY <2>1, <2>4, <2>6, <3>3 DEF Coming
      <3>7. Pending(s) /\ p # sock[s].player =>
               /\ sess[s].todo # {p} /\ Pending(s)'
               /\ sess'[s].n = sess[s].n /\ sess'[s].over = sess[s].over
        BY <2>0, <3>2 DEF Pending
      <3>8. Knows(s, r)' \/ (Pending(s)' /\ sess'[s].n = round'[r])
        BY <2>0, <2>1, <2>6, <3>3, <3>5, <3>6, <3>7 DEF Learns, Knows, Pending
      <3>9. ended'[r] => KnowsEnd(s, r)' \/ (Pending(s)' /\ sess'[s].over)
        BY <2>0, <2>1, <2>6, <3>3, <3>5, <3>6, <3>7 DEF Learns, KnowsEnd, Pending
      <3>10. sess'[s].pc = "push" => sess'[s].room = r
        BY <3>2, <3>3, IdleSessType
      <3> QED
        BY <2>0, <3>3, <3>8, <3>9, <3>10 DEF Learns
    <2> QED
      BY <2>5, <2>6
  \* The loops.
  <1>17. ASSUME NEW x \in Rooms,
                \/ RoundStarted(x) \/ RoomClosed(x)
                \/ \E closes \in BOOLEAN : RoundSettled(x, closes)
         PROVE  Learns(s, r)'
    <2>1. UNCHANGED <<sock, closed, clients, sess>>
      BY <1>17 DEF RoundStarted, RoomClosed, RoundSettled
    <2>2. Reached(s) /\ sock[s].joined = r
      BY <1>2, <2>1 DEF Reached
    <2> QED
      BY <1>1, <1>17, <2>2, LearnsOfLife
  <1>18. ASSUME NEW x \in Rooms, PushNext(x) PROVE Learns(s, r)'
    <2>1. UNCHANGED <<sock, clients, sess, round, ended, members>>
      BY <1>18 DEF PushNext
    <2>2. closed[s] => closed'[s]
      <3>1. PICK p \in Players : push[x][1].frame \in Frames /\ SendToPlayer(p, push[x][1].frame)
        BY <1>18, PushNextParts
      <3> QED
        BY <1>0, <3>1, SendKeeps
    <2>3. Reached(s)
      BY <1>2, <2>1, <2>2 DEF Reached
    <2>4. Coming(s, r) \subseteq Coming(s, r)'
      BY <1>2, <1>18, <2>3, ComingOfPush
    <2> QED
      BY <1>3, <2>1, <2>3, <2>4
  <1>19. ASSUME NEW x \in Rooms, DetachRoom(x) PROVE Learns(s, r)'
    <2>1. UNCHANGED <<sock, closed, clients, sess, round, ended, members, queue, got>>
      BY <1>19 DEF DetachRoom
    <2>2. Reached(s)
      BY <1>2, <2>1 DEF Reached
    <2>3. Coming(s, r) \subseteq Coming(s, r)'
      <3>1. /\ push[x] \in Seq(Pushes) /\ push[x] # <<>>
            /\ push' = [push EXCEPT ![x] = Tail(push[x])] /\ push \in [Rooms -> Seq(Pushes)]
            /\ Head(push[x]).frame.type = "detach"
        BY <1>19 DEF DetachRoom, TypeInv, TypeOK
      <3>2. /\ Head(push[x]) = push[x][1] /\ 1 \in DOMAIN push[x]
            /\ \A l \in DOMAIN push[x] : l # 1 => /\ l - 1 \in DOMAIN Tail(push[x])
                                                  /\ Tail(push[x])[l - 1] = push[x][l]
        BY <3>1
      <3>3. push[x][1].to = {}
        BY <3>1, <3>2 DEF TypeInv, PushOK
      <3>4. CASE r # x
        BY <1>5, <2>1, <3>1, <3>4, ComingKept
      <3>5. CASE r = x
        <4>1. \A l \in DOMAIN push[r] : sock[s].player \in push[r][l].to =>
                 l - 1 \in DOMAIN push'[r] /\ push'[r][l - 1] = push[r][l]
          BY <3>1, <3>2, <3>3, <3>5
        <4> QED
          BY <1>5, <2>1, <4>1 DEF Coming
      <3> QED
        BY <3>4, <3>5
    <2> QED
      BY <1>3, <2>1, <2>2, <2>3
  <1>20. ASSUME NEW x \in Rooms, NEW t \in Sockets, DetachClear(x, t) PROVE Learns(s, r)'
    <2>1. /\ UNCHANGED <<push, closed, clients, sess, round, ended, members, queue, got>>
          /\ sock'[s].player = sock[s].player /\ sock'[s].joined = sock[s].joined
          /\ sock'[s].pc = sock[s].pc
      BY <1>0, <1>20 DEF DetachClear, SockRecords
    <2>2. Reached(s)
      BY <1>2, <2>1 DEF Reached
    <2>3. Coming(s, r) \subseteq Coming(s, r)'
      BY <1>5, <2>1, ComingKept
    <2> QED
      BY <1>3, <2>1, <2>2, <2>3
  <1>21. CASE UNCHANGED vars \/ \E x \in Rooms : \E t \in Sockets : DetachCheck(x, t)
    BY <1>2, <1>6, <1>21 DEF DetachCheck
  <1>22. ASSUME NEW t \in Sockets,
                \/ \E p \in Players : Register(t, p)
                \/ Refuse(t) \/ Replace(t) \/ ReadPumpEnds(t) \/ Write(t)
                \/ WritePumpEnds(t) \/ SessNext(t) \/ Reply(t)
                \/ \E x \in Rooms : JoinRoom(t, x)
         PROVE  Learns(s, r)'
    BY <1>7, <1>8, <1>9, <1>10, <1>11, <1>12, <1>13, <1>14, <1>15, <1>16,
       <1>22, <1>26, <1>27 DEF SessNext
  <1>23. ASSUME NEW x \in Rooms,
                \/ RoundStarted(x) \/ RoomClosed(x) \/ LoopNext(x)
                \/ \E closes \in BOOLEAN : RoundSettled(x, closes)
                \/ \E p \in Players : CreateRoom(p, x)
         PROVE  Learns(s, r)'
    <2>1. CASE \E p \in Players : CreateRoom(p, x)
      <3>1. members[r] \subseteq members'[r]
        BY <2>1 DEF CreateRoom, TypeInv, TypeOK
      <3> QED
        BY <1>2, <1>4, <1>5, <2>1, <3>1 DEF CreateRoom
    <2> QED
      BY <1>17, <1>18, <1>19, <1>20, <1>21, <1>23, <2>1 DEF LoopNext
  <1> QED
    BY <1>21, <1>22, <1>23 DEF Next

LEMMA LearnInvariant == Spec => []LearnInv
  <1>1. Init => LearnInv
    BY NewSockType, IdleSessType DEF Init, LearnInv, Unjoined, Seated, Reached, NewSock
  <1>2. ASSUME TypeInv, TypeInv', RegistryInv, LearnInv, [Next]_vars PROVE LearnInv'
    <2> SUFFICES ASSUME NEW s \in Sockets, Reached(s)', sock'[s].joined # None
                 PROVE  Learns(s, sock[s].joined)'
      BY <1>2, UnjoinedStep, SeatedStep DEF LearnInv
    <2>1. PICK r \in Rooms : sock'[s].joined = r
      BY <1>2 DEF TypeInv, TypeOK, SockRecords
    <2>2. Learns(s, r)'
      BY <1>2, <2>1, LearnsStep
    <2> QED
      BY <2>1, <2>2 DEF Learns, Knows, KnowsEnd, Coming
  <1>3. TypeInv /\ TypeInv' /\ RegistryInv /\ LearnInv /\ [Next]_vars => LearnInv'
    BY <1>2
  <1> QED
    BY <1>1, <1>3, TypeInvariant, RegistryInvariant, PTL DEF Spec

\* handler.go, room.join: a player whose join has read its snapshot knows the table
\* or is about to, also after later joins whose read failed, and also if the room
\* had ended before.  The seat is taken before the snapshot is read, so what the
\* snapshot misses the loop tells; and no frame is lost on a socket that stays open.
THEOREM JoinerIsTold == Spec => []JoinerLearnsTable
  <1>1. TypeInv /\ LearnInv => JoinerLearnsTable
    <2> SUFFICES ASSUME TypeInv, LearnInv, NEW s \in Watched,
                        Runs(s, "idle"), ~closed[s], clients[sock[s].player] = s,
                        sock[s].joined # None
                 PROVE  LET r == sock[s].joined
                            Current(f) == f.n = round[r]
                            End(f)     == f.type \in {"closed", "over"}
                        IN  Told(s, r, Current) /\ (ended[r] => Told(s, r, End))
      BY DEF JoinerLearnsTable
    <2> DEFINE r == sock[s].joined
    <2>1. s \in Sockets /\ Reached(s) /\ sess[s].pc = "idle"
      BY HubAssumption DEF Reached, Runs
    <2>2. Knows(s, r) /\ (ended[r] => KnowsEnd(s, r))
      BY <2>1 DEF LearnInv, Learns, Pending
    <2> QED
      BY <2>1, <2>2 DEF Told, Knows, KnowsEnd, Coming, Held
  <1> QED
    BY <1>1, TypeInvariant, LearnInvariant, PTL
=============================================================================
