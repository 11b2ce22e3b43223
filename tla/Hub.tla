--------------------------------- MODULE Hub ---------------------------------
(***************************************************************************)
(* The WebSocket side (internal/interfaces/ws): the registry of sockets,   *)
(* the sessions that join rooms, and the pushes of the room loops.         *)
(*                                                                         *)
(* A socket has a read pump (its session, one message at a time) and a     *)
(* write pump that drains a bounded queue.  Each room has one loop, whose  *)
(* notifications go out player by player.  What the use cases do to the    *)
(* database is reduced to what a notification or a snapshot shows of it:   *)
(* the members, the latest round and whether it takes bets, and whether    *)
(* the room has ended.  Frames are [type, room, n]: the event, its room    *)
(* and the round it speaks of; balance.updated is "balance" at the end of  *)
(* a round and "final" at the end of the room.                             *)
(***************************************************************************)
EXTENDS Integers, Sequences, FiniteSets

CONSTANTS
    Players,
    Sockets,        \* connections made, over all time
    Rooms,
    SendBuffer,     \* frames a socket's queue holds (32 in the code)
    MaxRounds,      \* rounds per room
    MaxMessages,    \* bound on the messages the sessions handle
    Watched,        \* sockets for which got is recorded
    None

ASSUME HubAssumption ==
    /\ SendBuffer \in Nat \ {0}
    /\ MaxRounds \in Nat
    /\ MaxMessages \in Nat
    /\ Watched \subseteq Sockets
    /\ None \notin Sockets /\ None \notin Rooms /\ None \notin Players

VARIABLES
    \* the database, as the pushes show it
    ended,      \* room -> closed
    members,    \* room -> players seated
    round,      \* room -> number of its latest round
    betting,    \* room -> its latest round takes bets
    \* Hub
    clients,    \* player -> its current socket
    rooms,      \* room -> players attached
    \* Client
    sock,       \* pc, player, the socket it replaced, the room pointer, and the
                \* room its session last read a snapshot of (for the properties)
    closed,     \* the closed channel is closed
    queue,      \* the send channel
    writer,     \* the write pump runs (and the connection is open)
    got,        \* the frames about rooms written to the peer, for the properties
    \* session and room loops
    sess,       \* what the session's room.join has left to do
    push,       \* room -> what its loop's notification has left to do
    detach,     \* room -> sockets DetachRoom has still to look at or clear
    handled     \* messages the sessions have taken

dbVars   == <<ended, members, round, betting>>
hubVars  == <<clients, rooms>>
sockVars == <<sock, closed, queue, writer, got>>
vars     == <<dbVars, hubVars, sockVars, sess, push, detach, handled>>

IdleSess == [pc |-> "idle", room |-> None, todo |-> {}, n |-> 0, over |-> FALSE]
NewSock  == [pc |-> "new", player |-> None, prev |-> None, room |-> None,
             joined |-> None]

Frame(type, r, n) == [type |-> type, room |-> r, n |-> n]

LoopTypes  == {"started", "result", "balance", "final", "closed"}
FrameTypes == LoopTypes \cup {"state", "over", "error"}
Frames     == [type : FrameTypes, room : Rooms \cup {None}, n : 0..MaxRounds]

\* sendError: whatever mapError makes of the error, one frame about no room.
ErrorFrame == Frame("error", None, 0)

\* roomStatePayload of what a session has read: "over" is the room.state of a
\* room whose status is closed.
StateFrame(read) == Frame(IF read.over THEN "over" ELSE "state", read.room, read.n)
-----------------------------------------------------------------------------
Init ==
    /\ ended = [r \in Rooms |-> FALSE]
    /\ members = [r \in Rooms |-> {}]
    /\ round = [r \in Rooms |-> 0]
    /\ betting = [r \in Rooms |-> FALSE]
    /\ clients = [p \in Players |-> None]
    /\ rooms = [r \in Rooms |-> {}]
    /\ sock = [s \in Sockets |-> NewSock]
    /\ closed = [s \in Sockets |-> FALSE]
    /\ queue = [s \in Sockets |-> <<>>]
    /\ writer = [s \in Sockets |-> FALSE]
    /\ got = [s \in Sockets |-> <<>>]
    /\ sess = [s \in Sockets |-> IdleSess]
    /\ push = [r \in Rooms |-> <<>>]
    /\ detach = [r \in Rooms |-> {}]
    /\ handled = 0

\* A queue without a bound.
EnqueueUnbounded(s, f) ==
    /\ queue' = [queue EXCEPT ![s] = Append(@, f)]
    /\ UNCHANGED closed

\* A sender that waits for the queue.
EnqueueBlocks(s, f) ==
    \/ closed[s] /\ UNCHANGED <<queue, closed>>
    \/ /\ Len(queue[s]) < SendBuffer
       /\ queue' = [queue EXCEPT ![s] = Append(@, f)]
       /\ UNCHANGED closed

\* Nobody will ever read the queue of s: what it holds is left out.
Abandoned(s) == closed[s] /\ ~writer[s] /\ sock[s].pc # "registering"

\* Of a socket that is not watched only the number of its frames matters.
Kept(s, f) == IF s \in Watched THEN f ELSE ErrorFrame

\* A full queue loses the frame and the socket stays open.
EnqueueDrops(s, f) ==
    /\ UNCHANGED closed
    /\ \/ /\ closed[s] \/ Len(queue[s]) = SendBuffer
          /\ UNCHANGED queue
       \/ /\ Len(queue[s]) < SendBuffer /\ ~Abandoned(s)
          /\ queue' = [queue EXCEPT ![s] = Append(@, Kept(s, f))]

\* Client.enqueue.  A select with two ready cases takes either, so a socket
\* that is closed already may still be given the frame; one that is open and
\* full loses it and is closed.
Enqueue(s, f) ==
    \/ closed[s] /\ UNCHANGED <<queue, closed>>
    \/ /\ Len(queue[s]) < SendBuffer /\ ~Abandoned(s)
       /\ queue' = [queue EXCEPT ![s] = Append(@, Kept(s, f))]
       /\ UNCHANGED closed
    \/ /\ ~closed[s] /\ Len(queue[s]) = SendBuffer
       /\ closed' = [closed EXCEPT ![s] = TRUE]
       /\ UNCHANGED queue

\* Hub.SendToPlayer: the socket the player has now, if any.
SendToPlayer(p, f) ==
    IF clients[p] = None THEN UNCHANGED <<queue, closed>>
                         ELSE Enqueue(clients[p], f)
-----------------------------------------------------------------------------
(***************************************************************************)
(* Connections.                                                            *)
(***************************************************************************)
\* The handshake fails: a bad token (401), a failed upgrade, or no valid auth
\* message before the deadline.  The hub never hears of the connection.
Refuse(s) ==
    /\ sock[s].pc = "new"
    /\ sock' = [sock EXCEPT ![s].pc = "gone"]
    /\ UNCHANGED <<dbVars, hubVars, closed, queue, writer, got, sess, push, detach,
                   handled>>

\* An authenticated connection: Hub.register, under the lock.
Register(s, p) ==
    /\ sock[s].pc = "new"
    /\ sock' = [sock EXCEPT ![s] = [NewSock EXCEPT !.pc = "registering",
                                        !.player = p, !.prev = clients[p]]]
    /\ clients' = [clients EXCEPT ![p] = s]
    /\ UNCHANGED <<dbVars, rooms, closed, queue, writer, got, sess, push, detach,
                   handled>>

\* The rest of it: the error that explains, and close() of the previous socket
\* (a full queue closes it without); then the pumps start.
Replace(s) ==
    /\ sock[s].pc = "registering"
    /\ sock' = [sock EXCEPT ![s].pc = "up", ![s].prev = None]
    /\ writer' = [writer EXCEPT ![s] = TRUE]
    /\ LET old == sock[s].prev IN
       IF old = None THEN UNCHANGED <<queue, closed>>
       ELSE /\ closed' = [closed EXCEPT ![old] = TRUE]
            /\ \/ /\ Len(queue[old]) < SendBuffer /\ ~Abandoned(old)
                  /\ queue' = [queue EXCEPT ![old] =
                                  Append(@, ErrorFrame)]
               \/ /\ closed[old] \/ Len(queue[old]) = SendBuffer
                  /\ UNCHANGED queue
    /\ UNCHANGED <<dbVars, hubVars, got, sess, push, detach, handled>>

\* An unregister that does not ask whose socket is current.
UnregisterAny(s) ==
    /\ clients' = [clients EXCEPT ![sock[s].player] = None]
    /\ rooms' = [r \in Rooms |-> rooms[r] \ {sock[s].player}]

\* Hub.unregister: only the player's current socket takes anything away.
Unregister(s) ==
    IF clients[sock[s].player] = s
    THEN /\ clients' = [clients EXCEPT ![sock[s].player] = None]
         /\ rooms' = [r \in Rooms |-> rooms[r] \ {sock[s].player}]
    ELSE UNCHANGED hubVars

\* The read pump ends: the peer went away, was silent for PongWait, or the
\* write pump closed the connection.
ReadPumpEnds(s) ==
    /\ sock[s].pc = "up" /\ sess[s].pc = "idle"
    /\ Unregister(s)
    /\ closed' = [closed EXCEPT ![s] = TRUE]
    /\ sock' = [sock EXCEPT ![s] = [NewSock EXCEPT !.pc = "gone"]]
    /\ UNCHANGED <<dbVars, queue, writer, got, sess, push, detach, handled>>

\* The write pump sends the next frame, before or after close() (drain).
Write(s) ==
    /\ writer[s] /\ queue[s] # <<>>
    /\ got' = IF s \in Watched /\ Head(queue[s]).room # None
              THEN [got EXCEPT ![s] = Append(@, Head(queue[s]))] ELSE got
    /\ queue' = [queue EXCEPT ![s] = Tail(@)]
    /\ UNCHANGED <<dbVars, hubVars, sock, closed, writer, sess, push, detach,
                   handled>>

\* A write pump that only stops when a write fails.
WritePumpOnlyFails(s) ==
    /\ writer[s] /\ ~closed[s]
    /\ writer' = [writer EXCEPT ![s] = FALSE]
    /\ closed' = [closed EXCEPT ![s] = TRUE]
    /\ queue' = [queue EXCEPT ![s] = <<>>]
    /\ UNCHANGED <<dbVars, hubVars, sock, got, sess, push, detach, handled>>

\* It stops when the socket is closed and drained, or at any time when a write
\* (of a frame or a ping) fails; its deferred function closes the connection.
\* Nothing is delivered any more: the history of s ends.
WritePumpEnds(s) ==
    /\ writer[s]
    /\ writer' = [writer EXCEPT ![s] = FALSE]
    /\ closed' = [closed EXCEPT ![s] = TRUE]
    /\ queue' = [queue EXCEPT ![s] = <<>>]
    /\ got' = [got EXCEPT ![s] = <<>>]
    /\ UNCHANGED <<dbVars, hubVars, sock, sess, push, detach, handled>>
-----------------------------------------------------------------------------
(***************************************************************************)
(* Sessions (session.handle).                                              *)
(***************************************************************************)
Runs(s, pc) == sock[s].pc = "up" /\ sess[s].pc = pc

\* JoinRoomUseCase, of a player that sits in no other active room.
Seats(p, r) == ~ended[r] /\ \A q \in Rooms \ {r} : p \in members[q] => ended[q]

\* CreateRoomHandler (REST): p is the first to sit in r, and no socket is
\* involved.  A room in which none of Players sits may have another owner.
CreateRoom(p, r) ==
    /\ Seats(p, r) /\ members[r] = {}
    /\ members' = [members EXCEPT ![r] = @ \cup {p}]
    /\ UNCHANGED <<ended, round, betting, hubVars, sockVars, sess, push, detach, handled>>

\* session.join, as far as Join.Execute: seated, or a member already, which a
\* member still bound to an ended room is too (its release is due, or was lost).
\* Everybody else is refused, with an error frame (Reply).
JoinRoom(s, r) ==
    LET p == sock[s].player IN
    /\ Runs(s, "idle")
    /\ handled < MaxMessages
    /\ handled' = handled + 1
    /\ Seats(p, r) \/ p \in members[r]
    /\ members' = [members EXCEPT ![r] = @ \cup {p}]
    /\ sess' = [sess EXCEPT ![s] = [IdleSess EXCEPT !.pc = "set", !.room = r]]
    /\ UNCHANGED <<ended, round, betting, hubVars, sockVars, push, detach>>

SetRoom(s) ==
    /\ Runs(s, "set")
    /\ sock' = [sock EXCEPT ![s].room = sess[s].room]
    /\ sess' = [sess EXCEPT ![s].pc = "attach"]
    /\ UNCHANGED <<dbVars, hubVars, closed, queue, writer, got, push, detach, handled>>

AttachToRoom(s) ==
    /\ Runs(s, "attach")
    /\ rooms' = [rooms EXCEPT ![sess[s].room] = @ \cup {sock[s].player}]
    /\ sess' = [sess EXCEPT ![s].pc = "read"]
    /\ UNCHANGED <<dbVars, clients, sockVars, push, detach, handled>>

\* RoomStateUseCase.Execute
ReadState(s) ==
    /\ Runs(s, "read")
    /\ LET r == sess[s].room IN
       /\ sess' = [sess EXCEPT ![s] = [pc |-> "push", room |-> r, todo |-> members[r],
                                       n |-> round[r], over |-> ended[r]]]
       /\ sock' = [sock EXCEPT ![s].joined = r]
    /\ UNCHANGED <<dbVars, hubVars, closed, queue, writer, got, push, detach, handled>>

\* It fails: the socket stays attached, and is sent the error and no snapshot.
ReadFails(s) ==
    /\ Runs(s, "read")
    /\ sess' = [sess EXCEPT ![s] = IdleSess]
    /\ Enqueue(s, ErrorFrame)
    /\ UNCHANGED <<dbVars, hubVars, sock, writer, got, push, detach, handled>>

\* SendToPlayers(state.Players, room.state), one player at a time.  Nobody
\* leaves a room, so the joiner is among them.
PushState(s) ==
    /\ Runs(s, "push")
    /\ \E p \in sess[s].todo :
        /\ SendToPlayer(p, StateFrame(sess[s]))
        /\ sess' = [sess EXCEPT ![s] = IF sess[s].todo = {p} THEN IdleSess
                                       ELSE [sess[s] EXCEPT !.todo = @ \ {p}]]
    /\ UNCHANGED <<dbVars, hubVars, sock, writer, got, push, detach, handled>>

\* Any other message: at most one frame back, bet.accepted or an error, to the
\* socket itself (both stand as the error frame: they tell nothing of the life
\* of the room).
Reply(s) ==
    /\ Runs(s, "idle")
    /\ handled < MaxMessages
    /\ handled' = handled + 1
    /\ Enqueue(s, ErrorFrame)
    /\ UNCHANGED <<dbVars, hubVars, sock, writer, got, sess, push, detach>>
-----------------------------------------------------------------------------
(***************************************************************************)
(* The room loops as Notifier clients.  push[r] is a sequence of           *)
(* [frame, to]; the pseudo-frame "detach" is the call of DetachRoom.       *)
(***************************************************************************)
ToMembers(type, r, n) == [frame |-> Frame(type, r, n), to |-> members[r]]
Detaching(r)          == [frame |-> Frame("detach", r, 0), to |-> {}]
LoopIdle(r)           == push[r] = <<>> /\ detach[r] = {}

RoundStarted(r) ==
    /\ LoopIdle(r) /\ ~ended[r] /\ ~betting[r]
    /\ members[r] # {}
    /\ round[r] < MaxRounds
    /\ round' = [round EXCEPT ![r] = @ + 1]
    /\ betting' = [betting EXCEPT ![r] = TRUE]
    /\ push' = [push EXCEPT ![r] = <<ToMembers("started", r, round[r] + 1)>>]
    /\ UNCHANGED <<ended, members, hubVars, sockVars, sess, detach, handled>>

\* Balances before the result.
SettledBalanceFirst(r, closes) ==
    IF closes
    THEN <<ToMembers("final", r, round[r]), ToMembers("result", r, round[r]),
           ToMembers("closed", r, round[r]), Detaching(r)>>
    ELSE <<ToMembers("balance", r, round[r]), ToMembers("result", r, round[r])>>

\* Hub.RoundSettled: the result, the balances (reason round_end or room_end),
\* and the end of the room.
Settled(r, closes) ==
    IF closes
    THEN <<ToMembers("result", r, round[r]), ToMembers("final", r, round[r]),
           ToMembers("closed", r, round[r]), Detaching(r)>>
    ELSE <<ToMembers("result", r, round[r]), ToMembers("balance", r, round[r])>>

\* A settlement ends the room after the last round, or if a close is pending.
RoundSettled(r, closes) ==
    /\ LoopIdle(r) /\ ~ended[r] /\ betting[r]
    /\ round[r] = MaxRounds => closes
    /\ betting' = [betting EXCEPT ![r] = FALSE]
    /\ ended' = [ended EXCEPT ![r] = closes]
    /\ push' = [push EXCEPT ![r] = Settled(r, closes)]
    /\ UNCHANGED <<members, round, hubVars, sockVars, sess, detach, handled>>

\* Hub.RoomClosed, after a close of an idle room or an abort of a live one.
RoomClosed(r) ==
    /\ LoopIdle(r) /\ ~ended[r] /\ members[r] # {}
    /\ ended' = [ended EXCEPT ![r] = TRUE]
    /\ betting' = [betting EXCEPT ![r] = FALSE]
    /\ push' = [push EXCEPT ![r] = <<ToMembers("final", r, round[r]),
                                     ToMembers("closed", r, round[r]),
                                     Detaching(r)>>]
    /\ UNCHANGED <<members, round, hubVars, sockVars, sess, detach, handled>>

\* SendToPlayers and pushBalances, one player at a time.
PushNext(r) ==
    /\ push[r] # <<>> /\ Head(push[r]).to # {}
    /\ LET now == Head(push[r]) IN
       \E p \in now.to :
        /\ SendToPlayer(p, now.frame)
        /\ push' = [push EXCEPT ![r] =
                       IF now.to = {p} THEN Tail(@)
                       ELSE <<[now EXCEPT !.to = @ \ {p}]>> \o Tail(@)]
    /\ UNCHANGED <<dbVars, hubVars, sock, writer, got, sess, detach, handled>>

\* Hub.DetachRoom, under the lock: forget the room, collect the sockets.
DetachRoom(r) ==
    /\ push[r] # <<>> /\ Head(push[r]).frame.type = "detach"
    /\ push' = [push EXCEPT ![r] = Tail(@)]
    /\ rooms' = [rooms EXCEPT ![r] = {}]
    /\ detach' = [detach EXCEPT ![r] =
                     {<<clients[p], "check">> : p \in {q \in rooms[r] : clients[q] # None}}]
    /\ UNCHANGED <<dbVars, clients, sockVars, sess, handled>>

\* After the lock: Room() and setRoom("") are two critical sections.
DetachCheck(r, s) ==
    /\ <<s, "check">> \in detach[r]
    /\ detach' = [detach EXCEPT ![r] =
                     (@ \ {<<s, "check">>})
                        \cup IF sock[s].room = r THEN {<<s, "clear">>} ELSE {}]
    /\ UNCHANGED <<dbVars, hubVars, sockVars, sess, push, handled>>

DetachClear(r, s) ==
    /\ <<s, "clear">> \in detach[r]
    /\ detach' = [detach EXCEPT ![r] = @ \ {<<s, "clear">>}]
    /\ sock' = [sock EXCEPT ![s].room = None]
    /\ UNCHANGED <<dbVars, hubVars, closed, queue, writer, got, sess, push, handled>>
-----------------------------------------------------------------------------
LoopNext(r) ==
    \/ PushNext(r) \/ DetachRoom(r)
    \/ \E s \in Sockets : DetachCheck(r, s) \/ DetachClear(r, s)

SessNext(s) ==
    SetRoom(s) \/ AttachToRoom(s) \/ ReadState(s) \/ ReadFails(s) \/ PushState(s)

Next ==
    \/ \E s \in Sockets :
        \/ \E p \in Players : Register(s, p)
        \/ Refuse(s)
        \/ Replace(s) \/ ReadPumpEnds(s) \/ Write(s) \/ WritePumpEnds(s)
        \/ \E r \in Rooms : JoinRoom(s, r)
        \/ SessNext(s) \/ Reply(s)
    \/ \E r \in Rooms :
        \/ \E p \in Players : CreateRoom(p, r)
        \/ RoundStarted(r) \/ RoomClosed(r)
        \/ \E closes \in BOOLEAN : RoundSettled(r, closes)
        \/ LoopNext(r)

Spec == Init /\ [][Next]_vars

\* A loop or a session with frames to hand out goes on doing so.  Of a socket
\* that is still open nothing is assumed: its peer may never read.  Once it is
\* closed, write deadlines end every write, then the write pump closes the
\* connection, and then the read pump ends.
Fairness ==
    /\ \A r \in Rooms : WF_vars(LoopNext(r))
    /\ \A s \in Sockets :
        /\ WF_vars(Replace(s) \/ SessNext(s))
        /\ WF_vars(\/ closed[s] /\ (Write(s) \/ WritePumpEnds(s))
                   \/ ~writer[s] /\ ReadPumpEnds(s))

FairSpec == Spec /\ Fairness
-----------------------------------------------------------------------------
SockRecords == [pc : {"new", "registering", "up", "gone"},
                player : Players \cup {None}, prev : Sockets \cup {None},
                room : Rooms \cup {None}, joined : Rooms \cup {None}]

SessRecords == [pc : {"idle", "set", "attach", "read", "push"},
                room : Rooms \cup {None}, todo : SUBSET Players, n : 0..MaxRounds,
                over : BOOLEAN]

Pushes == [frame : [type : LoopTypes \cup {"detach"}, room : Rooms, n : 0..MaxRounds],
           to : SUBSET Players]

\* Type invariant; a queue never holds more than SendBuffer frames.
TypeOK ==
    /\ ended \in [Rooms -> BOOLEAN]
    /\ members \in [Rooms -> SUBSET Players]
    /\ round \in [Rooms -> 0..MaxRounds]
    /\ betting \in [Rooms -> BOOLEAN]
    /\ clients \in [Players -> Sockets \cup {None}]
    /\ rooms \in [Rooms -> SUBSET Players]
    /\ sock \in [Sockets -> SockRecords]
    /\ closed \in [Sockets -> BOOLEAN]
    /\ queue \in [Sockets -> Seq(Frames)]
    /\ \A s \in Sockets : Len(queue[s]) <= SendBuffer
    /\ writer \in [Sockets -> BOOLEAN]
    /\ got \in [Sockets -> Seq(Frames)]
    /\ sess \in [Sockets -> SessRecords]
    /\ push \in [Rooms -> Seq(Pushes)]
    /\ detach \in [Rooms -> SUBSET (Sockets \X {"check", "clear"})]
    /\ handled \in 0..MaxMessages

\* WS_EVENTS, one connection per player: a socket that is up and not closed is
\* the one its player's frames go to, or is just being replaced; and a player's
\* frames never go to a socket that has gone.  Logins, replacements and the
\* clean-up of replaced sockets may overlap in any way.
RegistryHonest ==
    /\ \A s \in Sockets :
        (sock[s].pc = "up" /\ ~closed[s]) =>
            \/ clients[sock[s].player] = s
            \/ \E t \in Sockets : sock[t].pc = "registering" /\ sock[t].prev = s
    /\ \A p \in Players : clients[p] # None => sock[clients[p]].pc # "gone"

\* hub.go on RoundSettled: "a client should learn what happened before it is
\* told what it is now worth".  On every socket the loop's frames about a room
\* come in the order of its life, also when frames are dropped in between or
\* the socket came late.
Rank(f) ==
    CASE f.type = "started" -> 5 * f.n
      [] f.type = "result"  -> 5 * f.n + 1
      [] f.type = "balance" -> 5 * f.n + 2
      [] f.type = "final"   -> 5 * f.n + 3
      [] f.type = "closed"  -> 5 * f.n + 4

RoundFramesInOrder ==
    \A s \in Sockets : \A i, j \in DOMAIN got[s] :
        LET f == got[s][i]
            g == got[s][j]
        IN  (i < j /\ f.type \in LoopTypes /\ g.type \in LoopTypes /\ f.room = g.room)
                => Rank(f) < Rank(g)

\* handler.go on room.join: the snapshot is read after the seat is committed, and
\* a full queue closes the socket instead of losing a frame.  So a player whose
\* join got its snapshot read (a join that could not is sent an error instead)
\* knows the table or is about to: on its socket, if that is still the current
\* one, there is, or is on its way, a frame about the latest round and, if the
\* room has ended, one that says so: room.closed, or the snapshot of a member that
\* came back after the end.  The snapshot may be older than the frames of the loop
\* it is delivered after.
Told(s, r, Wanted(_)) ==
    \/ \E i \in DOMAIN got[s] : got[s][i].room = r /\ Wanted(got[s][i])
    \/ \E i \in DOMAIN queue[s] : queue[s][i].room = r /\ Wanted(queue[s][i])
    \/ \E i \in DOMAIN push[r] : /\ sock[s].player \in push[r][i].to
                                 /\ Wanted(push[r][i].frame)

JoinerLearnsTable ==
    \A s \in Watched :
        LET r == sock[s].joined
            Current(f) == f.n = round[r]
            End(f)     == f.type \in {"closed", "over"}
        IN  (/\ Runs(s, "idle") /\ ~closed[s] /\ clients[sock[s].player] = s
             /\ r # None) =>
                /\ Told(s, r, Current)
                /\ ended[r] => Told(s, r, End)

\* hub.go: "It never blocks": a loop gets rid of its notification, and a session
\* of its snapshot, although no peer may be reading.
PushEnds ==
    /\ \A r \in Rooms : push[r] # <<>> ~> push[r] = <<>>
    /\ \A s \in Sockets : sess[s].pc # "idle" ~> sess[s].pc = "idle"

\* A socket that was replaced or dropped as too slow is closed for good: its
\* read pump ends and the registry lets go of it.
ClosedSocketLeaves ==
    \A s \in Sockets : (closed[s] /\ sock[s].pc # "new") ~> sock[s].pc = "gone"

\* room_state.go: room.state "must never be a stale projection".  A snapshot
\* never reaches a client after a frame about a later round.
SnapshotIsFresh ==
    \A s \in Sockets : \A i, j \in DOMAIN got[s] :
        (i < j /\ got[s][j].type \in {"state", "over"} /\ got[s][i].room = got[s][j].room)
            => got[s][i].n <= got[s][j].n

\* WS_EVENTS on room.closed: "no further events for that room id are possible".
NothingAfterClosed ==
    \A s \in Sockets : \A i, j \in DOMAIN got[s] :
        (i < j /\ got[s][i].type = "closed") => got[s][j].room # got[s][i].room

\* WS_EVENTS on room.closed: "always preceded by each member's final
\* balance.updated".
FinalBalanceFirst ==
    \A s \in Sockets : \A j \in DOMAIN got[s] :
        got[s][j].type = "closed" =>
            \E i \in 1..(j - 1) : /\ got[s][i].type = "final"
                                  /\ got[s][i].room = got[s][j].room

\* WS_EVENTS: bet.place is for "any seated player".  A socket that has joined a
\* room which goes on keeps its room pointer, without which start and bet are
\* refused (not_in_room).
JoinedSocketKnowsRoom ==
    \A s \in Sockets :
        (/\ Runs(s, "idle") /\ ~closed[s]
         /\ sock[s].joined # None /\ ~ended[sock[s].joined])
            => sock[s].room = sock[s].joined
==============================================================================
