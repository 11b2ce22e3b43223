------------------------------- MODULE Seating -------------------------------
(***************************************************************************)
(* Who sits where: creating and joining rooms (CreateRoomUseCase and       *)
(* JoinRoomUseCase) against the two stores that keep a player in one room  *)
(* and a room within its seats.                                            *)
(*                                                                         *)
(* A call claims the player in Redis (SET NX), then runs a transaction     *)
(* that looks for another active room and writes the seat.  The look and   *)
(* the commit are two steps (READ COMMITTED); a join holds the row of its  *)
(* own room FOR UPDATE from the first to the second, and no lock of the    *)
(* player.  Each use case is one call c going through its pc.              *)
(***************************************************************************)
EXTENDS Integers, FiniteSets

CONSTANTS
    Players,
    Rooms,
    Calls,          \* requests in flight at once
    MaxPlayers,     \* seats in a room (6 in the code)
    FaultKinds,     \* what may go wrong in this instance
    MaxFaults,      \* bound on how many of those kinds one behaviour meets
    None,           \* no room, no call
    Gone            \* the lock token of a call that will not release it

ASSUME SeatingAssumption ==
    /\ MaxPlayers \in Nat \ {0}
    /\ FaultKinds \subseteq {"rollback", "crash", "redis", "unbound", "expire"}
    /\ MaxFaults \in Nat
    /\ None \notin Rooms /\ None \notin Calls
    /\ Gone \notin Calls \cup {None}

VARIABLES
    status,     \* rooms.status, "unused" before the room exists
    seated,     \* room_players
    rowLock,    \* room -> the call whose transaction holds the row
    binding,    \* Redis active_player:{id} -> room
    joinLock,   \* Redis join lock of a room -> the call whose token it holds
    call,       \* the calls in flight
    releasing,  \* <<room, player>>: finalizeRoomCache has this left to do
    faults      \* the kinds of fault that have happened

vars == <<status, seated, rowLock, binding, joinLock, call, releasing, faults>>

Idle == [pc |-> "idle", kind |-> "none", player |-> None, room |-> None,
         rebind |-> FALSE, claimed |-> FALSE]

CallRecords ==
    [pc : {"idle", "lock", "bind", "where", "check", "commit", "undo"},
     kind : {"none", "create", "join"}, player : Players \cup {None},
     room : Rooms \cup {None}, rebind : BOOLEAN, claimed : BOOLEAN]

\* RoomRepository.FindActiveRoomForPlayer, every row it could return.
ActiveRooms(p) == {r \in Rooms : status[r] \in {"open", "closing"} /\ p \in seated[r]}

\* COMMIT or ROLLBACK gives the row back.
RowFreed(c) == [r \in Rooms |-> IF rowLock[r] = c THEN None ELSE rowLock[r]]

\* A fault may strike any number of times.
Fault(kind) ==
    /\ kind \in FaultKinds
    /\ kind \in faults \/ Cardinality(faults) < MaxFaults
    /\ faults' = faults \cup {kind}

\* AcquireJoinLock's release script: the key is deleted only if it holds this
\* call's token.
Unlock(c) == [r \in Rooms |-> IF joinLock[r] = c THEN None ELSE joinLock[r]]

\* Nobody will release the key of call c; it stays until its TTL runs out.
Abandoned(c) == [r \in Rooms |-> IF joinLock[r] = c THEN Gone ELSE joinLock[r]]

\* The deferred release of the seat mutex, whose error is swallowed.
ReleaseMutex(c) ==
    \/ joinLock' = Unlock(c) /\ UNCHANGED faults
    \/ joinLock' = Abandoned(c) /\ Fault("redis")
-----------------------------------------------------------------------------
Init ==
    /\ status = [r \in Rooms |-> "unused"]
    /\ seated = [r \in Rooms |-> {}]
    /\ rowLock = [r \in Rooms |-> None]
    /\ binding = [p \in Players |-> None]
    /\ joinLock = [r \in Rooms |-> None]
    /\ call = [c \in Calls |-> Idle]
    /\ releasing = {}
    /\ faults = {}

Goes(c, pc) == call' = [call EXCEPT ![c].pc = pc]
Ends(c)     == call' = [call EXCEPT ![c] = Idle]

\* IDGenerator.NewID: an id that nothing refers to.
Fresh(r) ==
    /\ status[r] = "unused"
    /\ \A d \in Calls : call[d].room # r
    /\ \A q \in Players : binding[q] # r

\* CreateRoomUseCase.Execute: a fresh id, and the claim.  A player that is
\* bound already is refused, which changes nothing.
Create(c, p, r) ==
    /\ call[c].pc = "idle"
    /\ Fresh(r)
    /\ binding[p] = None
    /\ binding' = [binding EXCEPT ![p] = r]
    /\ call' = [call EXCEPT ![c] = [pc |-> "check", kind |-> "create", player |-> p,
                                    room |-> r, rebind |-> FALSE, claimed |-> TRUE]]
    /\ UNCHANGED <<status, seated, rowLock, joinLock, releasing, faults>>

\* The claim is applied but its answer is lost: the use case returns the error
\* and releases nothing.
CreateFails(p, r) ==
    /\ Fault("redis")
    /\ Fresh(r)
    /\ binding[p] = None
    /\ binding' = [binding EXCEPT ![p] = r]
    /\ UNCHANGED <<status, seated, rowLock, joinLock, call, releasing>>

\* Its transaction: the look for another room, then the insert of the room
\* with its owner seated.
CreateCheck(c) ==
    /\ call[c].kind = "create" /\ call[c].pc = "check"
    /\ Goes(c, IF ActiveRooms(call[c].player) = {} THEN "commit" ELSE "undo")
    /\ UNCHANGED <<status, seated, rowLock, binding, joinLock, releasing, faults>>

CreateCommit(c) ==
    /\ call[c].kind = "create" /\ call[c].pc = "commit"
    /\ status' = [status EXCEPT ![call[c].room] = "open"]
    /\ seated' = [seated EXCEPT ![call[c].room] = {call[c].player}]
    /\ Ends(c)
    /\ UNCHANGED <<rowLock, binding, joinLock, releasing, faults>>

\* JoinRoomUseCase.Execute, the read of the binding.  Bound elsewhere: refused.
\* Bound here and seated: already a member.  Otherwise on to the seat mutex.  The
\* id is one a client can have been told: that of a room that was committed.
Join(c, p, r) ==
    /\ call[c].pc = "idle"
    /\ status[r] # "unused"
    /\ binding[p] \in {None, r}
    /\ ~(binding[p] = r /\ p \in seated[r])
    /\ call' = [call EXCEPT ![c] = [pc |-> "lock", kind |-> "join", player |-> p,
                                    room |-> r, rebind |-> binding[p] = None,
                                    claimed |-> FALSE]]
    /\ UNCHANGED <<status, seated, rowLock, binding, joinLock, releasing, faults>>

\* acquireSeatMutex: SET NX, or give up after a few attempts.
JoinLock(c) ==
    /\ call[c].pc = "lock"
    /\ \/ /\ joinLock[call[c].room] = None
          /\ joinLock' = [joinLock EXCEPT ![call[c].room] = c]
          /\ Goes(c, IF call[c].rebind THEN "bind" ELSE "check")
       \/ /\ joinLock[call[c].room] # None
          /\ Ends(c)
          /\ UNCHANGED joinLock
    /\ UNCHANGED <<status, seated, rowLock, binding, releasing, faults>>

\* A plain SET instead of SET NX.
JoinBindAlways(c) ==
    /\ call[c].pc = "bind"
    /\ binding' = [binding EXCEPT ![call[c].player] = call[c].room]
    /\ call' = [call EXCEPT ![c].pc = "check", ![c].claimed = TRUE]
    /\ UNCHANGED <<status, seated, rowLock, joinLock, releasing, faults>>

\* BindPlayerToRoom (SET NX).
JoinBind(c) ==
    /\ call[c].pc = "bind"
    /\ LET p == call[c].player
       IN  \/ /\ binding[p] = None
              /\ binding' = [binding EXCEPT ![p] = call[c].room]
              /\ call' = [call EXCEPT ![c].pc = "check", ![c].claimed = TRUE]
           \/ /\ binding[p] # None
              /\ Goes(c, "where")
              /\ UNCHANGED binding
    /\ UNCHANGED <<status, seated, rowLock, joinLock, releasing, faults>>

\* Somebody else was faster: ActiveRoom says where, by now.
JoinWhere(c) ==
    /\ call[c].pc = "where"
    /\ Goes(c, IF binding[call[c].player] = call[c].room THEN "check" ELSE "undo")
    /\ UNCHANGED <<status, seated, rowLock, binding, joinLock, releasing, faults>>

\* A Redis command of the join fails, applied or not.  At the mutex the call
\* returns at once.  Later the deferred release still runs, and a claim whose
\* answer was lost is not this call's to undo; the client's own retry of that
\* SET NX finds the key there already.
JoinFails(c) ==
    /\ Fault("redis")
    /\ LET p == call[c].player
           r == call[c].room
       IN  \/ /\ call[c].pc = "lock"
              /\ Ends(c)
              /\ \/ UNCHANGED joinLock
                 \/ joinLock[r] = None /\ joinLock' = [joinLock EXCEPT ![r] = Gone]
              /\ UNCHANGED binding
           \/ /\ call[c].pc = "bind"
              /\ \/ Goes(c, "undo") /\ UNCHANGED binding
                 \/ /\ binding[p] = None
                    /\ binding' = [binding EXCEPT ![p] = r]
                    /\ \E pc \in {"undo", "where"} : Goes(c, pc)
              /\ UNCHANGED joinLock
           \/ /\ call[c].pc = "where"
              /\ Goes(c, "undo")
              /\ UNCHANGED <<binding, joinLock>>
    /\ UNCHANGED <<status, seated, rowLock, releasing>>

\* Room.Join on the locked row, after the look for another room.
Joinable(p, r) ==
    /\ ActiveRooms(p) \subseteq {r}
    /\ status[r] = "open"
    /\ p \notin seated[r]
    /\ Cardinality(seated[r]) < MaxPlayers

\* A GetByID where the join needs GetForUpdate.
JoinCheckUnlocked(c) ==
    /\ call[c].kind = "join" /\ call[c].pc = "check"
    /\ Goes(c, IF Joinable(call[c].player, call[c].room) THEN "commit" ELSE "undo")
    /\ UNCHANGED <<status, seated, rowLock, binding, joinLock, releasing, faults>>

\* GetForUpdate, FindActiveRoomForPlayer and Room.Join.  A player that sits
\* there already (ErrAlreadyJoined) has joined.
JoinCheck(c) ==
    /\ call[c].kind = "join" /\ call[c].pc = "check"
    /\ LET p == call[c].player
           r == call[c].room
       IN  /\ rowLock[r] = None
           /\ \/ /\ Joinable(p, r)
                 /\ Goes(c, "commit")
                 /\ rowLock' = [rowLock EXCEPT ![r] = c]
                 /\ UNCHANGED <<joinLock, faults>>
              \/ /\ ActiveRooms(p) \subseteq {r} /\ status[r] = "open"
                 /\ p \in seated[r]
                 /\ Ends(c)
                 /\ ReleaseMutex(c)
                 /\ UNCHANGED rowLock
              \/ /\ ~Joinable(p, r)
                 /\ ~(/\ ActiveRooms(p) \subseteq {r} /\ status[r] = "open"
                      /\ p \in seated[r])
                 /\ Goes(c, "undo")
                 /\ UNCHANGED <<rowLock, joinLock, faults>>
    /\ UNCHANGED <<status, seated, binding, releasing>>

\* A COMMIT that is never sent: the seat is written, the row stays locked.
JoinCommitOpen(c) ==
    /\ call[c].kind = "join" /\ call[c].pc = "commit"
    /\ seated' = [seated EXCEPT ![call[c].room] = @ \cup {call[c].player}]
    /\ joinLock' = Unlock(c)
    /\ Ends(c)
    /\ UNCHANGED <<status, rowLock, binding, releasing, faults>>

\* AddPlayer and COMMIT; the mutex is released on return.
JoinCommit(c) ==
    /\ call[c].kind = "join" /\ call[c].pc = "commit"
    /\ seated' = [seated EXCEPT ![call[c].room] = @ \cup {call[c].player}]
    /\ rowLock' = RowFreed(c)
    /\ ReleaseMutex(c)
    /\ Ends(c)
    /\ UNCHANGED <<status, binding, releasing>>

\* An undo that releases the player whoever claimed it.
UndoAlways(c) ==
    /\ call[c].pc = "undo"
    /\ binding' = [binding EXCEPT ![call[c].player] = None]
    /\ joinLock' = Unlock(c)
    /\ Ends(c)
    /\ UNCHANGED <<status, seated, rowLock, releasing, faults>>

\* An undo that forgets the claim.
UndoForgets(c) ==
    /\ call[c].pc = "undo"
    /\ joinLock' = Unlock(c)
    /\ Ends(c)
    /\ UNCHANGED <<status, seated, rowLock, binding, releasing, faults>>

\* The error path: a claim taken by this call is released (whatever the key
\* holds by then), then the mutex.  The error of either is swallowed.
Undo(c) ==
    /\ call[c].pc = "undo"
    /\ \/ /\ binding' = IF call[c].claimed
                        THEN [binding EXCEPT ![call[c].player] = None] ELSE binding
          /\ ReleaseMutex(c)
       \/ /\ call[c].claimed /\ Fault("redis")
          /\ joinLock' \in {Unlock(c), Abandoned(c)}
          /\ UNCHANGED binding
    /\ Ends(c)
    /\ UNCHANGED <<status, seated, rowLock, releasing>>
-----------------------------------------------------------------------------
\* The transaction fails (deadline, lost connection): it is rolled back.
TxFails(c) ==
    /\ Fault("rollback")
    /\ call[c].pc \in {"check", "commit"}
    /\ Goes(c, "undo")
    /\ rowLock' = RowFreed(c)
    /\ UNCHANGED <<status, seated, binding, joinLock, releasing>>

\* The process dies in the middle of the call: PostgreSQL rolls back, Redis
\* keeps what it was told, the join lock until its TTL runs out.
Crash(c) ==
    /\ Fault("crash")
    /\ call[c].pc # "idle"
    /\ Ends(c)
    /\ rowLock' = RowFreed(c)
    /\ joinLock' = Abandoned(c)
    /\ UNCHANGED <<status, seated, binding, releasing>>

\* The binding's TTL runs out, or Redis loses the key.
Unbound(p) ==
    /\ Fault("unbound")
    /\ binding[p] # None
    /\ binding' = [binding EXCEPT ![p] = None]
    /\ UNCHANGED <<status, seated, rowLock, joinLock, call, releasing>>

\* The join lock's TTL runs out: its holder is dead, or (a fault) still working.
LockExpires(r) ==
    /\ joinLock[r] # None
    /\ \/ joinLock[r] = Gone /\ UNCHANGED faults
       \/ joinLock[r] # Gone /\ Fault("expire")
    /\ joinLock' = [joinLock EXCEPT ![r] = None]
    /\ UNCHANGED <<status, seated, rowLock, binding, call, releasing>>

\* The end of a room as the engine brings it about (close, last settlement,
\* abort), in a transaction on the room row; then one release per member.
EndRoom(r) ==
    /\ rowLock[r] = None
    /\ \/ /\ status[r] = "open"
          /\ status' = [status EXCEPT ![r] = "closing"]
          /\ UNCHANGED releasing
       \/ /\ status[r] \in {"open", "closing"}
          /\ status' = [status EXCEPT ![r] = "closed"]
          /\ releasing' = releasing \cup ({r} \X seated[r])
    /\ UNCHANGED <<seated, rowLock, binding, joinLock, call, faults>>

\* finalizeRoomCache: ReleasePlayer for one member of a closed room, whose error
\* is swallowed.
Release(r, p) ==
    /\ <<r, p>> \in releasing
    /\ releasing' = releasing \ {<<r, p>>}
    /\ \/ binding' = [binding EXCEPT ![p] = None] /\ UNCHANGED faults
       \/ Fault("redis") /\ UNCHANGED binding
    /\ UNCHANGED <<status, seated, rowLock, joinLock, call>>

\* The process dies after the commit that ended the room, before the last of
\* those releases; no later boot looks at a closed room.
CloserDies(r) ==
    /\ Fault("crash")
    /\ releasing' = {w \in releasing : w[1] # r}
    /\ releasing' # releasing
    /\ UNCHANGED <<status, seated, rowLock, binding, joinLock, call>>

Next ==
    \/ \E c \in Calls, p \in Players, r \in Rooms : Create(c, p, r) \/ Join(c, p, r)
    \/ \E p \in Players, r \in Rooms : CreateFails(p, r)
    \/ \E c \in Calls :
        \/ CreateCheck(c) \/ CreateCommit(c)
        \/ JoinLock(c) \/ JoinBind(c) \/ JoinWhere(c) \/ JoinCheck(c) \/ JoinCommit(c)
        \/ JoinFails(c) \/ Undo(c) \/ TxFails(c) \/ Crash(c)
    \/ \E p \in Players : Unbound(p)
    \/ \E r \in Rooms : LockExpires(r) \/ EndRoom(r) \/ CloserDies(r)
    \/ \E r \in Rooms, p \in Players : Release(r, p)

Spec == Init /\ [][Next]_vars
-----------------------------------------------------------------------------
\* Type invariant; a row is locked only for a transaction that is still open.
TypeOK ==
    /\ status \in [Rooms -> {"unused", "open", "closing", "closed"}]
    /\ seated \in [Rooms -> SUBSET Players]
    /\ rowLock \in [Rooms -> Calls \cup {None}]
    /\ \A r \in Rooms : rowLock[r] # None => call[rowLock[r]].pc = "commit"
    /\ binding \in [Players -> Rooms \cup {None}]
    /\ joinLock \in [Rooms -> Calls \cup {None, Gone}]
    /\ call \in [Calls -> CallRecords]
    /\ releasing \subseteq Rooms \X Players
    /\ faults \subseteq FaultKinds

\* GAME_RULES: at most six players sit at a table.  It holds although the join
\* lock can expire under its holder, also with failures and crashes.
SeatCap == \A r \in Rooms : Cardinality(seated[r]) <= MaxPlayers

\* GAME_RULES and create_room.go: a player sits in one active room at a time.
\* Whatever happens to the binding, says the comment in create_room.go.
OneRoomPerPlayer == \A p \in Players : Cardinality(ActiveRooms(p)) <= 1

\* What the code does guarantee: one active room per player, also if processes
\* die between any two steps of a call and Redis commands fail or lose their
\* answers.  A lost binding or a failed transaction breaks it, and so does a seat
\* mutex that expires under its holder.
OneRoomWhileBound == faults \subseteq {"crash", "redis"} => OneRoomPerPlayer

\* A player seated in an active room is bound to it in Redis, which is what the
\* withdrawal's first check and the next join or create go by.  A crash or a failed
\* Redis command does not change that; a mutex that expires, a failed transaction
\* or a lost key can.
SeatedIsBound ==
    faults \subseteq {"crash", "redis"} =>
        \A p \in Players : \A r \in ActiveRooms(p) : binding[p] = r

\* No binding is left behind: a player is bound to a room it sits in, or that a
\* call in flight is about to seat it in or give up, or that has just closed and
\* is releasing it.  A leftover would lock the player out of every other table,
\* and of withdrawing, for six hours.  Failed transactions, lost keys and expired
\* mutexes leave none; a process that dies or a Redis command that fails does,
\* since the errors of ReleasePlayer are swallowed.
NoStaleBinding ==
    faults \cap {"crash", "redis"} = {} =>
        \A p \in Players :
            \/ binding[p] = None
            \/ binding[p] \in ActiveRooms(p)
            \/ \E c \in Calls : call[c].player = p /\ call[c].room = binding[p]
            \/ <<binding[p], p>> \in releasing
==============================================================================
