------------------------------ MODULE RoomCache ------------------------------
(***************************************************************************)
(* GET /rooms: the listing of open rooms (ListOpenRoomsUseCase) over the   *)
(* open-rooms hash in Redis (RoomStateStore), which every room operation   *)
(* updates after its commit and which a listing that finds it empty fills  *)
(* from PostgreSQL.                                                        *)
(*                                                                         *)
(* An operation on a room is its commit, which fixes the summary, and the  *)
(* cache write that follows; between the two anything may happen, and the  *)
(* writes of two operations may land in either order.                      *)
(***************************************************************************)
EXTENDS Integers, Sequences, FiniteSets

CONSTANTS
    Rooms,
    Ops,            \* room operations in flight at once
    Listings,       \* GET /rooms in flight at once
    Asked,          \* numbers tried as limit and offset of a request
    HalfRange,      \* 2^31: the int32 they are narrowed to is less than this
    DefaultLimit,   \* defaultRoomPageLimit
    MaxLimit,       \* maxRoomPageLimit
    MaxFaults,      \* bound on the number of failures
    None            \* no room

ASSUME CacheAssumption ==
    /\ Asked \subseteq Int
    /\ HalfRange \in Nat \ {0}
    /\ DefaultLimit \in 1..MaxLimit
    /\ MaxLimit \in Nat
    /\ MaxFaults \in Nat
    /\ None \notin Rooms

VARIABLES
    rows,       \* rooms of the database, the newest first (created_at DESC)
    status,     \* rooms.status, "unused" before the room exists
    cache,      \* fields of the open-rooms hash; every summary in it is open
    op,         \* operations that have committed and not written the cache
    list,       \* listings in flight
    faults

vars == <<rows, status, cache, op, list, faults>>

IsOpen(r) == status[r] = "open"

IdleOp   == [room |-> None, status |-> "unused"]
IdleList == [pc |-> "idle", limit |-> 1, offset |-> 0, rooms |-> <<>>,
             todo |-> <<>>, since |-> {}]
-----------------------------------------------------------------------------
(***************************************************************************)
(* Paging.                                                                 *)
(***************************************************************************)
\* int32(v): the low bits, as a two's complement number.
Narrow(v) ==
    LET low == v % (2 * HalfRange)
    IN  IF low >= HalfRange THEN low - 2 * HalfRange ELSE low

\* A negative parameter counts as absent; a large one wraps around.
QueryInt(v) == IF v < 0 THEN 0 ELSE Narrow(v)

\* An offset that is passed on as it is.
AnyOffset(offset) == offset

NormalLimit(limit) ==
    CASE limit <= 0       -> DefaultLimit
      [] limit > MaxLimit -> MaxLimit
      [] OTHER            -> limit

NormalOffset(offset) == IF offset < 0 THEN 0 ELSE offset

\* page(rooms, limit, offset)
Page(rooms, limit, offset) ==
    LET end == IF offset + limit > Len(rooms) THEN Len(rooms) ELSE offset + limit
    IN  SubSeq(rooms, offset + 1, end)

\* The elements of a sequence that are in a set, in their order (SelectSeq, as
\* a recursive function, which can be reasoned about).
Kept(s, set) ==
    LET kept[i \in 0..Len(s)] ==
            IF i = 0 THEN <<>>
            ELSE IF s[i] \in set THEN Append(kept[i - 1], s[i]) ELSE kept[i - 1]
    IN  kept[Len(s)]

\* The cached rooms, newest first.
CachedRooms == Kept(rows, cache)

\* WHERE status = 'open' ORDER BY created_at DESC
OpenRooms == Kept(rows, {r \in Rooms : IsOpen(r)})

\* RoomRepository.ListOpen: LIMIT limit OFFSET offset.
ListOpen(limit, offset) == Page(OpenRooms, limit, offset)
-----------------------------------------------------------------------------
Init ==
    /\ rows = <<>>
    /\ status = [r \in Rooms |-> "unused"]
    /\ cache = {}
    /\ op = [c \in Ops |-> IdleOp]
    /\ list = [l \in Listings |-> IdleList]
    /\ faults = 0

Fault == faults < MaxFaults /\ faults' = faults + 1

\* SaveRoom with a summary of status s: an open room is indexed, any other is
\* taken out.
SaveRoom(r, s) == IF s = "open" THEN cache \cup {r} ELSE cache \ {r}

\* RemoveRoom
RemoveRoom(r) == cache \ {r}
-----------------------------------------------------------------------------
(***************************************************************************)
(* Room operations.                                                        *)
(***************************************************************************)
\* The summary, as of the commit (summaryOf).
Commits(c, r, s) ==
    /\ op[c] = IdleOp
    /\ op' = [op EXCEPT ![c] = [room |-> r, status |-> s]]

CreateRoom(c, r) ==
    /\ status[r] = "unused"
    /\ status' = [status EXCEPT ![r] = "open"]
    /\ rows' = <<r>> \o rows
    /\ Commits(c, r, "open")
    /\ UNCHANGED <<cache, list, faults>>

\* A join, a start, or a settlement after which the table plays on.
TouchRoom(c, r) ==
    /\ IsOpen(r)
    /\ Commits(c, r, "open")
    /\ UNCHANGED <<rows, status, cache, list, faults>>

\* A close, or what ends a closing room.
EndRoom(c, r, s) ==
    /\ \/ IsOpen(r)
       \/ status[r] = "closing" /\ s = "closed"
    /\ status' = [status EXCEPT ![r] = s]
    /\ list' = [l \in Listings |-> [list[l] EXCEPT !.since = @ \ {r}]]
    /\ Commits(c, r, s)
    /\ UNCHANGED <<rows, cache, faults>>

\* An operation that writes the cache only if it ends the room.
SavesNothing(c) ==
    /\ op[c] # IdleOp
    /\ cache' = IF op[c].status = "open" THEN cache ELSE RemoveRoom(op[c].room)
    /\ op' = [op EXCEPT ![c] = IdleOp]
    /\ UNCHANGED <<rows, status, list, faults>>

\* The cache write after the commit: finalizeRoomCache removes a closed room;
\* whatever else happened to a room, its summary is saved.
CacheWrite(c) ==
    /\ op[c] # IdleOp
    /\ cache' = IF op[c].status = "closed" THEN RemoveRoom(op[c].room)
                                           ELSE SaveRoom(op[c].room, op[c].status)
    /\ op' = [op EXCEPT ![c] = IdleOp]
    /\ UNCHANGED <<rows, status, list, faults>>

\* It fails (the error is swallowed), or the process dies before it.
CacheWriteLost(c) ==
    /\ Fault
    /\ op[c] # IdleOp
    /\ op' = [op EXCEPT ![c] = IdleOp]
    /\ UNCHANGED <<rows, status, cache, list>>

\* Redis restarts without its data.
CacheLost ==
    /\ Fault
    /\ cache # {}
    /\ cache' = {}
    /\ UNCHANGED <<rows, status, op, list>>
-----------------------------------------------------------------------------
(***************************************************************************)
(* Listings.                                                               *)
(***************************************************************************)
\* A listing that takes an empty cache for an answer.
HitAlways == TRUE

\* A cache hit: at least one open room is cached.
CacheHit == cache # {}

\* The request is parsed and normalised, and Redis is asked.  A hit is
\* answered; a miss, and an error, go on to PostgreSQL.
ListCached(l, limit, offset) ==
    LET n == NormalLimit(QueryInt(limit))
        m == NormalOffset(QueryInt(offset))
        asked == [IdleList EXCEPT !.limit = n, !.offset = m,
                                  !.since = {r \in Rooms : IsOpen(r)}]
    IN  /\ list[l].pc = "idle"
        /\ \/ /\ CacheHit
              /\ list' = [list EXCEPT ![l] =
                    [asked EXCEPT !.pc = "done", !.rooms = Page(CachedRooms, n, m)]]
              /\ UNCHANGED faults
           \/ /\ ~CacheHit
              /\ list' = [list EXCEPT ![l] = [asked EXCEPT !.pc = "db"]]
              /\ UNCHANGED faults
           \/ /\ Fault
              /\ list' = [list EXCEPT ![l] = [asked EXCEPT !.pc = "db"]]
        /\ UNCHANGED <<rows, status, cache, op>>

\* PostgreSQL answers, or its error is the caller's.
ListDatabase(l) ==
    /\ list[l].pc = "db"
    /\ \/ /\ LET found == ListOpen(list[l].limit, list[l].offset)
             IN  list' = [list EXCEPT ![l] =
                    [@ EXCEPT !.pc = "warm", !.rooms = found, !.todo = found]]
          /\ UNCHANGED faults
       \/ /\ Fault
          /\ list' = [list EXCEPT ![l] = IdleList]
    /\ UNCHANGED <<rows, status, cache, op>>

\* The warm-up: SaveRoom, room by room, of summaries read before.
Warm(l) ==
    /\ list[l].pc = "warm" /\ list[l].todo # <<>>
    /\ list' = [list EXCEPT ![l].todo = Tail(@)]
    /\ \/ cache' = SaveRoom(Head(list[l].todo), "open") /\ UNCHANGED faults
       \/ Fault /\ UNCHANGED cache
    /\ UNCHANGED <<rows, status, op>>

ListAnswer(l) ==
    /\ list[l].pc = "warm" /\ list[l].todo = <<>>
    /\ list' = [list EXCEPT ![l].pc = "done"]
    /\ UNCHANGED <<rows, status, cache, op, faults>>

\* The caller has its answer.
ListReturns(l) ==
    /\ list[l].pc = "done"
    /\ list' = [list EXCEPT ![l] = IdleList]
    /\ UNCHANGED <<rows, status, cache, op, faults>>

Next ==
    \/ \E c \in Ops :
        \/ CacheWrite(c) \/ CacheWriteLost(c)
        \/ \E r \in Rooms :
            \/ CreateRoom(c, r) \/ TouchRoom(c, r)
            \/ \E s \in {"closing", "closed"} : EndRoom(c, r, s)
    \/ CacheLost
    \/ \E l \in Listings :
        \/ \E limit, offset \in Asked : ListCached(l, limit, offset)
        \/ ListDatabase(l) \/ Warm(l) \/ ListAnswer(l) \/ ListReturns(l)

Spec == Init /\ [][Next]_vars
-----------------------------------------------------------------------------
\* Type invariant; a page is never cut at a negative offset (a Go panic on a
\* hit, an SQL error on a miss), although int32(v) in queryInt turns a large
\* parameter into a negative one.
TypeOK ==
    /\ rows \in Seq(Rooms)
    /\ status \in [Rooms -> {"unused", "open", "closing", "closed"}]
    /\ cache \subseteq Rooms
    /\ op \in [Ops -> [room : Rooms \cup {None},
                       status : {"unused", "open", "closing", "closed"}]]
    /\ list \in [Listings ->
                   [pc : {"idle", "db", "warm", "done"},
                    limit : 1..MaxLimit, offset : Nat,
                    rooms : Seq(Rooms), todo : Seq(Rooms), since : SUBSET Rooms]]
    /\ \A l \in Listings : Len(list[l].rooms) <= list[l].limit
    /\ faults \in 0..MaxFaults

\* As long as no cache write failed and Redis kept its data, every open room is
\* in the hash once its writes have landed: whatever order the writes of racing
\* operations and warm-ups land in, an eviction never hides an open room.
OpenRoomsCached ==
    faults = 0 =>
        \A r \in Rooms : IsOpen(r) => r \in cache \/ \E c \in Ops : op[c].room = r

\* list_rooms.go: an empty cache gives "the database the last word".  A first
\* page is never empty if some room was open from the request to the answer,
\* also when Redis fails or loses its data in between.
ListingFindsATable ==
    \A l \in Listings :
        (list[l].pc = "done" /\ list[l].offset = 0 /\ list[l].since # {})
            => list[l].rooms # <<>>

\* room_state_store.go: the listing "never advertises a closing or closed table".
\* With nothing in flight, the cached rooms are open.
ListingOnlyOpen ==
    (/\ \A c \in Ops : op[c] = IdleOp
     /\ \A l \in Listings : list[l].pc = "idle") => \A r \in cache : IsOpen(r)

\* list_rooms.go: "both paths behave the same from the caller's point of view".
\* With nothing in flight, a hit would answer what the database would.
PathsAgree ==
    (/\ \A c \in Ops : op[c] = IdleOp
     /\ \A l \in Listings : list[l].pc = "idle"
     /\ CacheHit) => CachedRooms = OpenRooms
==============================================================================
