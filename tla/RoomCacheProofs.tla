--------------------------- MODULE RoomCacheProofs ---------------------------
(***************************************************************************)
(* The listing and its cache, proved for any number of rooms, operations   *)
(* and listings: no open room is missing from the cache while every cache  *)
(* write arrives, every page is well formed, and the first page of a       *)
(* listing is not empty while a table is open.                             *)
(*                                                                         *)
(* OpenRoomsCached is not inductive: a pending eviction could be that of   *)
(* an open room.  CacheInv adds that a pending eviction is always that of  *)
(* a room that has ended, and no room is opened again.                     *)
(***************************************************************************)
EXTENDS RoomCache, SequenceTheorems, WellFoundedInduction, TLAPS

Statuses == {"unused", "open", "closing", "closed"}

\* What an operation in flight says of its room is still true enough: an
\* eviction is that of a room which stays ended.
EvictionsAreFinal ==
    \A c \in Ops :
        /\ op[c].status = "unused" => op[c].room = None
        /\ op[c].status \in {"closing", "closed"} =>
               op[c].room \in Rooms /\ status[op[c].room] \in {"closing", "closed"}

CacheInv ==
    /\ status \in [Rooms -> Statuses]
    /\ op \in [Ops -> [room : Rooms \cup {None}, status : Statuses]]
    /\ faults \in Nat
    /\ EvictionsAreFinal
    /\ OpenRoomsCached

\* A step of a listing writes at most one room into the cache and takes none out.
LEMMA ListingsOnlyAdd ==
    ASSUME CacheInv, NEW l \in Listings,
           \/ \E limit, offset \in Asked : ListCached(l, limit, offset)
           \/ ListDatabase(l) \/ Warm(l) \/ ListAnswer(l) \/ ListReturns(l)
    PROVE  /\ cache \subseteq cache'
           /\ UNCHANGED <<status, op>>
           /\ faults' = faults \/ faults' = faults + 1
  BY DEF ListCached, ListDatabase, Warm, ListAnswer, ListReturns, SaveRoom, Fault

\* A commit of an operation on a room that is open afterwards, or that ends it.
LEMMA CommitKeeps ==
    ASSUME CacheInv, NEW c \in Ops, NEW r \in Rooms,
           \/ CreateRoom(c, r) \/ TouchRoom(c, r)
           \/ \E s \in {"closing", "closed"} : EndRoom(c, r, s)
    PROVE  CacheInv'
  <1>1. PICK s \in {"open", "closing", "closed"} :
            /\ status' = [status EXCEPT ![r] = s]
            /\ op' = [op EXCEPT ![c] = [room |-> r, status |-> s]]
            /\ op[c] = IdleOp
            /\ status[r] = "unused" \/ status[r] = "open" \/ s # "open"
    BY DEF CacheInv, CreateRoom, TouchRoom, EndRoom, Commits, IsOpen
  <1>2. cache' = cache /\ faults' = faults
    BY DEF CreateRoom, TouchRoom, EndRoom
  <1>3. \A d \in Ops : op'[d] = IF d = c THEN [room |-> r, status |-> s] ELSE op[d]
    BY <1>1 DEF CacheInv
  <1>4. /\ status' \in [Rooms -> Statuses]
        /\ op' \in [Ops -> [room : Rooms \cup {None}, status : Statuses]]
    BY <1>1 DEF CacheInv, Statuses
  <1>5. \A q \in Rooms : status'[q] = IF q = r THEN s ELSE status[q]
    BY <1>1 DEF CacheInv
  <1>6. s = "open" => status[r] \in {"unused", "open"}
    BY <1>1
  <1>7. EvictionsAreFinal'
    BY <1>3, <1>5, <1>6 DEF CacheInv, EvictionsAreFinal
  <1>8. OpenRoomsCached'
    BY <1>1, <1>2, <1>3, <1>5, CacheAssumption
    DEF CacheInv, OpenRoomsCached, IsOpen, IdleOp
  <1> QED
    BY <1>2, <1>4, <1>7, <1>8 DEF CacheInv

\* The write that follows a commit.
LEMMA WriteKeeps ==
    ASSUME CacheInv, NEW c \in Ops, CacheWrite(c)
    PROVE  CacheInv'
  <1>1. /\ op' = [op EXCEPT ![c] = IdleOp]
        /\ status' = status /\ faults' = faults
    BY DEF CacheWrite
  <1>2. \A d \in Ops : op'[d] = IF d = c THEN IdleOp ELSE op[d]
    BY <1>1 DEF CacheInv
  <1>3. op' \in [Ops -> [room : Rooms \cup {None}, status : Statuses]]
    BY <1>1 DEF CacheInv, Statuses, IdleOp
  <1>4. EvictionsAreFinal'
    BY <1>1, <1>2 DEF CacheInv, EvictionsAreFinal, IdleOp
  <1>5. ASSUME NEW r \in Rooms, status[r] = "open"
        PROVE  /\ r \in cache => r \in cache'
               /\ op[c].room = r => r \in cache'
    <2>1. CASE op[c].status = "open"
      BY <2>1 DEF CacheWrite, SaveRoom
    <2>2. CASE op[c].status # "open"
      <3>1. op[c].room # r
        BY <1>5, <2>2, CacheAssumption DEF CacheInv, EvictionsAreFinal, Statuses
      <3> QED
        BY <2>2, <3>1 DEF CacheWrite, SaveRoom, RemoveRoom
    <2> QED
      BY <2>1, <2>2
  <1>6. OpenRoomsCached'
    BY <1>1, <1>2, <1>5 DEF CacheInv, OpenRoomsCached, IsOpen
  <1> QED
    BY <1>1, <1>3, <1>4, <1>6 DEF CacheInv

\* A failure ends what OpenRoomsCached promises, and changes no room.
LEMMA FaultKeeps ==
    ASSUME CacheInv, CacheLost \/ \E c \in Ops : CacheWriteLost(c)
    PROVE  CacheInv'
  <1>1. faults' = faults + 1 /\ status' = status
    BY DEF CacheLost, CacheWriteLost, Fault
  <1>2. op' = op \/ \E c \in Ops : op' = [op EXCEPT ![c] = IdleOp]
    BY DEF CacheLost, CacheWriteLost
  <1>3. op' \in [Ops -> [room : Rooms \cup {None}, status : Statuses]]
    BY <1>2 DEF CacheInv, Statuses, IdleOp
  <1>4. \A d \in Ops : op'[d] = op[d] \/ op'[d] = IdleOp
    BY <1>2 DEF CacheInv
  <1>5. EvictionsAreFinal'
    BY <1>1, <1>4 DEF CacheInv, EvictionsAreFinal, IdleOp
  <1>6. faults' \in Nat /\ OpenRoomsCached'
    BY <1>1 DEF CacheInv, OpenRoomsCached
  <1> QED
    BY <1>1, <1>3, <1>5, <1>6 DEF CacheInv

\* list_rooms.go and the cache writes of every use case: while no cache write
\* fails, an open room is in the open-rooms hash or its write is under way,
\* whatever the order in which the writes of racing operations land.
THEOREM OpenRoomsStayCached == Spec => []OpenRoomsCached
  <1>1. Init => CacheInv
    BY DEF Init, CacheInv, Statuses, EvictionsAreFinal, OpenRoomsCached, IsOpen,
           IdleOp
  <1>2. CacheInv /\ [Next]_vars => CacheInv'
    <2> SUFFICES ASSUME CacheInv, [Next]_vars PROVE CacheInv'
      OBVIOUS
    <2>1. ASSUME NEW c \in Ops, NEW r \in Rooms,
                 \/ CreateRoom(c, r) \/ TouchRoom(c, r)
                 \/ \E s \in {"closing", "closed"} : EndRoom(c, r, s)
          PROVE  CacheInv'
      BY <2>1, CommitKeeps
    <2>2. ASSUME NEW c \in Ops, CacheWrite(c) PROVE CacheInv'
      BY <2>2, WriteKeeps
    <2>3. CASE CacheLost \/ \E c \in Ops : CacheWriteLost(c)
      BY <2>3, FaultKeeps
    <2>4. ASSUME NEW l \in Listings,
                 \/ \E limit, offset \in Asked : ListCached(l, limit, offset)
                 \/ ListDatabase(l) \/ Warm(l) \/ ListAnswer(l) \/ ListReturns(l)
          PROVE  CacheInv'
      <3>1. /\ cache \subseteq cache'
            /\ status' = status /\ op' = op
            /\ faults' = faults \/ faults' = faults + 1
        BY <2>4, ListingsOnlyAdd
      <3> QED
        BY <3>1 DEF CacheInv, EvictionsAreFinal, OpenRoomsCached, IsOpen
    <2>5. CASE UNCHANGED vars
      BY <2>5 DEF vars, CacheInv, EvictionsAreFinal, OpenRoomsCached, IsOpen
    <2> QED
      BY <2>1, <2>2, <2>3, <2>4, <2>5 DEF Next
  <1>3. CacheInv => OpenRoomsCached
    BY DEF CacheInv
  <1> QED
    BY <1>1, <1>2, <1>3, PTL DEF Spec
-----------------------------------------------------------------------------
(***************************************************************************)
(* What a listing selects and pages, for a table of any length.            *)
(***************************************************************************)
\* A set of naturals that is not empty has a least element.
LEMMA LeastNatural ==
    ASSUME NEW T, T \subseteq Nat, T # {}
    PROVE  \E n \in T : \A m \in T : n <= m
  <1>1. \E n \in T : \A m \in T : ~(<<m, n>> \in OpToRel(<, Nat))
    BY WFMin, NatLessThanWellFounded, Zenon
  <1>2. \A m, n \in Nat : m < n => <<m, n>> \in OpToRel(<, Nat)
    BY Zenon DEF OpToRel
  <1>3. PICK n \in T : \A m \in T : ~(<<m, n>> \in OpToRel(<, Nat))
    BY <1>1
  <1>4. \A m \in T : ~(m < n)
    BY <1>2, <1>3
  <1>5. n \in T /\ T \subseteq Nat
    OBVIOUS
  <1>6. \A m \in T : n <= m
    BY <1>4, <1>5
  <1> QED
    BY <1>5, <1>6

\* A set that has 0 and the successor of each of its members has every natural.
LEMMA NatSetInduction ==
    ASSUME NEW S, 0 \in S, \A n \in Nat : n \in S => n + 1 \in S
    PROVE  Nat \subseteq S
  <1> SUFFICES ASSUME Nat \ S # {} PROVE FALSE
    OBVIOUS
  <1>1. PICK n \in Nat \ S : \A m \in Nat \ S : n <= m
    <2>1. Nat \ S \subseteq Nat
      OBVIOUS
    <2> QED
      BY <2>1, LeastNatural
  <1>2. n # 0
    OBVIOUS
  <1>3. n - 1 \in Nat /\ ~(n <= n - 1)
    BY <1>2
  <1>4. n - 1 \in S
    BY <1>1, <1>3
  <1>5. (n - 1) + 1 \in S
    BY <1>3, <1>4
  <1> QED
    BY <1>5

\* g holds what is kept of the first i elements of s, for every i up to n.
Keeps(s, set, n, g) ==
    g = [i \in 0..n |-> IF i = 0 THEN <<>>
                        ELSE IF s[i] \in set THEN Append(g[i - 1], s[i]) ELSE g[i - 1]]

\* The recursion of Kept has a solution.
LEMMA KeepsExists ==
    ASSUME NEW s, NEW set, NEW n \in Nat
    PROVE  \E g : Keeps(s, set, n, g)
  <1> DEFINE S == {k \in Nat : \E g : Keeps(s, set, k, g)}
  <1>1. 0 \in S
    <2> DEFINE g == [i \in 0..0 |-> <<>>]
    <2>1. Keeps(s, set, 0, g)
      BY DEF Keeps
    <2> QED
      BY <2>1
  <1>2. ASSUME NEW k \in Nat, k \in S PROVE k + 1 \in S
    <2>1. PICK g : Keeps(s, set, k, g)
      BY <1>2
    <2> DEFINE last == IF s[k + 1] \in set THEN Append(g[k], s[k + 1]) ELSE g[k]
               h == [i \in 0..(k + 1) |-> IF i = k + 1 THEN last ELSE g[i]]
    <2>2. ASSUME NEW i \in 0..(k + 1)
          PROVE  h[i] = IF i = 0 THEN <<>>
                        ELSE IF s[i] \in set THEN Append(h[i - 1], s[i]) ELSE h[i - 1]
      <3>1. CASE i = k + 1
        <4>1. i # 0 /\ i - 1 = k /\ h[i] = last /\ h[k] = g[k]
          BY <3>1
        <4> HIDE DEF h
        <4> QED
          BY <3>1, <4>1
      <3>2. CASE i # k + 1
        <4>1. i \in 0..k /\ h[i] = g[i] /\ (i # 0 => i - 1 \in 0..k /\ h[i - 1] = g[i - 1])
          BY <3>2
        <4>2. g[i] = IF i = 0 THEN <<>>
                     ELSE IF s[i] \in set THEN Append(g[i - 1], s[i]) ELSE g[i - 1]
          BY <2>1, <4>1 DEF Keeps
        <4> HIDE DEF h
        <4> QED
          BY <4>1, <4>2
      <3> QED
        BY <3>1, <3>2
    <2>3. Keeps(s, set, k + 1, h)
      <3>1. h = [i \in 0..(k + 1) |-> h[i]]
        OBVIOUS
      <3> HIDE DEF h
      <3> QED
        BY <2>2, <3>1 DEF Keeps
    <2> QED
      BY <2>3
  <1> HIDE DEF S
  <1>3. Nat \subseteq S
    BY <1>1, <1>2, NatSetInduction
  <1> QED
    BY <1>3 DEF S

\* Kept returns elements of the sequence, and one at least if one is in the set.
LEMMA KeptSelects ==
    ASSUME NEW T, NEW s \in Seq(T), NEW set
    PROVE  /\ Kept(s, set) \in Seq(T)
           /\ (\E i \in 1..Len(s) : s[i] \in set) => Kept(s, set) # <<>>
  <1> DEFINE n == Len(s)
  <1>0. n \in Nat /\ \A i \in 1..n : s[i] \in T
    BY LenProperties, ElementOfSeq
  <1> HIDE DEF n
  <1>1. Keeps(s, set, n, CHOOSE g : Keeps(s, set, n, g))
    BY <1>0, KeepsExists, Zenon
  <1>2. \E g : Keeps(s, set, n, g) /\ Kept(s, set) = g[n]
    BY <1>1 DEF Kept, Keeps, n
  <1>3. PICK g : Keeps(s, set, n, g) /\ Kept(s, set) = g[n]
    BY <1>2
  <1> DEFINE S == {k \in Nat : k <= n =>
                      /\ g[k] \in Seq(T)
                      /\ (\E i \in 1..k : s[i] \in set) => g[k] # <<>>}
  <1>4. 0 \in S
    BY <1>0, <1>3 DEF Keeps
  <1>5. ASSUME NEW k \in Nat, k \in S PROVE k + 1 \in S
    <2> SUFFICES ASSUME k + 1 <= n
                 PROVE  /\ g[k + 1] \in Seq(T)
                        /\ (\E i \in 1..(k + 1) : s[i] \in set) => g[k + 1] # <<>>
      OBVIOUS
    <2>1. k + 1 \in 0..n /\ k + 1 \in 1..n /\ k + 1 # 0 /\ (k + 1) - 1 = k /\ k <= n
      BY <1>0
    <2>2. g[k + 1] = IF s[k + 1] \in set THEN Append(g[k], s[k + 1]) ELSE g[k]
      BY <1>3, <2>1 DEF Keeps
    <2>3. s[k + 1] \in T
      BY <1>0, <2>1
    <2>4. /\ g[k] \in Seq(T)
          /\ (\E i \in 1..k : s[i] \in set) => g[k] # <<>>
      BY <1>5, <2>1
    <2>5. CASE s[k + 1] \in set
      <3>1. g[k + 1] = Append(g[k], s[k + 1])
        BY <2>2, <2>5
      <3>2. g[k + 1] \in Seq(T) /\ Len(g[k + 1]) = Len(g[k]) + 1
        BY <2>3, <2>4, <3>1
      <3>3. Len(g[k + 1]) # 0
        BY <2>4, <3>2
      <3> QED
        BY <3>2, <3>3
    <2>6. CASE s[k + 1] \notin set
      <3>1. \A i \in 1..(k + 1) : s[i] \in set => i \in 1..k
        BY <2>6
      <3> QED
        BY <2>2, <2>4, <2>6, <3>1
    <2> QED
      BY <2>5, <2>6
  <1> HIDE DEF S
  <1>6. n \in S
    BY <1>0, <1>4, <1>5, NatSetInduction
  <1> QED
    BY <1>0, <1>3, <1>6 DEF S, n

\* A page is no longer than its limit, and the first page of a list that has
\* an element has one.
LEMMA PageFits ==
    ASSUME NEW T, NEW s \in Seq(T), NEW limit \in Nat \ {0}, NEW offset \in Nat
    PROVE  /\ Page(s, limit, offset) \in Seq(T)
           /\ Len(Page(s, limit, offset)) <= limit
           /\ s # <<>> /\ offset = 0 => Page(s, limit, offset) # <<>>
  <1> DEFINE end == IF offset + limit > Len(s) THEN Len(s) ELSE offset + limit
  <1>1. Len(s) \in Nat /\ \A i \in 1..Len(s) : s[i] \in T
    BY LenProperties, ElementOfSeq
  <1>2. end \in Nat /\ end <= Len(s) /\ end <= offset + limit
    BY <1>1
  <1>3. Page(s, limit, offset) = SubSeq(s, offset + 1, end)
    BY DEF Page
  <1>4. s # <<>> /\ offset = 0 => end >= 1
    <2>1. s # <<>> => Len(s) # 0
      BY EmptySeq
    <2> QED
      BY <1>1, <2>1
  <1> HIDE DEF end
  <1>5. \A i \in (offset + 1)..end : s[i] \in T
    BY <1>1, <1>2
  <1>6. /\ SubSeq(s, offset + 1, end) \in Seq(T)
        /\ Len(SubSeq(s, offset + 1, end)) =
               IF offset + 1 <= end THEN end - (offset + 1) + 1 ELSE 0
    BY <1>2, <1>5, SubSeqProperties
  <1>7. Len(SubSeq(s, offset + 1, end)) <= limit
    BY <1>2, <1>6
  <1>8. s # <<>> /\ offset = 0 => Len(SubSeq(s, offset + 1, end)) # 0
    BY <1>2, <1>4, <1>6
  <1> QED
    BY <1>3, <1>6, <1>7, <1>8, EmptySeq

-----------------------------------------------------------------------------
(***************************************************************************)
(* A listing is well formed and finds a table.  Neither is inductive: what *)
(* a listing finds depends on the rooms that are cached, in flight or      *)
(* still to be warmed being rows of the database, and on the rooms it is   *)
(* owed being open.                                                        *)
(***************************************************************************)
\* The rooms that have a row.
Listed == {rows[i] : i \in 1..Len(rows)}

Listing == [pc : {"idle", "db", "warm", "done"}, limit : 1..MaxLimit, offset : Nat,
            rooms : Seq(Rooms), todo : Seq(Rooms), since : SUBSET Rooms]

\* A listing x in flight: it shows a page of its size, what it has still to
\* warm has a row, what it is owed is open, and its first page is not empty
\* if it is owed a room.
ListingOK(x) ==
    /\ x \in Listing
    /\ Len(x.rooms) <= x.limit
    /\ x.todo \in Seq(Listed)
    /\ \A r \in x.since : IsOpen(r)
    /\ x.pc \in {"warm", "done"} /\ x.offset = 0 /\ x.since # {} => x.rooms # <<>>

\* Every room that exists, is cached or is being written has a row.
RowsInv ==
    /\ rows \in Seq(Rooms)
    /\ status \in [Rooms -> Statuses]
    /\ op \in [Ops -> [room : Rooms \cup {None}, status : Statuses]]
    /\ faults \in 0..MaxFaults
    /\ \A r \in Rooms : status[r] # "unused" => r \in Listed
    /\ cache \subseteq Listed
    /\ \A c \in Ops : op[c] # IdleOp => op[c].room \in Listed

ListInv ==
    /\ RowsInv
    /\ list \in [Listings -> Listing]
    /\ \A l \in Listings : ListingOK(list[l])

\* The parameters of a request, whatever they were, come out in range.
LEMMA NormalInRange ==
    ASSUME NEW limit \in Asked, NEW offset \in Asked
    PROVE  /\ NormalLimit(QueryInt(limit)) \in 1..MaxLimit
           /\ NormalOffset(QueryInt(offset)) \in Nat
  <1>1. \A v \in Int : Narrow(v) \in Int
    BY CacheAssumption DEF Narrow
  <1>2. QueryInt(limit) \in Int /\ QueryInt(offset) \in Int
    BY <1>1, CacheAssumption DEF QueryInt
  <1> QED
    BY <1>2, CacheAssumption DEF NormalLimit, NormalOffset

LEMMA ListedRooms ==
    ASSUME RowsInv
    PROVE  /\ Listed \subseteq Rooms
           /\ rows \in Seq(Listed)
           /\ Seq(Listed) \subseteq Seq(Rooms)
  <1>1. Listed \subseteq Rooms
    BY ElementOfSeq DEF RowsInv, Listed
  <1>2. rows \in Seq(Listed)
    BY SMT DEF RowsInv, Listed
  <1>3. Seq(Listed) \subseteq Seq(Rooms)
    BY <1>1, SeqMonotonic
  <1> QED
    BY <1>1, <1>2, <1>3

\* A listing takes a step that leaves the rooms alone.
LEMMA ListingStep ==
    ASSUME ListInv, NEW l \in Listings, NEW x, ListingOK(x),
           list' = [list EXCEPT ![l] = x],
           UNCHANGED <<rows, status, op>>,
           cache' \subseteq Listed,
           faults' \in 0..MaxFaults
    PROVE  ListInv'
  <1>1. Listed' = Listed
    BY DEF Listed
  <1>2. RowsInv'
    BY <1>1 DEF ListInv, RowsInv
  <1>3. \A y : ListingOK(y)' <=> ListingOK(y)
    BY <1>1 DEF ListingOK, IsOpen
  <1> QED
    BY <1>2, <1>3 DEF ListInv, ListingOK

\* Rooms change their status, are created, cached or taken out of the cache.
LEMMA RoomStep ==
    ASSUME ListInv, RowsInv', Listed \subseteq Listed',
           NEW ended \in SUBSET Rooms,
           \A r \in Rooms \ ended : IsOpen(r) => IsOpen(r)',
           list' = [l \in Listings |-> [list[l] EXCEPT !.since = @ \ ended]]
    PROVE  ListInv'
  <1>1. ASSUME NEW l \in Listings
        PROVE  ListingOK(list[l])'
    <2>1. ListingOK(list[l])
      BY DEF ListInv
    <2>2. list'[l] = [list[l] EXCEPT !.since = @ \ ended]
      OBVIOUS
    <2>3. list[l] \in Listing
      BY <2>1 DEF ListingOK
    <2>4. /\ list'[l] \in Listing
          /\ list'[l].pc = list[l].pc /\ list'[l].limit = list[l].limit
          /\ list'[l].offset = list[l].offset /\ list'[l].rooms = list[l].rooms
          /\ list'[l].todo = list[l].todo /\ list'[l].since = list[l].since \ ended
      BY <2>2, <2>3 DEF Listing
    <2>5. list'[l].todo \in Seq(Listed')
      BY <2>1, <2>4, SeqMonotonic DEF ListingOK
    <2>6. \A r \in list'[l].since : IsOpen(r)'
      BY <2>1, <2>3, <2>4 DEF ListingOK, Listing
    <2>7. list'[l].since # {} => list[l].since # {}
      BY <2>4
    <2> QED
      BY <2>1, <2>4, <2>5, <2>6, <2>7 DEF ListingOK
  <1>2. list' \in [Listings -> Listing]
    BY <1>1 DEF ListingOK
  <1> QED
    BY <1>1, <1>2 DEF ListInv

\* The same, for a step that ends no room.
LEMMA RoomStays ==
    ASSUME ListInv, RowsInv', Listed \subseteq Listed',
           \A r \in Rooms : IsOpen(r) => IsOpen(r)',
           list' = list
    PROVE  ListInv'
  <1>1. ASSUME NEW l \in Listings
        PROVE  list[l] = [list[l] EXCEPT !.since = @ \ {}]
    BY <1>1 DEF ListInv, Listing
  <1>2. list = [l \in Listings |-> [list[l] EXCEPT !.since = @ \ {}]]
    BY <1>1 DEF ListInv
  <1>3. list' = [l \in Listings |-> [list[l] EXCEPT !.since = @ \ {}]]
    BY <1>2, Zenon
  <1>4. {} \in SUBSET Rooms /\ \A r \in Rooms \ {} : IsOpen(r) => IsOpen(r)'
    BY Zenon
  <1> QED
    BY <1>3, <1>4, RoomStep, Zenon

LEMMA CreateKeepsRows ==
    ASSUME ListInv, NEW c \in Ops, NEW r \in Rooms, CreateRoom(c, r)
    PROVE  ListInv'
  <1>1. /\ <<r>> \in Seq(Rooms) /\ rows \in Seq(Rooms)
        /\ rows' = <<r>> \o rows /\ cache' = cache /\ faults' = faults /\ list' = list
        /\ status' = [status EXCEPT ![r] = "open"]
        /\ op' = [op EXCEPT ![c] = [room |-> r, status |-> "open"]]
    BY DEF CreateRoom, Commits, ListInv, RowsInv
  <1>2. /\ rows' \in Seq(Rooms) /\ Len(rows') = Len(rows) + 1
        /\ rows'[1] = r
        /\ \A i \in 1..Len(rows) : rows'[i + 1] = rows[i]
    <2>1. Len(<<r>>) = 1 /\ <<r>>[1] = r /\ Len(rows) \in Nat
      BY <1>1
    <2>2. /\ rows' \in Seq(Rooms)
          /\ Len(rows') = 1 + Len(rows)
          /\ \A i \in 1..(1 + Len(rows)) : rows'[i] = IF i <= 1 THEN <<r>>[i] ELSE rows[i - 1]
      BY <1>1, <2>1, ConcatProperties
    <2>3. rows'[1] = r
      BY <2>1, <2>2
    <2>4. ASSUME NEW i \in 1..Len(rows) PROVE rows'[i + 1] = rows[i]
      <3>1. i + 1 \in 1..(1 + Len(rows)) /\ ~(i + 1 <= 1) /\ (i + 1) - 1 = i
        BY <2>1
      <3> QED
        BY <2>2, <3>1
    <2> QED
      BY <2>1, <2>2, <2>3, <2>4
  <1>3. Len(rows) \in Nat
    BY <1>1
  <1>4. r \in Listed' /\ Listed \subseteq Listed'
    <2>1. 1 \in 1..Len(rows')
      BY <1>2, <1>3
    <2>2. ASSUME NEW q \in Listed PROVE q \in Listed'
      <3>1. PICK i \in 1..Len(rows) : q = rows[i]
        BY DEF Listed
      <3>2. i + 1 \in 1..Len(rows') /\ rows'[i + 1] = q
        BY <1>2, <1>3, <3>1
      <3> QED
        BY <3>2 DEF Listed
    <2> QED
      BY <1>2, <2>1, <2>2 DEF Listed
  <1>5. /\ status' \in [Rooms -> Statuses]
        /\ op' \in [Ops -> [room : Rooms \cup {None}, status : Statuses]]
    BY <1>1 DEF ListInv, RowsInv, Statuses
  <1>6. RowsInv'
    <2>1. \A q \in Rooms : status'[q] # "unused" => q \in Listed'
      BY <1>1, <1>4 DEF ListInv, RowsInv
    <2>2. \A d \in Ops : op'[d] # IdleOp => op'[d].room \in Listed'
      BY <1>1, <1>4 DEF ListInv, RowsInv, IdleOp
    <2>3. cache' \subseteq Listed' /\ faults' \in 0..MaxFaults
      BY <1>1, <1>4 DEF ListInv, RowsInv
    <2> QED
      BY <1>2, <1>5, <2>1, <2>2, <2>3 DEF RowsInv, IdleOp
  <1>7. \A q \in Rooms : IsOpen(q) => IsOpen(q)'
    BY <1>1 DEF IsOpen, ListInv, RowsInv
  <1> QED
    BY <1>1, <1>4, <1>6, <1>7, RoomStays

LEMMA TouchKeepsRows ==
    ASSUME ListInv, NEW c \in Ops, NEW r \in Rooms, TouchRoom(c, r)
    PROVE  ListInv'
  <1>1. /\ UNCHANGED <<rows, status, cache, list, faults>>
        /\ op' = [op EXCEPT ![c] = [room |-> r, status |-> "open"]]
        /\ r \in Listed
    BY DEF TouchRoom, Commits, IsOpen, ListInv, RowsInv
  <1>2. Listed' = Listed
    BY <1>1 DEF Listed
  <1>3. op' \in [Ops -> [room : Rooms \cup {None}, status : Statuses]]
    BY <1>1 DEF ListInv, RowsInv, Statuses
  <1>4. \A d \in Ops : op'[d] # IdleOp => op'[d].room \in Listed'
    BY <1>1, <1>2 DEF ListInv, RowsInv, IdleOp
  <1>5. RowsInv'
    BY <1>1, <1>2, <1>3, <1>4 DEF ListInv, RowsInv, IdleOp
  <1> QED
    BY <1>1, <1>2, <1>5, RoomStays DEF IsOpen

LEMMA EndKeepsRows ==
    ASSUME ListInv, NEW c \in Ops, NEW r \in Rooms, NEW s \in {"closing", "closed"},
           EndRoom(c, r, s)
    PROVE  ListInv'
  <1>1. /\ UNCHANGED <<rows, cache, faults>>
        /\ status' = [status EXCEPT ![r] = s]
        /\ op' = [op EXCEPT ![c] = [room |-> r, status |-> s]]
        /\ list' = [l \in Listings |-> [list[l] EXCEPT !.since = @ \ {r}]]
        /\ r \in Listed
    BY DEF EndRoom, Commits, IsOpen, ListInv, RowsInv
  <1>2. Listed' = Listed
    BY <1>1 DEF Listed
  <1>3. /\ status' \in [Rooms -> Statuses]
        /\ op' \in [Ops -> [room : Rooms \cup {None}, status : Statuses]]
    BY <1>1 DEF ListInv, RowsInv, Statuses
  <1>4. /\ \A q \in Rooms : status'[q] # "unused" => q \in Listed'
        /\ \A d \in Ops : op'[d] # IdleOp => op'[d].room \in Listed'
    BY <1>1, <1>2 DEF ListInv, RowsInv, IdleOp
  <1>5. RowsInv'
    BY <1>1, <1>2, <1>3, <1>4 DEF ListInv, RowsInv, IdleOp
  <1>6. \A q \in Rooms \ {r} : IsOpen(q) => IsOpen(q)'
    BY <1>1 DEF IsOpen, ListInv, RowsInv
  <1>7. {r} \in SUBSET Rooms /\ Listed \subseteq Listed'
    BY <1>2
  <1> QED
    BY <1>1, <1>5, <1>6, <1>7, RoomStep, Zenon

\* A cache write, whether it lands, is lost, or is lost with all the others.
LEMMA WriteKeepsRows ==
    ASSUME ListInv,
           CacheLost \/ \E c \in Ops : CacheWrite(c) \/ CacheWriteLost(c)
    PROVE  ListInv'
  <1>1. /\ UNCHANGED <<rows, status, list>>
        /\ op' = op \/ \E c \in Ops : op' = [op EXCEPT ![c] = IdleOp]
    BY DEF CacheLost, CacheWrite, CacheWriteLost
  <1>2. Listed' = Listed
    BY <1>1 DEF Listed
  <1>3. cache' \subseteq Listed
    BY DEF CacheLost, CacheWrite, CacheWriteLost, SaveRoom, RemoveRoom, ListInv, RowsInv
  <1>4. faults' \in 0..MaxFaults
    BY CacheAssumption
    DEF CacheLost, CacheWrite, CacheWriteLost, Fault, ListInv, RowsInv
  <1>5. op' \in [Ops -> [room : Rooms \cup {None}, status : Statuses]]
    BY <1>1 DEF ListInv, RowsInv, Statuses, IdleOp
  <1>6. \A d \in Ops : op'[d] # IdleOp => op'[d].room \in Listed'
    BY <1>1, <1>2 DEF ListInv, RowsInv
  <1>7. RowsInv'
    BY <1>1, <1>2, <1>3, <1>4, <1>5, <1>6 DEF ListInv, RowsInv, IdleOp
  <1> QED
    BY <1>1, <1>2, <1>7, RoomStays DEF IsOpen

\* A listing that has answered, or failed, is as it was before.
LEMMA IdleListOK ==
    ASSUME RowsInv PROVE ListingOK(IdleList)
  <1>1. 1 \in 1..MaxLimit
    BY CacheAssumption
  <1>2. <<>> \in Seq(Rooms) /\ <<>> \in Seq(Listed) /\ Len(<<>>) = 0
    BY EmptySeq
  <1> QED
    BY <1>1, <1>2 DEF ListingOK, IdleList, Listing

LEMMA ListCachedKeeps ==
    ASSUME ListInv, NEW l \in Listings, NEW limit \in Asked, NEW offset \in Asked,
           ListCached(l, limit, offset)
    PROVE  ListInv'
  <1> DEFINE n == NormalLimit(QueryInt(limit))
             m == NormalOffset(QueryInt(offset))
             open == {r \in Rooms : IsOpen(r)}
             asked == [IdleList EXCEPT !.limit = n, !.offset = m, !.since = open]
             found == Page(CachedRooms, n, m)
             hit == [asked EXCEPT !.pc = "done", !.rooms = found]
             miss == [asked EXCEPT !.pc = "db"]
  <1>1. n \in 1..MaxLimit /\ m \in Nat
    BY NormalInRange
  <1>2. /\ UNCHANGED <<rows, status, cache, op>>
        /\ faults' \in 0..MaxFaults
        /\ \/ CacheHit /\ list' = [list EXCEPT ![l] = hit]
           \/ list' = [list EXCEPT ![l] = miss]
    BY CacheAssumption DEF ListCached, ListInv, RowsInv, Fault
  <1> HIDE DEF n, m
  <1>3. Listed \subseteq Rooms /\ rows \in Seq(Listed) /\ Seq(Listed) \subseteq Seq(Rooms)
    BY ListedRooms DEF ListInv
  <1>4. <<>> \in Seq(Listed) /\ <<>> \in Seq(Rooms) /\ Len(<<>>) = 0
    BY EmptySeq
  <1>5. /\ n \in Nat \ {0} /\ Len(<<>>) <= n
    BY <1>1, <1>4, CacheAssumption
  <1>6. ListingOK(miss)
    BY <1>1, <1>4, <1>5 DEF ListingOK, IdleList, Listing
  <1>7. ASSUME CacheHit PROVE ListingOK(hit)
    <2>1. CachedRooms \in Seq(Listed) /\ CachedRooms # <<>>
      <3>1. \E i \in 1..Len(rows) : rows[i] \in cache
        BY <1>7 DEF CacheHit, ListInv, RowsInv, Listed
      <3> QED
        BY <1>3, <3>1, KeptSelects DEF CachedRooms
    <2>2. /\ found \in Seq(Listed) /\ Len(found) <= n
          /\ m = 0 => found # <<>>
      BY <1>1, <1>5, <2>1, PageFits
    <2> HIDE DEF found
    <2>3. found \in Seq(Rooms)
      BY <1>3, <2>2
    <2> QED
      BY <1>1, <1>4, <2>2, <2>3 DEF ListingOK, IdleList, Listing
  <1>8. cache' \subseteq Listed
    BY <1>2 DEF ListInv, RowsInv
  <1> HIDE DEF hit, miss
  <1> QED
    BY <1>2, <1>6, <1>7, <1>8, ListingStep, Zenon

LEMMA ListDatabaseKeeps ==
    ASSUME ListInv, NEW l \in Listings, ListDatabase(l)
    PROVE  ListInv'
  <1> DEFINE found == ListOpen(list[l].limit, list[l].offset)
             read == [list[l] EXCEPT !.pc = "warm", !.rooms = found, !.todo = found]
  <1>1. ListingOK(list[l]) /\ list[l] \in Listing
    BY DEF ListInv
  <1>2. /\ UNCHANGED <<rows, status, cache, op>>
        /\ faults' \in 0..MaxFaults
        /\ \/ list' = [list EXCEPT ![l] = read]
           \/ list' = [list EXCEPT ![l] = IdleList]
    BY CacheAssumption DEF ListDatabase, ListInv, RowsInv, Fault
  <1>3. Listed \subseteq Rooms /\ rows \in Seq(Listed) /\ Seq(Listed) \subseteq Seq(Rooms)
    BY ListedRooms DEF ListInv
  <1>4. list[l].limit \in Nat \ {0} /\ list[l].offset \in Nat
    BY <1>1, CacheAssumption DEF Listing
  <1>5. /\ OpenRooms \in Seq(Listed)
        /\ list[l].since # {} => OpenRooms # <<>>
    <2>1. ASSUME NEW r \in list[l].since
          PROVE  \E i \in 1..Len(rows) : rows[i] \in {q \in Rooms : IsOpen(q)}
      <3>1. r \in Rooms /\ IsOpen(r)
        BY <1>1 DEF ListingOK, Listing
      <3>2. r \in Listed
        BY <3>1 DEF IsOpen, ListInv, RowsInv
      <3> QED
        BY <3>1, <3>2 DEF Listed
    <2> QED
      BY <1>3, <2>1, KeptSelects DEF OpenRooms
  <1>6. /\ found \in Seq(Listed) /\ Len(found) <= list[l].limit
        /\ list[l].offset = 0 /\ list[l].since # {} => found # <<>>
    BY <1>4, <1>5, PageFits DEF ListOpen
  <1> HIDE DEF found
  <1>7. found \in Seq(Rooms)
    BY <1>3, <1>6
  <1>8. ListingOK(read)
    BY <1>1, <1>6, <1>7 DEF ListingOK, Listing
  <1>9. cache' \subseteq Listed /\ ListingOK(IdleList)
    BY <1>2, IdleListOK DEF ListInv, RowsInv
  <1> HIDE DEF read
  <1> QED
    BY <1>2, <1>8, <1>9, ListingStep, Zenon

LEMMA WarmKeeps ==
    ASSUME ListInv, NEW l \in Listings, Warm(l)
    PROVE  ListInv'
  <1> DEFINE saved == [list[l] EXCEPT !.todo = Tail(@)]
  <1>1. ListingOK(list[l]) /\ list[l] \in Listing
    BY DEF ListInv
  <1>2. list[l].todo \in Seq(Listed) /\ list[l].todo \in Seq(Rooms) /\ list[l].todo # <<>>
    BY <1>1 DEF ListingOK, Listing, Warm
  <1>3. /\ Head(list[l].todo) \in Listed
        /\ Tail(list[l].todo) \in Seq(Listed) /\ Tail(list[l].todo) \in Seq(Rooms)
    BY <1>2, HeadTailProperties
  <1>4. ListingOK(saved)
    BY <1>1, <1>3 DEF ListingOK, Listing
  <1>5. /\ UNCHANGED <<rows, status, op>>
        /\ faults' \in 0..MaxFaults
        /\ cache' \subseteq Listed
    BY <1>3, CacheAssumption DEF Warm, SaveRoom, Fault, ListInv, RowsInv
  <1>6. list' = [list EXCEPT ![l] = saved]
    BY DEF Warm
  <1> HIDE DEF saved
  <1> QED
    BY <1>4, <1>5, <1>6, ListingStep, Zenon

LEMMA AnswerKeeps ==
    ASSUME ListInv, NEW l \in Listings, ListAnswer(l) \/ ListReturns(l)
    PROVE  ListInv'
  <1> DEFINE done == [list[l] EXCEPT !.pc = "done"]
  <1>1. ListingOK(list[l]) /\ list[l] \in Listing
    BY DEF ListInv
  <1>2. list[l].pc = "warm" => ListingOK(done)
    BY <1>1 DEF ListingOK, Listing
  <1>3. /\ UNCHANGED <<rows, status, op>>
        /\ faults' \in 0..MaxFaults
        /\ cache' \subseteq Listed
    BY DEF ListAnswer, ListReturns, ListInv, RowsInv
  <1>4. \/ list[l].pc = "warm" /\ list' = [list EXCEPT ![l] = done]
        \/ list' = [list EXCEPT ![l] = IdleList]
    BY DEF ListAnswer, ListReturns
  <1>5. ListingOK(IdleList)
    BY IdleListOK DEF ListInv
  <1> HIDE DEF done
  <1> QED
    BY <1>2, <1>3, <1>4, <1>5, ListingStep, Zenon

\* The inductive invariant of the listings.
LEMMA ListInvariant == Spec => []ListInv
  <1>1. Init => ListInv
    <2> SUFFICES ASSUME Init PROVE ListInv
      OBVIOUS
    <2>1. rows \in Seq(Rooms)
      BY EmptySeq DEF Init
    <2>2. RowsInv
      BY <2>1, CacheAssumption DEF Init, RowsInv, Statuses, IdleOp
    <2>3. ListingOK(IdleList) /\ IdleList \in Listing
      BY <2>2, IdleListOK DEF ListingOK
    <2> QED
      BY <2>2, <2>3 DEF Init, ListInv
  <1>2. ListInv /\ [Next]_vars => ListInv'
    <2> SUFFICES ASSUME ListInv, [Next]_vars PROVE ListInv'
      OBVIOUS
    <2>1. ASSUME NEW c \in Ops, NEW r \in Rooms, CreateRoom(c, r) PROVE ListInv'
      BY <2>1, CreateKeepsRows
    <2>2. ASSUME NEW c \in Ops, NEW r \in Rooms, TouchRoom(c, r) PROVE ListInv'
      BY <2>2, TouchKeepsRows
    <2>3. ASSUME NEW c \in Ops, NEW r \in Rooms, NEW s \in {"closing", "closed"},
                 EndRoom(c, r, s)
          PROVE  ListInv'
      BY <2>3, EndKeepsRows
    <2>4. CASE CacheLost \/ \E c \in Ops : CacheWrite(c) \/ CacheWriteLost(c)
      BY <2>4, WriteKeepsRows
    <2>5. ASSUME NEW l \in Listings, NEW limit \in Asked, NEW offset \in Asked,
                 ListCached(l, limit, offset)
          PROVE  ListInv'
      BY <2>5, ListCachedKeeps
    <2>6. ASSUME NEW l \in Listings, ListDatabase(l) PROVE ListInv'
      BY <2>6, ListDatabaseKeeps
    <2>7. ASSUME NEW l \in Listings, Warm(l) PROVE ListInv'
      BY <2>7, WarmKeeps
    <2>8. ASSUME NEW l \in Listings, ListAnswer(l) \/ ListReturns(l) PROVE ListInv'
      BY <2>8, AnswerKeeps
    <2>9. CASE UNCHANGED vars
      BY <2>9 DEF vars, ListInv, RowsInv, ListingOK, Listed, IsOpen
    <2> QED
      BY <2>1, <2>2, <2>3, <2>4, <2>5, <2>6, <2>7, <2>8, <2>9 DEF Next
  <1> QED
    BY <1>1, <1>2, PTL DEF Spec

\* queryInt and ListOpenRoomsUseCase: whatever numbers a request asks for, also
\* those that int32 wraps around, a page is cut at an offset that is not
\* negative and holds at most its limit, which is at most maxRoomPageLimit.
THEOREM ListingsTyped == Spec => []TypeOK
  <1>1. ListInv => TypeOK
    <2> SUFFICES ASSUME ListInv PROVE TypeOK
      OBVIOUS
    <2>1. cache \subseteq Rooms
      BY ListedRooms DEF ListInv, RowsInv
    <2>2. /\ list \in [Listings -> Listing]
          /\ \A l \in Listings : Len(list[l].rooms) <= list[l].limit
      BY DEF ListInv, ListingOK
    <2> QED
      BY <2>1, <2>2 DEF ListInv, RowsInv, TypeOK, Statuses, Listing
  <1> QED
    BY <1>1, ListInvariant, PTL

\* list_rooms.go: the first page of a listing is never empty if some room was
\* open from the request to the answer, whether it came from Redis or from
\* PostgreSQL, and whatever failed, was evicted or was warmed in between.
THEOREM ListingsFindATable == Spec => []ListingFindsATable
  <1>1. ListInv => ListingFindsATable
    BY DEF ListInv, ListingOK, ListingFindsATable
  <1> QED
    BY <1>1, ListInvariant, PTL
==============================================================================
