----------------------------- MODULE SeatingProofs -----------------------------
(***************************************************************************)
(* Proofs about Seating, for every set of players, rooms and calls in      *)
(* flight, every size of a table and any number of faults.                 *)
(***************************************************************************)
EXTENDS Seating, FiniteSetTheorems, TLAPS

\* What a call knows of its room while it is in flight.  The room of a create
\* is its own until it is committed; that of a join exists.
CallOK(c) ==
    \/ call[c] = Idle
    \/ /\ call[c].kind = "create" /\ call[c].pc \in {"check", "commit", "undo"}
       /\ call[c].claimed
       /\ call[c].player \in Players /\ call[c].room \in Rooms
       /\ status[call[c].room] = "unused"
       /\ \A d \in Calls : d # c => call[d].room # call[c].room
    \/ /\ call[c].kind = "join" /\ call[c].pc # "idle"
       /\ call[c].claimed => call[c].pc \in {"check", "commit", "undo"}
       /\ call[c].player \in Players /\ call[c].room \in Rooms
       /\ status[call[c].room] # "unused"

CallInv == \A c \in Calls : CallOK(c)

\* GetForUpdate: the row of a room is held by the joins between their check and
\* their commit, and by nobody else.
RowInv ==
    /\ \A r \in Rooms : rowLock[r] # None =>
           /\ call[rowLock[r]].kind = "join" /\ call[rowLock[r]].pc = "commit"
           /\ call[rowLock[r]].room = r
    /\ \A c \in Calls : call[c].kind = "join" /\ call[c].pc = "commit" =>
           rowLock[call[c].room] = c

\* TypeOK with what keeps it: a row lock is never left behind.
TypeInv == TypeOK /\ CallInv /\ RowInv

LEMMA IdleType == Idle \in CallRecords /\ Idle.pc = "idle" /\ Idle.kind = "none"
                  /\ Idle.room = None /\ Idle.player = None /\ ~Idle.claimed
  BY DEF Idle, CallRecords

\* A call that ends leaves every other one as it was.
LEMMA EndsKeeps ==
    ASSUME TypeOK, NEW c \in Calls, Ends(c)
    PROVE  /\ call' \in [Calls -> CallRecords]
           /\ call'[c] = Idle
           /\ \A d \in Calls : d # c => call'[d] = call[d]
  BY IdleType DEF TypeOK, Ends

LEMMA GoesKeeps ==
    ASSUME TypeOK, NEW c \in Calls, NEW pc \in {"bind", "where", "check", "commit", "undo"},
           Goes(c, pc)
    PROVE  /\ call' \in [Calls -> CallRecords]
           /\ call'[c].pc = pc /\ call'[c].kind = call[c].kind
           /\ call'[c].player = call[c].player /\ call'[c].room = call[c].room
           /\ call'[c].claimed = call[c].claimed /\ call'[c].rebind = call[c].rebind
           /\ \A d \in Calls : d # c => call'[d] = call[d]
  BY DEF TypeOK, Goes, CallRecords

LEMMA ClaimedKeeps ==
    ASSUME NEW x \in CallRecords, NEW b \in BOOLEAN,
           NEW y, y = [x EXCEPT !.claimed = b]
    PROVE  /\ y \in CallRecords /\ y.claimed = b
           /\ y.pc = x.pc /\ y.kind = x.kind /\ y.player = x.player
           /\ y.room = x.room /\ y.rebind = x.rebind
  BY DEF CallRecords

LEMMA BindKeeps ==
    ASSUME TypeOK, NEW c \in Calls,
           call' = [call EXCEPT ![c].pc = "check", ![c].claimed = TRUE]
    PROVE  /\ call' \in [Calls -> CallRecords]
           /\ call'[c].pc = "check" /\ call'[c].kind = call[c].kind
           /\ call'[c].player = call[c].player /\ call'[c].room = call[c].room
           /\ call'[c].claimed /\ call'[c].rebind = call[c].rebind
           /\ \A d \in Calls : d # c => call'[d] = call[d]
  <1>1. call \in [Calls -> CallRecords]
    BY DEF TypeOK
  <1> DEFINE mid == [call EXCEPT ![c].pc = "check"]
  <1>2. /\ mid \in [Calls -> CallRecords]
        /\ mid[c].pc = "check" /\ mid[c].kind = call[c].kind
        /\ mid[c].player = call[c].player /\ mid[c].room = call[c].room
        /\ mid[c].rebind = call[c].rebind
        /\ \A d \in Calls : d # c => mid[d] = call[d]
    BY <1>1 DEF CallRecords
  <1>3. call' = [mid EXCEPT ![c].claimed = TRUE]
    BY <1>1
  <1> HIDE DEF mid
  <1>4. mid[c] \in CallRecords
    BY <1>2
  <1>5. call'[c] = [mid[c] EXCEPT !.claimed = TRUE]
        /\ \A d \in Calls : d # c => call'[d] = mid[d]
    BY <1>2, <1>3
  <1>6. /\ call'[c] \in CallRecords /\ call'[c].claimed
        /\ call'[c].pc = mid[c].pc /\ call'[c].kind = mid[c].kind
        /\ call'[c].player = mid[c].player /\ call'[c].room = mid[c].room
        /\ call'[c].rebind = mid[c].rebind
    <2>1. PICK b \in BOOLEAN : b = TRUE
      OBVIOUS
    <2> QED
      BY <1>4, <1>5, <2>1, ClaimedKeeps
  <1>7. call' \in [Calls -> CallRecords]
    BY <1>2, <1>3, <1>5, <1>6
  <1> QED
    BY <1>2, <1>5, <1>6, <1>7

\* Every call stays well formed if one call ends or moves on, and no room that
\* a create is about to insert appears meanwhile.
LEMMA CallsAfterEnd ==
    ASSUME TypeOK, CallInv, NEW c \in Calls, Ends(c),
           \A r \in Rooms : status'[r] = "unused" <=>
                (status[r] = "unused" /\ ~(call[c].kind = "create" /\ call[c].room = r
                                             /\ status' # status))
    PROVE  CallInv'
  <1>1. /\ call'[c] = Idle
        /\ \A d \in Calls : d # c => call'[d] = call[d]
    BY EndsKeeps
  <1> SUFFICES ASSUME NEW d \in Calls, d # c PROVE CallOK(d)'
    BY <1>1 DEF CallInv, CallOK
  <1>2. CallOK(d) /\ CallOK(c)
    BY DEF CallInv
  <1>3. CASE call[d] = Idle
    BY <1>1, <1>3 DEF CallOK
  <1>4. CASE call[d].kind = "create" /\ call[d] # Idle
    BY <1>1, <1>2, <1>4, IdleType, SeatingAssumption DEF CallOK
  <1>5. CASE call[d].kind = "join" /\ call[d] # Idle
    BY <1>1, <1>2, <1>5 DEF CallOK
  <1> QED
    BY <1>2, <1>3, <1>4, <1>5 DEF CallOK

LEMMA CallsAfterMove ==
    ASSUME TypeOK, CallInv, NEW c \in Calls, call[c].pc # "idle",
           NEW pc \in {"bind", "where", "check", "commit", "undo"}, Goes(c, pc),
           call[c].kind = "create" \/ call[c].claimed => pc \in {"check", "commit", "undo"},
           status' = status
    PROVE  CallInv'
  <1>1. /\ call'[c].pc = pc /\ call'[c].kind = call[c].kind
        /\ call'[c].player = call[c].player /\ call'[c].room = call[c].room
        /\ call'[c].claimed = call[c].claimed
        /\ \A d \in Calls : d # c => call'[d] = call[d]
    BY GoesKeeps
  <1>2. \A d \in Calls : call'[d].room = call[d].room
    BY <1>1
  <1>3. CallOK(c)'
    BY <1>1, <1>2, IdleType DEF CallInv, CallOK
  <1>4. \A d \in Calls : d # c => CallOK(d)'
    BY <1>1, <1>2 DEF CallInv, CallOK
  <1> QED
    BY <1>3, <1>4 DEF CallInv

\* The rows stay as they are if no call gets to a join's commit or leaves it.
LEMMA RowsKept ==
    ASSUME TypeOK, RowInv, rowLock' = rowLock, NEW c \in Calls,
           \A d \in Calls : d # c => call'[d] = call[d],
           ~(call[c].kind = "join" /\ call[c].pc = "commit"),
           ~(call'[c].kind = "join" /\ call'[c].pc = "commit")
    PROVE  RowInv'
  <1>1. \A r \in Rooms : rowLock[r] # None => rowLock[r] \in Calls \ {c}
    BY DEF TypeOK, RowInv
  <1> QED
    BY <1>1 DEF RowInv

\* COMMIT and ROLLBACK free the row of their call and no other.
LEMMA RowsFreed ==
    ASSUME TypeOK, CallInv, RowInv, NEW c \in Calls, rowLock' = RowFreed(c),
           \A d \in Calls : d # c => call'[d] = call[d],
           ~(call'[c].kind = "join" /\ call'[c].pc = "commit")
    PROVE  RowInv' /\ rowLock' \in [Rooms -> Calls \cup {None}]
  <1>1. \A r \in Rooms : rowLock'[r] = IF rowLock[r] = c THEN None ELSE rowLock[r]
    BY DEF RowFreed
  <1>2. rowLock' \in [Rooms -> Calls \cup {None}]
    BY DEF RowFreed, TypeOK
  <1>3. \A r \in Rooms : rowLock'[r] # None =>
            rowLock'[r] = rowLock[r] /\ rowLock[r] \in Calls \ {c}
    BY <1>1 DEF TypeOK
  <1>4. \A d \in Calls : call'[d].kind = "join" /\ call'[d].pc = "commit" =>
            d # c /\ call'[d].room \in Rooms /\ rowLock'[call'[d].room] = d
    <2> SUFFICES ASSUME NEW d \in Calls, call'[d].kind = "join", call'[d].pc = "commit"
                 PROVE  d # c /\ call'[d].room \in Rooms /\ rowLock'[call'[d].room] = d
      OBVIOUS
    <2>1. d # c /\ call'[d] = call[d]
      OBVIOUS
    <2>2. call[d].room \in Rooms
      BY <2>1, IdleType DEF CallInv, CallOK
    <2>3. rowLock[call[d].room] = d
      BY <2>1 DEF RowInv
    <2> QED
      BY <1>1, <2>1, <2>2, <2>3
  <1> QED
    BY <1>2, <1>3, <1>4 DEF RowInv

\* What is left to show of TypeInv' once the calls and the rows are.
LEMMA TypeParts ==
    ASSUME status' \in [Rooms -> {"unused", "open", "closing", "closed"}],
           seated' \in [Rooms -> SUBSET Players],
           rowLock' \in [Rooms -> Calls \cup {None}],
           binding' \in [Players -> Rooms \cup {None}],
           joinLock' \in [Rooms -> Calls \cup {None, Gone}],
           call' \in [Calls -> CallRecords],
           releasing' \subseteq Rooms \X Players,
           faults' \subseteq FaultKinds,
           CallInv', RowInv'
    PROVE  TypeInv'
  BY DEF TypeInv, TypeOK, RowInv

LEMMA UnlockType ==
    ASSUME TypeOK, NEW c
    PROVE  /\ Unlock(c) \in [Rooms -> Calls \cup {None, Gone}]
           /\ Abandoned(c) \in [Rooms -> Calls \cup {None, Gone}]
  BY DEF TypeOK, Unlock, Abandoned

LEMMA FaultType ==
    ASSUME TypeOK, NEW kind, Fault(kind)
    PROVE  faults' \subseteq FaultKinds /\ faults \subseteq faults' /\ kind \in faults'
  BY DEF TypeOK, Fault

\* The release of the seat mutex moves no key but this call's.
LEMMA MutexReleased ==
    ASSUME TypeOK, NEW c \in Calls, ReleaseMutex(c)
    PROVE  /\ joinLock' \in [Rooms -> Calls \cup {None, Gone}]
           /\ joinLock' \in {Unlock(c), Abandoned(c)}
           /\ faults' \subseteq FaultKinds /\ faults \subseteq faults'
  BY UnlockType, FaultType DEF ReleaseMutex, TypeOK

LEMMA TypeInvStep ==
    ASSUME TypeInv, [Next]_vars
    PROVE  TypeInv'
  <1>0. /\ TypeOK /\ CallInv /\ RowInv
        /\ status \in [Rooms -> {"unused", "open", "closing", "closed"}]
        /\ seated \in [Rooms -> SUBSET Players]
        /\ rowLock \in [Rooms -> Calls \cup {None}]
        /\ binding \in [Players -> Rooms \cup {None}]
        /\ joinLock \in [Rooms -> Calls \cup {None, Gone}]
        /\ call \in [Calls -> CallRecords]
        /\ releasing \subseteq Rooms \X Players
        /\ faults \subseteq FaultKinds
        /\ \A c \in Calls : CallOK(c)
    BY DEF TypeInv, TypeOK, CallInv
  <1>1. ASSUME NEW c \in Calls, NEW p \in Players, NEW r \in Rooms, Create(c, p, r)
        PROVE  TypeInv'
    <2> DEFINE new == [pc |-> "check", kind |-> "create", player |-> p,
                       room |-> r, rebind |-> FALSE, claimed |-> TRUE]
    <2>1. /\ call[c] = Idle /\ call' = [call EXCEPT ![c] = new]
          /\ status[r] = "unused" /\ \A d \in Calls : call[d].room # r
          /\ UNCHANGED <<status, seated, rowLock, joinLock, releasing, faults>>
      BY <1>0, <1>1 DEF Create, Fresh, CallOK
    <2>2. new \in CallRecords
      BY DEF CallRecords
    <2>3. call'[c] = new /\ \A d \in Calls : d # c => call'[d] = call[d]
      BY <1>0, <2>1
    <2>4. binding' \in [Players -> Rooms \cup {None}]
      BY <1>0, <1>1 DEF Create
    <2>5. CallInv'
      <3>1. \A d \in Calls : d # c => CallOK(d)'
        BY <1>0, <2>1, <2>3, IdleType DEF CallOK
      <3>2. CallOK(c)'
        BY <1>0, <2>1, <2>3 DEF CallOK
      <3> QED
        BY <3>1, <3>2 DEF CallInv
    <2>6. RowInv'
      BY <1>0, <2>1, <2>3, IdleType, RowsKept
    <2> HIDE DEF new
    <2> QED
      BY <1>0, <2>1, <2>2, <2>4, <2>5, <2>6, TypeParts
  <1>2. ASSUME NEW c \in Calls, CreateCheck(c) PROVE TypeInv'
    <2>1. PICK pc \in {"commit", "undo"} : Goes(c, pc)
      BY <1>2 DEF CreateCheck
    <2>2. /\ call[c].kind = "create" /\ call[c].pc = "check"
          /\ UNCHANGED <<status, seated, rowLock, binding, joinLock, releasing, faults>>
      BY <1>2 DEF CreateCheck
    <2>3. CallInv'
      BY <1>0, <2>1, <2>2, CallsAfterMove
    <2>4. RowInv' /\ call' \in [Calls -> CallRecords]
      BY <1>0, <2>1, <2>2, GoesKeeps, RowsKept
    <2> QED
      BY <1>0, <2>2, <2>3, <2>4, TypeParts
  <1>3. ASSUME NEW c \in Calls, CreateCommit(c) PROVE TypeInv'
    <2>1. /\ call[c].kind = "create" /\ call[c].pc = "commit" /\ Ends(c)
          /\ status' = [status EXCEPT ![call[c].room] = "open"]
          /\ seated' = [seated EXCEPT ![call[c].room] = {call[c].player}]
          /\ UNCHANGED <<rowLock, binding, joinLock, releasing, faults>>
      BY <1>3 DEF CreateCommit
    <2>2. /\ call[c].player \in Players /\ call[c].room \in Rooms
          /\ status[call[c].room] = "unused"
      BY <1>0, <2>1, IdleType DEF CallOK
    <2>3. /\ status' \in [Rooms -> {"unused", "open", "closing", "closed"}]
          /\ seated' \in [Rooms -> SUBSET Players]
          /\ status' # status
      BY <1>0, <2>1, <2>2
    <2>4. CallInv'
      BY <1>0, <2>1, <2>2, <2>3, CallsAfterEnd
    <2>5. RowInv' /\ call' \in [Calls -> CallRecords]
      BY <1>0, <2>1, EndsKeeps, IdleType, RowsKept
    <2> QED
      BY <1>0, <2>1, <2>3, <2>4, <2>5, TypeParts
  <1>4. ASSUME NEW c \in Calls, NEW p \in Players, NEW r \in Rooms, Join(c, p, r)
        PROVE  TypeInv'
    <2> DEFINE new == [pc |-> "lock", kind |-> "join", player |-> p,
                       room |-> r, rebind |-> binding[p] = None, claimed |-> FALSE]
    <2>1. /\ call[c] = Idle /\ call' = [call EXCEPT ![c] = new]
          /\ status[r] # "unused"
          /\ UNCHANGED <<status, seated, rowLock, binding, joinLock, releasing, faults>>
      BY <1>0, <1>4 DEF Join, CallOK
    <2>2. new \in CallRecords
      BY DEF CallRecords
    <2>3. call'[c] = new /\ \A d \in Calls : d # c => call'[d] = call[d]
      BY <1>0, <2>1
    <2>5. CallInv'
      <3>1. \A d \in Calls : d # c => CallOK(d)'
        BY <1>0, <2>1, <2>3, IdleType DEF CallOK
      <3>2. CallOK(c)'
        BY <1>0, <2>1, <2>3 DEF CallOK
      <3> QED
        BY <3>1, <3>2 DEF CallInv
    <2>6. RowInv'
      BY <1>0, <2>1, <2>3, IdleType, RowsKept
    <2> HIDE DEF new
    <2> QED
      BY <1>0, <2>1, <2>2, <2>5, <2>6, TypeParts
  <1>5. ASSUME NEW c \in Calls, JoinLock(c) PROVE TypeInv'
    <2>1. /\ call[c].pc = "lock" /\ call[c].kind = "join" /\ call[c].room \in Rooms
          /\ ~call[c].claimed
          /\ UNCHANGED <<status, seated, rowLock, binding, releasing, faults>>
      BY <1>0, <1>5, IdleType DEF JoinLock, CallOK
    <2>2. ASSUME NEW pc \in {"bind", "check"}, Goes(c, pc),
                 joinLock' = [joinLock EXCEPT ![call[c].room] = c]
          PROVE  TypeInv'
      <3>1. CallInv'
        BY <1>0, <2>1, <2>2, CallsAfterMove
      <3>2. RowInv' /\ call' \in [Calls -> CallRecords]
        BY <1>0, <2>1, <2>2, GoesKeeps, RowsKept
      <3>3. joinLock' \in [Rooms -> Calls \cup {None, Gone}]
        BY <1>0, <2>2
      <3> QED
        BY <1>0, <2>1, <3>1, <3>2, <3>3, TypeParts
    <2>3. CASE Ends(c) /\ UNCHANGED joinLock
      <3>1. CallInv'
        BY <1>0, <2>1, <2>3, CallsAfterEnd
      <3>2. RowInv' /\ call' \in [Calls -> CallRecords]
        BY <1>0, <2>1, <2>3, EndsKeeps, IdleType, RowsKept
      <3> QED
        BY <1>0, <2>1, <2>3, <3>1, <3>2, TypeParts
    <2> QED
      BY <1>5, <2>2, <2>3 DEF JoinLock
  <1>6. ASSUME NEW c \in Calls, JoinBind(c) PROVE TypeInv'
    <2>1. /\ call[c].pc = "bind" /\ call[c].kind = "join" /\ call[c].room \in Rooms
          /\ call[c].player \in Players /\ ~call[c].claimed
          /\ status[call[c].room] # "unused"
          /\ UNCHANGED <<status, seated, rowLock, joinLock, releasing, faults>>
      BY <1>0, <1>6, IdleType DEF JoinBind, CallOK
    <2>2. CASE /\ binding' = [binding EXCEPT ![call[c].player] = call[c].room]
               /\ call' = [call EXCEPT ![c].pc = "check", ![c].claimed = TRUE]
      <3>1. call' \in [Calls -> CallRecords]
            /\ \A d \in Calls : d # c => call'[d] = call[d]
        BY <1>0, <2>2, BindKeeps
      <3>2. /\ call'[c].pc = "check" /\ call'[c].kind = "join"
            /\ call'[c].room = call[c].room /\ call'[c].player = call[c].player
        BY <1>0, <2>1, <2>2, BindKeeps
      <3>3. \A d \in Calls : call'[d].room = call[d].room
        BY <3>1, <3>2
      <3>4. CallInv'
        <4>1. CallOK(c)'
          BY <2>1, <3>2 DEF CallOK
        <4>2. \A d \in Calls : d # c => CallOK(d)'
          BY <1>0, <2>1, <3>1, <3>3 DEF CallOK
        <4> QED
          BY <4>1, <4>2 DEF CallInv
      <3>5. RowInv'
        BY <1>0, <2>1, <3>1, <3>2, RowsKept
      <3>6. binding' \in [Players -> Rooms \cup {None}]
        BY <1>0, <2>1, <2>2
      <3> QED
        BY <1>0, <2>1, <3>1, <3>4, <3>5, <3>6, TypeParts
    <2>3. CASE Goes(c, "where") /\ UNCHANGED binding
      <3>1. CallInv'
        BY <1>0, <2>1, <2>3, CallsAfterMove
      <3>2. RowInv' /\ call' \in [Calls -> CallRecords]
        BY <1>0, <2>1, <2>3, GoesKeeps, RowsKept
      <3> QED
        BY <1>0, <2>1, <2>3, <3>1, <3>2, TypeParts
    <2> QED
      BY <1>6, <2>2, <2>3 DEF JoinBind
  <1>7. ASSUME NEW c \in Calls, JoinWhere(c) PROVE TypeInv'
    <2>1. PICK pc \in {"check", "undo"} : Goes(c, pc)
      BY <1>7 DEF JoinWhere
    <2>2. /\ call[c].pc = "where"
          /\ UNCHANGED <<status, seated, rowLock, binding, joinLock, releasing, faults>>
      BY <1>7 DEF JoinWhere
    <2>3. CallInv'
      BY <1>0, <2>1, <2>2, CallsAfterMove
    <2>4. RowInv' /\ call' \in [Calls -> CallRecords]
      BY <1>0, <2>1, <2>2, GoesKeeps, RowsKept
    <2> QED
      BY <1>0, <2>2, <2>3, <2>4, TypeParts
  <1>8. ASSUME NEW c \in Calls, JoinCheck(c) PROVE TypeInv'
    <2>1. /\ call[c].pc = "check" /\ call[c].kind = "join" /\ call[c].room \in Rooms
          /\ rowLock[call[c].room] = None
          /\ UNCHANGED <<status, seated, binding, releasing>>
      BY <1>0, <1>8, IdleType DEF JoinCheck, CallOK
    <2>2. CASE /\ Goes(c, "commit") /\ rowLock' = [rowLock EXCEPT ![call[c].room] = c]
               /\ UNCHANGED <<joinLock, faults>>
      <3>1. CallInv'
        BY <1>0, <2>1, <2>2, CallsAfterMove
      <3>2. /\ call' \in [Calls -> CallRecords]
            /\ call'[c].pc = "commit" /\ call'[c].kind = "join"
            /\ call'[c].room = call[c].room
            /\ \A d \in Calls : d # c => call'[d] = call[d]
        BY <1>0, <2>1, <2>2, GoesKeeps
      <3>3. rowLock' \in [Rooms -> Calls \cup {None}]
        BY <1>0, <2>2
      <3>4. RowInv'
        <4>1. \A r \in Rooms : rowLock'[r] =
                  IF r = call[c].room THEN c ELSE rowLock[r]
          BY <1>0, <2>2
        <4>2. \A r \in Rooms : rowLock[r] # None => rowLock[r] \in Calls \ {c}
          BY <1>0, <2>1 DEF RowInv
        <4>3. \A r \in Rooms : rowLock'[r] # None =>
                 /\ call'[rowLock'[r]].kind = "join" /\ call'[rowLock'[r]].pc = "commit"
                 /\ call'[rowLock'[r]].room = r
          BY <1>0, <3>2, <4>1, <4>2 DEF RowInv
        <4>4. \A d \in Calls : call'[d].kind = "join" /\ call'[d].pc = "commit" =>
                 rowLock'[call'[d].room] = d
          <5> SUFFICES ASSUME NEW d \in Calls, d # c, call[d].kind = "join",
                              call[d].pc = "commit"
                       PROVE  rowLock'[call[d].room] = d
            BY <2>1, <3>2, <4>1
          <5>1. call[d].room \in Rooms /\ rowLock[call[d].room] = d
            BY <1>0, IdleType DEF CallOK, RowInv
          <5>2. call[d].room # call[c].room
            BY <2>1, <5>1, SeatingAssumption
          <5> QED
            BY <4>1, <5>1, <5>2
        <4> QED
          BY <4>3, <4>4 DEF RowInv
      <3> QED
        BY <1>0, <2>1, <2>2, <3>1, <3>2, <3>3, <3>4, TypeParts
    <2>3. CASE Ends(c) /\ ReleaseMutex(c) /\ UNCHANGED rowLock
      <3>1. CallInv'
        BY <1>0, <2>1, <2>3, CallsAfterEnd
      <3>2. RowInv' /\ call' \in [Calls -> CallRecords]
        BY <1>0, <2>1, <2>3, EndsKeeps, IdleType, RowsKept
      <3>3. joinLock' \in [Rooms -> Calls \cup {None, Gone}] /\ faults' \subseteq FaultKinds
        BY <1>0, <2>3, MutexReleased
      <3> QED
        BY <1>0, <2>1, <2>3, <3>1, <3>2, <3>3, TypeParts
    <2>4. CASE Goes(c, "undo") /\ UNCHANGED <<rowLock, joinLock, faults>>
      <3>1. CallInv'
        BY <1>0, <2>1, <2>4, CallsAfterMove
      <3>2. RowInv' /\ call' \in [Calls -> CallRecords]
        BY <1>0, <2>1, <2>4, GoesKeeps, RowsKept
      <3> QED
        BY <1>0, <2>1, <2>4, <3>1, <3>2, TypeParts
    <2> QED
      BY <1>8, <2>2, <2>3, <2>4 DEF JoinCheck
  <1>9. ASSUME NEW c \in Calls, JoinCommit(c) PROVE TypeInv'
    <2>1. /\ call[c].pc = "commit" /\ call[c].kind = "join" /\ Ends(c)
          /\ rowLock' = RowFreed(c) /\ ReleaseMutex(c)
          /\ seated' = [seated EXCEPT ![call[c].room] = @ \cup {call[c].player}]
          /\ UNCHANGED <<status, binding, releasing>>
      BY <1>9 DEF JoinCommit
    <2>2. call[c].room \in Rooms /\ call[c].player \in Players
      BY <1>0, <2>1, IdleType DEF CallOK
    <2>3. CallInv'
      BY <1>0, <2>1, CallsAfterEnd
    <2>4. /\ RowInv' /\ rowLock' \in [Rooms -> Calls \cup {None}]
          /\ call' \in [Calls -> CallRecords]
      BY <1>0, <2>1, EndsKeeps, IdleType, RowsFreed
    <2>5. joinLock' \in [Rooms -> Calls \cup {None, Gone}] /\ faults' \subseteq FaultKinds
      BY <1>0, <2>1, MutexReleased
    <2>6. seated' \in [Rooms -> SUBSET Players]
      BY <1>0, <2>1, <2>2
    <2> QED
      BY <1>0, <2>1, <2>3, <2>4, <2>5, <2>6, TypeParts
  <1>10. ASSUME NEW c \in Calls, Undo(c) PROVE TypeInv'
    <2>1. /\ call[c].pc = "undo" /\ Ends(c)
          /\ UNCHANGED <<status, seated, rowLock, releasing>>
      BY <1>10 DEF Undo
    <2>2. CallInv'
      BY <1>0, <2>1, CallsAfterEnd
    <2>3. RowInv' /\ call' \in [Calls -> CallRecords]
      BY <1>0, <2>1, EndsKeeps, IdleType, RowsKept
    <2>4. joinLock' \in [Rooms -> Calls \cup {None, Gone}] /\ faults' \subseteq FaultKinds
      BY <1>0, <1>10, MutexReleased, UnlockType, FaultType DEF Undo
    <2>5. binding' \in [Players -> Rooms \cup {None}]
      BY <1>0, <1>10 DEF Undo
    <2> QED
      BY <1>0, <2>1, <2>2, <2>3, <2>4, <2>5, TypeParts
  <1>11. ASSUME NEW c \in Calls, TxFails(c) PROVE TypeInv'
    <2>1. /\ call[c].pc \in {"check", "commit"} /\ Goes(c, "undo")
          /\ rowLock' = RowFreed(c) /\ faults' \subseteq FaultKinds
          /\ UNCHANGED <<status, seated, binding, joinLock, releasing>>
      BY <1>0, <1>11 DEF TxFails, Fault
    <2>2. CallInv'
      BY <1>0, <2>1, CallsAfterMove
    <2>3. /\ RowInv' /\ rowLock' \in [Rooms -> Calls \cup {None}]
          /\ call' \in [Calls -> CallRecords]
      BY <1>0, <2>1, GoesKeeps, RowsFreed
    <2> QED
      BY <1>0, <2>1, <2>2, <2>3, TypeParts
  <1>12. ASSUME NEW c \in Calls, Crash(c) PROVE TypeInv'
    <2>1. /\ call[c].pc # "idle" /\ Ends(c)
          /\ rowLock' = RowFreed(c) /\ faults' \subseteq FaultKinds
          /\ joinLock' \in [Rooms -> Calls \cup {None, Gone}]
          /\ UNCHANGED <<status, seated, binding, releasing>>
      BY <1>0, <1>12, UnlockType DEF Crash, Fault
    <2>2. CallInv'
      BY <1>0, <2>1, CallsAfterEnd
    <2>3. /\ RowInv' /\ rowLock' \in [Rooms -> Calls \cup {None}]
          /\ call' \in [Calls -> CallRecords]
      BY <1>0, <2>1, EndsKeeps, IdleType, RowsFreed
    <2> QED
      BY <1>0, <2>1, <2>2, <2>3, TypeParts
  <1>calls. ASSUME call' = call, rowLock' = rowLock,
                   \A r \in Rooms : status'[r] = "unused" <=> status[r] = "unused"
            PROVE  CallInv' /\ RowInv'
    <2>1. RowInv'
      BY <1>0, <1>calls DEF RowInv
    <2>2. CallInv'
      BY <1>0, <1>calls DEF CallInv, CallOK
    <2> QED
      BY <2>1, <2>2
  <1>13. ASSUME NEW p \in Players, Unbound(p) PROVE TypeInv'
    <2>1. /\ binding' \in [Players -> Rooms \cup {None}] /\ faults' \subseteq FaultKinds
          /\ UNCHANGED <<status, seated, rowLock, joinLock, call, releasing>>
      BY <1>0, <1>13 DEF Unbound, Fault
    <2> QED
      BY <1>0, <1>calls, <2>1, TypeParts
  <1>14. ASSUME NEW r \in Rooms, LockExpires(r) PROVE TypeInv'
    <2>1. /\ joinLock' \in [Rooms -> Calls \cup {None, Gone}]
          /\ faults' \subseteq FaultKinds
          /\ UNCHANGED <<status, seated, rowLock, binding, call, releasing>>
      BY <1>0, <1>14 DEF LockExpires, Fault
    <2> QED
      BY <1>0, <1>calls, <2>1, TypeParts
  <1>15. ASSUME NEW r \in Rooms, EndRoom(r) PROVE TypeInv'
    <2>1. /\ status' \in [Rooms -> {"unused", "open", "closing", "closed"}]
          /\ \A q \in Rooms : status'[q] = "unused" <=> status[q] = "unused"
          /\ releasing' \subseteq Rooms \X Players
          /\ UNCHANGED <<seated, rowLock, binding, joinLock, call, faults>>
      BY <1>0, <1>15 DEF EndRoom
    <2> QED
      BY <1>0, <1>calls, <2>1, TypeParts
  <1>16. ASSUME NEW r \in Rooms, NEW p \in Players, Release(r, p) PROVE TypeInv'
    <2>1. /\ binding' \in [Players -> Rooms \cup {None}]
          /\ releasing' \subseteq Rooms \X Players /\ faults' \subseteq FaultKinds
          /\ UNCHANGED <<status, seated, rowLock, joinLock, call>>
      BY <1>0, <1>16, FaultType DEF Release
    <2> QED
      BY <1>0, <1>calls, <2>1, TypeParts
  <1>17. CASE UNCHANGED vars
    BY <1>0, <1>17, <1>calls, TypeParts DEF vars
  <1>18. ASSUME NEW p \in Players, NEW r \in Rooms, CreateFails(p, r) PROVE TypeInv'
    <2>1. /\ binding' \in [Players -> Rooms \cup {None}] /\ faults' \subseteq FaultKinds
          /\ UNCHANGED <<status, seated, rowLock, joinLock, call, releasing>>
      BY <1>0, <1>18, FaultType DEF CreateFails
    <2> QED
      BY <1>0, <1>calls, <2>1, TypeParts
  <1>19. ASSUME NEW r \in Rooms, CloserDies(r) PROVE TypeInv'
    <2>1. /\ releasing' \subseteq Rooms \X Players /\ faults' \subseteq FaultKinds
          /\ UNCHANGED <<status, seated, rowLock, binding, joinLock, call>>
      BY <1>0, <1>19, FaultType DEF CloserDies
    <2> QED
      BY <1>0, <1>calls, <2>1, TypeParts
  <1>20. ASSUME NEW c \in Calls, JoinFails(c) PROVE TypeInv'
    <2>1. /\ call[c].pc \in {"lock", "bind", "where"} /\ call[c].kind = "join"
          /\ call[c].room \in Rooms /\ call[c].player \in Players /\ ~call[c].claimed
          /\ faults' \subseteq FaultKinds
          /\ UNCHANGED <<status, seated, rowLock, releasing>>
      BY <1>0, <1>20, FaultType, IdleType DEF JoinFails, CallOK
    <2>2. /\ binding' \in [Players -> Rooms \cup {None}]
          /\ joinLock' \in [Rooms -> Calls \cup {None, Gone}]
      BY <1>0, <1>20, <2>1 DEF JoinFails
    <2>3. CASE Ends(c)
      <3>1. CallInv'
        BY <1>0, <2>1, <2>3, CallsAfterEnd
      <3>2. RowInv' /\ call' \in [Calls -> CallRecords]
        BY <1>0, <2>1, <2>3, EndsKeeps, IdleType, RowsKept
      <3> QED
        BY <1>0, <2>1, <2>2, <3>1, <3>2, TypeParts
    <2>4. ASSUME NEW pc \in {"undo", "where"}, Goes(c, pc) PROVE TypeInv'
      <3>1. CallInv'
        BY <1>0, <2>1, <2>4, CallsAfterMove
      <3>2. RowInv' /\ call' \in [Calls -> CallRecords]
        BY <1>0, <2>1, <2>4, GoesKeeps, RowsKept
      <3> QED
        BY <1>0, <2>1, <2>2, <3>1, <3>2, TypeParts
    <2> QED
      BY <1>20, <2>3, <2>4 DEF JoinFails
  <1> QED
    BY <1>1, <1>2, <1>3, <1>4, <1>5, <1>6, <1>7, <1>8, <1>9, <1>10, <1>11, <1>12,
       <1>13, <1>14, <1>15, <1>16, <1>17, <1>18, <1>19, <1>20 DEF Next

LEMMA TypeInvariant == Spec => []TypeInv
  <1>1. Init => TypeInv
    <2> SUFFICES ASSUME Init PROVE TypeInv
      OBVIOUS
    <2>1. CallInv /\ RowInv
      BY IdleType DEF Init, CallInv, CallOK, RowInv
    <2> QED
      BY <2>1, IdleType DEF Init, TypeInv, TypeOK
  <1>2. TypeInv /\ [Next]_vars => TypeInv'
    BY TypeInvStep
  <1> QED
    BY <1>1, <1>2, PTL DEF Spec

\* Type correctness; PostgreSQL's row lock of a room never outlives the join
\* that took it, whatever fails.
THEOREM SeatingTyped == Spec => []TypeOK
  <1>1. TypeInv => TypeOK
    BY DEF TypeInv
  <1> QED
    BY <1>1, TypeInvariant, PTL
-----------------------------------------------------------------------------
(***************************************************************************)
(* The seats of a room, which the row lock alone guards.                   *)
(***************************************************************************)
\* A join between its check and its commit: what it read under the row lock
\* still holds, whatever the mutex and the binding did meanwhile.
CommitOK(c) ==
    call[c].kind = "join" /\ call[c].pc = "commit" =>
        /\ status[call[c].room] = "open"
        /\ call[c].player \notin seated[call[c].room]
        /\ Cardinality(seated[call[c].room]) < MaxPlayers

SeatInv ==
    /\ \A c \in Calls : CommitOK(c)
    /\ \A r \in Rooms : /\ IsFiniteSet(seated[r])
                        /\ Cardinality(seated[r]) <= MaxPlayers
                        /\ status[r] = "unused" => seated[r] = {}

\* The three transactions that write a room or its seats.
LEMMA SeatWrites ==
    ASSUME [Next]_vars
    PROVE  \/ UNCHANGED <<status, seated>>
           \/ \E c \in Calls : CreateCommit(c) \/ JoinCommit(c)
           \/ \E r \in Rooms : EndRoom(r)
  BY DEF Next, vars, Create, CreateCheck, Join, JoinLock, JoinBind, JoinWhere,
     JoinCheck, Undo, TxFails, Crash, Unbound, LockExpires, Release, CreateFails,
     JoinFails, CloserDies

\* What one step does to the calls: nothing, or one of them moves.
LEMMA OneCallMoves ==
    ASSUME TypeInv, [Next]_vars
    PROVE  \/ call' = call
           \/ \E c \in Calls :
                 /\ \A d \in Calls : d # c => call'[d] = call[d]
                 /\ \/ \E p \in Players, r \in Rooms : Create(c, p, r) \/ Join(c, p, r)
                    \/ CreateCheck(c) \/ CreateCommit(c)
                    \/ JoinLock(c) \/ JoinBind(c) \/ JoinWhere(c) \/ JoinCheck(c)
                    \/ JoinCommit(c) \/ Undo(c) \/ TxFails(c) \/ Crash(c) \/ JoinFails(c)
  <1>0. call \in [Calls -> CallRecords]
    BY DEF TypeInv, TypeOK
  <1>1. ASSUME NEW c \in Calls, NEW p \in Players, NEW r \in Rooms,
               Create(c, p, r) \/ Join(c, p, r)
        PROVE  \A d \in Calls : d # c => call'[d] = call[d]
    BY <1>0, <1>1 DEF Create, Join
  <1>2. ASSUME NEW c \in Calls,
               \/ CreateCheck(c) \/ CreateCommit(c)
               \/ JoinLock(c) \/ JoinBind(c) \/ JoinWhere(c) \/ JoinCheck(c)
               \/ JoinCommit(c) \/ Undo(c) \/ TxFails(c) \/ Crash(c) \/ JoinFails(c)
        PROVE  \A d \in Calls : d # c => call'[d] = call[d]
    <2>1. ASSUME Ends(c) PROVE \A d \in Calls : d # c => call'[d] = call[d]
      BY <1>0, <2>1 DEF Ends
    <2>2. ASSUME NEW pc, Goes(c, pc)
          PROVE  \A d \in Calls : d # c => call'[d] = call[d]
      BY <1>0, <2>2 DEF Goes
    <2>3. ASSUME call' = [call EXCEPT ![c].pc = "check", ![c].claimed = TRUE]
          PROVE  \A d \in Calls : d # c => call'[d] = call[d]
      BY <2>3, BindKeeps DEF TypeInv
    <2> QED
      BY <1>2, <2>1, <2>2, <2>3 DEF CreateCheck, CreateCommit, JoinLock, JoinBind,
         JoinWhere, JoinCheck, JoinCommit, Undo, TxFails, Crash, JoinFails
  <1>3. CASE (\E p \in Players : Unbound(p))
             \/ (\E r \in Rooms : LockExpires(r) \/ EndRoom(r) \/ CloserDies(r))
             \/ (\E r \in Rooms, p \in Players : Release(r, p) \/ CreateFails(p, r))
             \/ UNCHANGED vars
    BY <1>3 DEF Unbound, LockExpires, EndRoom, Release, CreateFails, CloserDies, vars
  <1> QED
    BY <1>1, <1>2, <1>3 DEF Next

\* A join is at its commit because it was, or because its check let it through.
LEMMA CommitFromCheck ==
    ASSUME TypeInv, [Next]_vars, NEW c \in Calls,
           call'[c].kind = "join", call'[c].pc = "commit"
    PROVE  \/ call'[c] = call[c]
           \/ /\ JoinCheck(c) /\ Joinable(call[c].player, call[c].room)
              /\ call'[c].player = call[c].player /\ call'[c].room = call[c].room
  <1>0. /\ TypeOK /\ call \in [Calls -> CallRecords]
        /\ Idle.pc # "commit"
    BY IdleType DEF TypeInv, TypeOK
  <1>ends. ~Ends(c)
    BY <1>0, EndsKeeps
  <1>goes. \A pc \in {"bind", "where", "check", "undo"} : ~Goes(c, pc)
    BY <1>0, GoesKeeps
  <1>kind. ASSUME NEW pc \in {"commit", "undo"}, Goes(c, pc)
           PROVE  call[c].kind = "join" /\ call'[c].player = call[c].player
                  /\ call'[c].room = call[c].room
    BY <1>0, <1>kind, GoesKeeps
  <1>1. ASSUME NEW p \in Players, NEW r \in Rooms PROVE ~(Create(c, p, r) \/ Join(c, p, r))
    BY <1>0 DEF Create, Join
  <1>2. ~CreateCheck(c)
    BY <1>kind DEF CreateCheck
  <1>3. ~(\/ CreateCommit(c) \/ JoinCommit(c) \/ Undo(c) \/ TxFails(c) \/ Crash(c)
          \/ JoinLock(c) \/ JoinWhere(c) \/ JoinFails(c))
    BY <1>ends, <1>goes DEF CreateCommit, JoinCommit, Undo, TxFails, Crash, JoinLock,
       JoinWhere, JoinFails
  <1>4. ~JoinBind(c)
    BY <1>0, <1>goes, BindKeeps DEF JoinBind
  <1>5. JoinCheck(c) => /\ Joinable(call[c].player, call[c].room)
                        /\ call'[c].player = call[c].player
                        /\ call'[c].room = call[c].room
    BY <1>ends, <1>goes, <1>kind DEF JoinCheck
  <1> QED
    BY <1>1, <1>2, <1>3, <1>4, <1>5, OneCallMoves

LEMMA SeatInvStep ==
    ASSUME TypeInv, SeatInv, [Next]_vars
    PROVE  SeatInv'
  <1>0. /\ TypeOK /\ CallInv /\ RowInv
        /\ status \in [Rooms -> {"unused", "open", "closing", "closed"}]
        /\ seated \in [Rooms -> SUBSET Players]
        /\ \A c \in Calls : CallOK(c) /\ CommitOK(c)
    BY DEF TypeInv, TypeOK, CallInv, SeatInv
  \* A join at its commit keeps its room as it read it.
  <1>1. ASSUME NEW c \in Calls, call'[c] = call[c],
               call[c].kind = "join", call[c].pc = "commit"
        PROVE  status'[call[c].room] = status[call[c].room]
               /\ seated'[call[c].room] = seated[call[c].room]
    <2>1. /\ call[c].room \in Rooms /\ rowLock[call[c].room] = c
          /\ status[call[c].room] # "unused"
      BY <1>0, <1>1, IdleType DEF CallOK, RowInv
    <2>2. ASSUME NEW d \in Calls, CreateCommit(d) PROVE call[d].room # call[c].room
      BY <1>0, <2>1, <2>2, IdleType DEF CreateCommit, CallOK
    <2>3. ASSUME NEW d \in Calls, JoinCommit(d) PROVE call[d].room # call[c].room
      <3>1. d # c
        BY <1>0, <1>1, <2>3, EndsKeeps, IdleType DEF JoinCommit
      <3>2. rowLock[call[d].room] = d
        BY <1>0, <2>3 DEF JoinCommit, RowInv
      <3> QED
        BY <2>1, <3>1, <3>2
    <2>4. ASSUME NEW r \in Rooms, EndRoom(r) PROVE r # call[c].room
      BY <2>1, <2>4, SeatingAssumption DEF EndRoom
    <2>5. CASE \E d \in Calls : CreateCommit(d)
      BY <1>0, <2>1, <2>2, <2>5 DEF CreateCommit
    <2>6. CASE \E d \in Calls : JoinCommit(d)
      BY <1>0, <2>1, <2>3, <2>6 DEF JoinCommit
    <2>7. CASE \E r \in Rooms : EndRoom(r)
      BY <1>0, <2>1, <2>4, <2>7 DEF EndRoom
    <2> QED
      BY <2>5, <2>6, <2>7, SeatWrites
  <1>2. ASSUME NEW c \in Calls PROVE CommitOK(c)'
    <2> SUFFICES ASSUME call'[c].kind = "join", call'[c].pc = "commit"
                 PROVE  /\ status'[call'[c].room] = "open"
                        /\ call'[c].player \notin seated'[call'[c].room]
                        /\ Cardinality(seated'[call'[c].room]) < MaxPlayers
      BY DEF CommitOK
    <2>1. CASE call'[c] = call[c]
      BY <1>0, <1>1, <2>1 DEF CommitOK
    <2>2. CASE /\ JoinCheck(c) /\ Joinable(call[c].player, call[c].room)
               /\ call'[c].player = call[c].player /\ call'[c].room = call[c].room
      BY <2>2 DEF JoinCheck, Joinable
    <2> QED
      BY <2>1, <2>2, CommitFromCheck
  <1>3. ASSUME NEW r \in Rooms
        PROVE  /\ IsFiniteSet(seated'[r]) /\ Cardinality(seated'[r]) <= MaxPlayers
               /\ status'[r] = "unused" => seated'[r] = {}
    <2>0. /\ IsFiniteSet(seated[r]) /\ Cardinality(seated[r]) <= MaxPlayers
          /\ status[r] = "unused" => seated[r] = {}
      BY DEF SeatInv
    <2>1. CASE UNCHANGED <<status, seated>>
      BY <2>0, <2>1
    <2>2. ASSUME NEW c \in Calls, CreateCommit(c)
          PROVE  /\ IsFiniteSet(seated'[r]) /\ Cardinality(seated'[r]) <= MaxPlayers
                 /\ status'[r] = "unused" => seated'[r] = {}
      <3>1. CASE r = call[c].room
        <4>1. seated'[r] = {call[c].player} /\ status'[r] = "open"
          BY <1>0, <2>2, <3>1 DEF CreateCommit
        <4>2. IsFiniteSet({call[c].player}) /\ Cardinality({call[c].player}) = 1
          BY FS_Singleton
        <4> QED
          BY <4>1, <4>2, SeatingAssumption
      <3>2. CASE r # call[c].room
        BY <1>0, <2>0, <2>2, <3>2 DEF CreateCommit
      <3> QED
        BY <3>1, <3>2
    <2>3. ASSUME NEW c \in Calls, JoinCommit(c)
          PROVE  /\ IsFiniteSet(seated'[r]) /\ Cardinality(seated'[r]) <= MaxPlayers
                 /\ status'[r] = "unused" => seated'[r] = {}
      <3>1. CASE r = call[c].room
        <4>1. /\ seated'[r] = seated[r] \cup {call[c].player} /\ status'[r] = status[r]
              /\ status[r] = "open" /\ Cardinality(seated[r]) < MaxPlayers
              /\ call[c].player \notin seated[r]
          BY <1>0, <2>3, <3>1 DEF JoinCommit, CommitOK
        <4>2. /\ IsFiniteSet(seated'[r])
              /\ Cardinality(seated'[r]) = Cardinality(seated[r]) + 1
          BY <2>0, <4>1, FS_AddElement
        <4>3. Cardinality(seated[r]) \in Nat
          BY <2>0, FS_CardinalityType
        <4> QED
          BY <4>1, <4>2, <4>3, SeatingAssumption
      <3>2. CASE r # call[c].room
        BY <1>0, <2>0, <2>3, <3>2 DEF JoinCommit
      <3> QED
        BY <3>1, <3>2
    <2>4. ASSUME NEW q \in Rooms, EndRoom(q)
          PROVE  seated' = seated /\ (status'[r] = "unused" => status[r] = "unused")
      BY <1>0, <2>4 DEF EndRoom
    <2> QED
      BY <2>0, <2>1, <2>2, <2>3, <2>4, SeatWrites
  <1> QED
    BY <1>2, <1>3 DEF SeatInv

LEMMA SeatInvariant == Spec => []SeatInv
  <1>1. Init => SeatInv
    BY IdleType, FS_EmptySet, SeatingAssumption DEF Init, SeatInv, CommitOK
  <1>2. TypeInv /\ SeatInv /\ [Next]_vars => SeatInv'
    BY SeatInvStep
  <1> QED
    BY <1>1, <1>2, TypeInvariant, PTL DEF Spec

\* GAME_RULES: a table never has more than MaxPlayers players, for any number of
\* racing joins, lost bindings, expired mutexes, rollbacks and crashes: the row
\* lock is enough.
THEOREM SeatsCapped == Spec => []SeatCap
  <1>1. SeatInv => SeatCap
    BY DEF SeatInv, SeatCap
  <1> QED
    BY <1>1, SeatInvariant, PTL
-----------------------------------------------------------------------------
(***************************************************************************)
(* No binding is left behind.                                              *)
(***************************************************************************)
\* The strengthening of NoStaleBinding: of the calls in flight, only the one
\* that claimed the player answers for the binding.
Justified(p) ==
    \/ binding[p] = None
    \/ binding[p] \in ActiveRooms(p)
    \/ \E c \in Calls : /\ call[c].claimed /\ call[c].player = p
                        /\ call[c].room = binding[p]
    \/ <<binding[p], p>> \in releasing

StaleInv == faults \cap {"crash", "redis"} = {} => \A p \in Players : Justified(p)

\* Committing seats the player of the call in its room, and nobody else.
LEMMA SeatTaken ==
    ASSUME TypeInv, SeatInv, NEW c \in Calls, CreateCommit(c) \/ JoinCommit(c),
           NEW p \in Players
    PROVE  /\ ActiveRooms(p)' = IF p = call[c].player
                                THEN ActiveRooms(p) \cup {call[c].room}
                                ELSE ActiveRooms(p)
           /\ call[c].player \in Players /\ call[c].room \in Rooms
           /\ status[call[c].room] \in {"unused", "open"}
           /\ status'[call[c].room] = "open"
           /\ \A q \in Rooms : q # call[c].room => status'[q] = status[q]
  <1>0. /\ status \in [Rooms -> {"unused", "open", "closing", "closed"}]
        /\ seated \in [Rooms -> SUBSET Players]
        /\ CallOK(c) /\ CommitOK(c)
    BY DEF TypeInv, TypeOK, CallInv, SeatInv
  <1>1. CASE CreateCommit(c)
    <2>1. /\ call[c].player \in Players /\ call[c].room \in Rooms
          /\ status[call[c].room] = "unused" /\ seated[call[c].room] = {}
      BY <1>0, <1>1, IdleType DEF CreateCommit, CallOK, SeatInv
    <2>2. \A r \in Rooms :
              /\ status'[r] = IF r = call[c].room THEN "open" ELSE status[r]
              /\ seated'[r] = IF r = call[c].room THEN {call[c].player} ELSE seated[r]
      BY <1>0, <1>1 DEF CreateCommit
    <2> QED
      BY <2>1, <2>2 DEF ActiveRooms
  <1>2. CASE JoinCommit(c)
    <2>1. /\ call[c].player \in Players /\ call[c].room \in Rooms
          /\ status[call[c].room] = "open" /\ status' = status
      BY <1>0, <1>2, IdleType DEF JoinCommit, CallOK, CommitOK
    <2>2. \A r \in Rooms :
              seated'[r] = IF r = call[c].room THEN seated[r] \cup {call[c].player}
                                               ELSE seated[r]
      BY <1>0, <1>2 DEF JoinCommit
    <2> QED
      BY <2>1, <2>2 DEF ActiveRooms
  <1> QED
    BY <1>1, <1>2

\* A seat is left only by the end of its room, which then releases the player.
LEMMA ActiveKept ==
    ASSUME TypeInv, SeatInv, [Next]_vars, NEW p \in Players, NEW r \in ActiveRooms(p)
    PROVE  r \in ActiveRooms(p)' \/ <<r, p>> \in releasing'
  <1>1. CASE UNCHANGED <<status, seated>>
    BY <1>1 DEF ActiveRooms
  <1>2. CASE \E c \in Calls : CreateCommit(c) \/ JoinCommit(c)
    BY <1>2, SeatTaken
  <1>3. ASSUME NEW q \in Rooms, EndRoom(q)
        PROVE  r \in ActiveRooms(p)' \/ <<r, p>> \in releasing'
    BY <1>3 DEF EndRoom, ActiveRooms, TypeInv, TypeOK
  <1> QED
    BY <1>1, <1>2, <1>3, SeatWrites

\* A release that is due stays due until it is done, or the process dies.
LEMMA ReleasingKept ==
    ASSUME [Next]_vars, NEW r, NEW p, <<r, p>> \in releasing, "crash" \notin faults'
    PROVE  <<r, p>> \in releasing' \/ Release(r, p)
  <1>1. ASSUME NEW q \in Rooms, NEW x \in Players, Release(q, x)
        PROVE  <<r, p>> \in releasing' \/ Release(r, p)
    BY <1>1 DEF Release
  <1>2. ASSUME NEW q \in Rooms, EndRoom(q) PROVE releasing \subseteq releasing'
    BY <1>2 DEF EndRoom
  <1>3. \A q \in Rooms : ~CloserDies(q)
    BY DEF CloserDies, Fault
  <1> QED
    BY <1>1, <1>2, <1>3 DEF Next, vars, Create, CreateCheck, CreateCommit, Join, JoinLock,
       JoinBind, JoinWhere, JoinCheck, JoinCommit, Undo, TxFails, Crash, Unbound,
       LockExpires, CreateFails, JoinFails

\* Who writes a binding, and what it can become.
LEMMA BindingWrites ==
    ASSUME TypeInv, [Next]_vars, NEW p \in Players, "redis" \notin faults'
    PROVE  \/ binding'[p] = binding[p] \/ binding'[p] = None
           \/ \E c \in Calls : /\ call'[c].claimed /\ call'[c].player = p
                               /\ call'[c].room = binding'[p]
  <1>0. /\ TypeOK /\ binding \in [Players -> Rooms \cup {None}]
        /\ call \in [Calls -> CallRecords]
    BY DEF TypeInv, TypeOK
  <1>1. ASSUME NEW c \in Calls, NEW x \in Players, NEW r \in Rooms, Create(c, x, r)
        PROVE  \/ binding'[p] = binding[p]
               \/ /\ call'[c].claimed /\ call'[c].player = p
                  /\ call'[c].room = binding'[p]
    BY <1>0, <1>1 DEF Create
  <1>2. ASSUME NEW c \in Calls, JoinBind(c)
        PROVE  \/ binding'[p] = binding[p]
               \/ /\ call'[c].claimed /\ call'[c].player = p
                  /\ call'[c].room = binding'[p]
    BY <1>0, <1>2, BindKeeps DEF JoinBind
  <1>3. ASSUME NEW c \in Calls, Undo(c) PROVE binding'[p] \in {binding[p], None}
    BY <1>0, <1>3 DEF Undo
  <1>4. ASSUME NEW x \in Players, Unbound(x) PROVE binding'[p] \in {binding[p], None}
    BY <1>0, <1>4 DEF Unbound
  <1>5. ASSUME NEW x \in Players, NEW r \in Rooms, Release(r, x)
        PROVE  binding'[p] \in {binding[p], None}
    BY <1>0, <1>5 DEF Release
  <1>6. /\ \A c \in Calls : ~JoinFails(c)
        /\ \A x \in Players, r \in Rooms : ~CreateFails(x, r)
    BY DEF JoinFails, CreateFails, Fault
  <1> QED
    BY <1>1, <1>2, <1>3, <1>4, <1>5, <1>6 DEF Next, vars, CreateCheck, CreateCommit, Join,
       JoinLock, JoinWhere, JoinCheck, JoinCommit, TxFails, Crash, LockExpires, EndRoom,
       CloserDies

\* A call that claimed its player keeps the claim until the player is seated or
\* released, or the process dies or the release fails.
LEMMA ClaimKept ==
    ASSUME TypeInv, SeatInv, [Next]_vars, NEW c \in Calls, call[c].claimed,
           NEW p, p = call[c].player, NEW r, r = call[c].room
    PROVE  \/ call'[c].claimed /\ call'[c].player = p /\ call'[c].room = r
           \/ r \in ActiveRooms(p)'
           \/ Undo(c) /\ binding'[p] = None
           \/ faults' \cap {"crash", "redis"} # {}
  <1> DEFINE Goal == \/ call'[c].claimed /\ call'[c].player = p /\ call'[c].room = r
                     \/ r \in ActiveRooms(p)'
                     \/ Undo(c) /\ binding'[p] = None
                     \/ faults' \cap {"crash", "redis"} # {}
  <1>0. /\ TypeOK /\ CallOK(c) /\ call[c].pc # "idle"
        /\ p \in Players /\ r \in Rooms
        /\ call[c].pc \in {"check", "commit", "undo"}
        /\ binding \in [Players -> Rooms \cup {None}]
    BY IdleType DEF TypeInv, TypeOK, CallInv, CallOK
  <1>1. ASSUME NEW pc \in {"commit", "undo"}, Goes(c, pc) PROVE Goal
    BY <1>0, <1>1, GoesKeeps
  <1>2. CASE call'[c] = call[c]
    BY <1>2
  <1>3. CASE CreateCommit(c) \/ JoinCommit(c)
    BY <1>0, <1>3, SeatTaken
  <1>4. CASE CreateCheck(c) \/ TxFails(c)
    BY <1>1, <1>4 DEF CreateCheck, TxFails
  <1>5. CASE JoinCheck(c)
    <2>1. CASE status[r] = "open" /\ p \in seated[r]
      BY <1>0, <1>5, <2>1 DEF JoinCheck, ActiveRooms
    <2> QED
      BY <1>1, <1>5, <2>1 DEF JoinCheck
  <1>6. CASE Undo(c)
    BY <1>0, <1>6 DEF Undo, Fault
  <1>7. CASE Crash(c)
    BY <1>7 DEF Crash, Fault
  <1>8. \A x \in Players, q \in Rooms : ~Create(c, x, q) /\ ~Join(c, x, q)
    BY <1>0 DEF Create, Join
  <1>9. ~JoinLock(c) /\ ~JoinBind(c) /\ ~JoinWhere(c) /\ ~JoinFails(c)
    BY <1>0 DEF JoinLock, JoinBind, JoinWhere, JoinFails
  <1> QED
    BY <1>2, <1>3, <1>4, <1>5, <1>6, <1>7, <1>8, <1>9, OneCallMoves

\* No fault is forgotten.
LEMMA FaultsGrow ==
    ASSUME [Next]_vars
    PROVE  faults \subseteq faults'
  BY DEF Next, vars, Create, CreateCheck, CreateCommit, Join, JoinLock, JoinBind,
     JoinWhere, JoinCheck, JoinCommit, Undo, TxFails, Crash, Unbound, LockExpires,
     EndRoom, Release, CreateFails, JoinFails, CloserDies, ReleaseMutex, Fault

LEMMA StaleInvStep ==
    ASSUME TypeInv, SeatInv, StaleInv, [Next]_vars
    PROVE  StaleInv'
  <1> SUFFICES ASSUME faults' \cap {"crash", "redis"} = {}, NEW p \in Players
               PROVE  Justified(p)'
    BY DEF StaleInv
  <1>1. faults \subseteq faults'
    BY FaultsGrow
  <1>2. Justified(p)
    BY <1>1 DEF StaleInv
  <1>3. CASE binding'[p] = binding[p] /\ binding[p] # None
    <2>1. CASE binding[p] \in ActiveRooms(p)
      BY <1>3, <2>1, ActiveKept DEF Justified
    <2>2. ASSUME NEW c \in Calls, call[c].claimed, call[c].player = p,
                 call[c].room = binding[p]
          PROVE  Justified(p)'
      BY <1>3, <2>2, ClaimKept DEF Justified
    <2>3. CASE <<binding[p], p>> \in releasing
      <3>1. ~Release(binding[p], p)
        BY <1>3 DEF Release, Fault, TypeInv, TypeOK
      <3> QED
        BY <1>3, <2>3, <3>1, ReleasingKept DEF Justified
    <2> QED
      BY <1>2, <1>3, <2>1, <2>2, <2>3 DEF Justified
  <1>4. CASE binding'[p] = None
    BY <1>4 DEF Justified
  <1> QED
    BY <1>3, <1>4, BindingWrites DEF Justified

\* No binding is left behind by failed transactions, lost keys and expired mutexes:
\* nobody is locked out of the tables, or of withdrawing, for a room that is not
\* theirs, unless a process dies or a Redis command fails.
THEOREM NoBindingLeft == Spec => []NoStaleBinding
  <1>1. Init => StaleInv
    BY DEF Init, StaleInv, Justified
  <1>2. TypeInv /\ SeatInv /\ StaleInv /\ [Next]_vars => StaleInv'
    BY StaleInvStep
  <1>3. StaleInv => NoStaleBinding
    BY DEF StaleInv, Justified, NoStaleBinding
  <1> QED
    BY <1>1, <1>2, <1>3, TypeInvariant, SeatInvariant, PTL DEF Spec
-----------------------------------------------------------------------------
(***************************************************************************)
(* One room per player.  The look for another active room is a plain read, *)
(* so this rests on the two Redis keys: the binding says where a player    *)
(* is, and the seat mutex keeps a claim and the joins that rely on it      *)
(* apart.  The invariants below hold until a key is lost or a transaction  *)
(* fails; a crash or a failed Redis command disturbs none of them.         *)
(***************************************************************************)
\* Past acquireSeatMutex, where a join holds its room's mutex.
Past(c) ==
    call[c].kind = "join" /\ call[c].pc \in {"bind", "where", "check", "commit", "undo"}

\* Room r will not seat p any more: it is not open, it is full, or p is in it.
Spent(r, p) ==
    \/ status[r] \in {"closing", "closed"}
    \/ Cardinality(seated[r]) >= MaxPlayers
    \/ p \in seated[r]

\* A join that goes on because it found the player bound to its room already.
Relies(c) ==
    /\ call[c].kind = "join" /\ ~call[c].claimed
    /\ \/ call[c].pc \in {"check", "commit"}
       \/ call[c].pc = "lock" /\ ~call[c].rebind

LockOK(c) == Past(c) => joinLock[call[c].room] = c

\* A claim is what Redis says it is, and its player sits nowhere.
ClaimOK(c) ==
    call[c].claimed => /\ binding[call[c].player] = call[c].room
                       /\ ActiveRooms(call[c].player) = {}

\* The binding a join relies on is still there, or the join will be refused.
RelyOK(c) ==
    Relies(c) => \/ binding[call[c].player] = call[c].room
                 \/ Spent(call[c].room, call[c].player)

\* A join that gives its claim up does so for good reason.
UndoOK(c) ==
    call[c].kind = "join" /\ call[c].claimed /\ call[c].pc = "undo" =>
        Spent(call[c].room, call[c].player)

SeatOK(p) == \A r \in ActiveRooms(p) : binding[p] = r

\* A closed room releases a player that is still bound to it, and that no call
\* has claimed for another room.
ReleaseOK(r, p) ==
    <<r, p>> \in releasing =>
        /\ binding[p] = r /\ status[r] = "closed"
        /\ \A c \in Calls : call[c].claimed => call[c].player # p

Bound ==
    /\ \A c \in Calls : LockOK(c) /\ ClaimOK(c) /\ RelyOK(c) /\ UndoOK(c)
    /\ \A p \in Players : SeatOK(p)
    /\ \A r \in Rooms, p \in Players : ReleaseOK(r, p)

BoundInv == faults \subseteq {"crash", "redis"} => Bound

\* A room that is spent for a player stays so: seats are never freed, and no
\* room is opened again.
LEMMA SpentForever ==
    ASSUME TypeInv, SeatInv, [Next]_vars, NEW r \in Rooms, NEW p,
           status[r] # "unused", Spent(r, p)
    PROVE  Spent(r, p)'
  <1>0. /\ status \in [Rooms -> {"unused", "open", "closing", "closed"}]
        /\ seated \in [Rooms -> SUBSET Players] /\ CallInv
        /\ IsFiniteSet(seated[r])
    BY DEF TypeInv, TypeOK, SeatInv
  <1>1. CASE UNCHANGED <<status, seated>>
    BY <1>1 DEF Spent
  <1>2. ASSUME NEW c \in Calls, CreateCommit(c) PROVE Spent(r, p)'
    <2>1. call[c].room # r
      BY <1>0, <1>2, IdleType DEF CreateCommit, CallInv, CallOK
    <2> QED
      BY <1>0, <1>2, <2>1 DEF CreateCommit, Spent
  <1>3. ASSUME NEW c \in Calls, JoinCommit(c) PROVE Spent(r, p)'
    <2>1. \/ seated'[r] = seated[r]
          \/ seated'[r] = seated[r] \cup {call[c].player}
      BY <1>0, <1>3 DEF JoinCommit
    <2>2. /\ Cardinality(seated[r]) \in Nat
          /\ Cardinality(seated[r] \cup {call[c].player}) \in
                 {Cardinality(seated[r]), Cardinality(seated[r]) + 1}
      BY <1>0, FS_AddElement, FS_CardinalityType
    <2>3. Cardinality(seated[r]) >= MaxPlayers => Cardinality(seated'[r]) >= MaxPlayers
      <3>1. Cardinality(seated'[r]) \in {Cardinality(seated[r]), Cardinality(seated[r]) + 1}
        BY <2>1, <2>2
      <3>2. \A n \in Nat, m \in Nat : n >= m => n + 1 >= m
        OBVIOUS
      <3> QED
        BY <2>2, <3>1, <3>2, SeatingAssumption
    <2>4. seated[r] \subseteq seated'[r] /\ status' = status
      BY <1>3, <2>1 DEF JoinCommit
    <2> QED
      BY <2>3, <2>4 DEF Spent
  <1>4. ASSUME NEW q \in Rooms, EndRoom(q) PROVE Spent(r, p)'
    BY <1>0, <1>4 DEF EndRoom, Spent
  <1> QED
    BY <1>1, <1>2, <1>3, <1>4, SeatWrites

\* A call in flight is one of these two, with its player and room.
LEMMA CallCases ==
    ASSUME TypeInv, NEW c \in Calls
    PROVE  /\ call[c].pc # "idle" =>
                 /\ call[c].player \in Players /\ call[c].room \in Rooms
                 /\ call[c].kind \in {"create", "join"}
           /\ call[c].pc = "idle" => call[c] = Idle
           /\ call[c].claimed => call[c].kind = "create" \/ Past(c)
           /\ call[c].kind = "create" => call[c].pc # "idle" /\ call[c].claimed
           /\ call[c].kind = "join" => /\ call[c].pc # "idle"
                                       /\ status[call[c].room] # "unused"
           /\ call[c].kind \in {"create", "join"} => call[c].pc # "idle"
  BY IdleType DEF TypeInv, CallInv, CallOK, Past

\* Two calls that own their room, by its fresh id or by its mutex, own
\* different ones.
LEMMA OwnersDiffer ==
    ASSUME TypeInv, NEW c \in Calls, NEW d \in Calls, c # d, LockOK(c), LockOK(d),
           call[c].kind = "create" \/ Past(c), call[d].kind = "create" \/ Past(d)
    PROVE  call[c].room # call[d].room
  <1>1. CallOK(c) /\ CallOK(d)
    BY DEF TypeInv, CallInv
  <1>2. CASE call[c].kind = "create" \/ call[d].kind = "create"
    BY <1>1, <1>2, IdleType DEF CallOK
  <1>3. CASE Past(c) /\ Past(d)
    BY <1>3 DEF LockOK
  <1> QED
    BY <1>2, <1>3

\* What a call that does not move keeps.
LEMMA StillOK ==
    ASSUME TypeInv, SeatInv, [Next]_vars, NEW c \in Calls, call'[c] = call[c]
    PROVE  /\ UndoOK(c) => UndoOK(c)'
           /\ RelyOK(c) /\ (\/ binding'[call[c].player] = binding[call[c].player]
                             \/ binding[call[c].player] # call[c].room
                             \/ Spent(call[c].room, call[c].player))
                  => RelyOK(c)'
           /\ LockOK(c) /\ (Past(c) /\ joinLock[call[c].room] = c =>
                                 joinLock'[call[c].room] = c)
                  => LockOK(c)'
  <1>1. ASSUME call[c].kind = "join", Spent(call[c].room, call[c].player)
        PROVE  Spent(call[c].room, call[c].player)'
    <2>1. PICK r \in Rooms, p \in Players : r = call[c].room /\ p = call[c].player
      BY <1>1, CallCases
    <2>2. status[r] # "unused"
      BY <1>1, <2>1, CallCases
    <2>3. Spent(r, p)'
      BY <1>1, <2>1, <2>2, SpentForever DEF Spent
    <2> QED
      BY <2>1, <2>3 DEF Spent
  <1>2. UndoOK(c) => UndoOK(c)'
    BY <1>1 DEF UndoOK
  <1>3. Relies(c)' <=> Relies(c)
    BY DEF Relies
  <1>4. Relies(c) => call[c].kind = "join"
    BY DEF Relies
  <1>5. RelyOK(c) /\ (\/ binding'[call[c].player] = binding[call[c].player]
                      \/ binding[call[c].player] # call[c].room
                      \/ Spent(call[c].room, call[c].player))
           => RelyOK(c)'
    BY <1>1, <1>3, <1>4 DEF RelyOK
  <1>6. (Past(c)' <=> Past(c)) /\ call'[c].room = call[c].room
    BY DEF Past
  <1> QED
    BY <1>2, <1>5, <1>6 DEF LockOK
\* A step of call c that writes neither rooms nor bindings keeps the invariant
\* if it leaves the other mutexes alone and claims nobody new.
LEMMA QuietMove ==
    ASSUME TypeInv, SeatInv, Bound, [Next]_vars, NEW c \in Calls,
           UNCHANGED <<status, seated, binding, releasing>>,
           \A d \in Calls : d # c => call'[d] = call[d],
           \A d \in Calls, r \in Rooms : d # c /\ joinLock[r] = d => joinLock'[r] = d,
           call'[c].claimed => /\ call[c].claimed
                               /\ call'[c].player = call[c].player
                               /\ call'[c].room = call[c].room,
           LockOK(c)', RelyOK(c)', UndoOK(c)'
    PROVE  Bound'
  <1>1. \A d \in Calls : LockOK(d)' /\ RelyOK(d)' /\ UndoOK(d)'
    <2> SUFFICES ASSUME NEW d \in Calls, d # c
                 PROVE  LockOK(d)' /\ RelyOK(d)' /\ UndoOK(d)'
      OBVIOUS
    <2>1. Past(d) => call[d].room \in Rooms
      BY CallCases DEF Past
    <2> QED
      BY <2>1, StillOK DEF Bound
  <1>2. \A p : ActiveRooms(p)' = ActiveRooms(p)
    BY DEF ActiveRooms
  <1>3. \A d \in Calls : call'[d].claimed => /\ call[d].claimed
                                             /\ call'[d].player = call[d].player
                                             /\ call'[d].room = call[d].room
    OBVIOUS
  <1>4. \A d \in Calls : ClaimOK(d)'
    BY <1>2, <1>3 DEF Bound, ClaimOK
  <1>5. \A p \in Players : SeatOK(p)'
    BY <1>2 DEF Bound, SeatOK
  <1>6. \A r \in Rooms, p \in Players : ReleaseOK(r, p)'
    BY <1>3 DEF Bound, ReleaseOK
  <1> QED
    BY <1>1, <1>4, <1>5, <1>6 DEF Bound

\* An idle call owes nothing.
LEMMA IdleOK ==
    ASSUME NEW c \in Calls, call'[c] = Idle
    PROVE  LockOK(c)' /\ RelyOK(c)' /\ UndoOK(c)' /\ ClaimOK(c)' /\ ~call'[c].claimed
  BY IdleType DEF LockOK, RelyOK, UndoOK, ClaimOK, Past, Relies

\* A call gives back, or leaves behind, no mutex but its own.
LEMMA UnlockOthers ==
    ASSUME NEW c \in Calls, joinLock' \in {Unlock(c), Abandoned(c)}
    PROVE  \A d \in Calls, r \in Rooms : d # c /\ joinLock[r] = d => joinLock'[r] = d
  BY DEF Unlock, Abandoned

\* A release that is not done costs the invariant nothing.
LEMMA ReleaseDropped ==
    ASSUME TypeInv, SeatInv, Bound, [Next]_vars, releasing' \subseteq releasing,
           UNCHANGED <<status, seated, binding, joinLock, call>>
    PROVE  Bound'
  <1>1. \A p : ActiveRooms(p)' = ActiveRooms(p)
    BY DEF ActiveRooms
  <1>2. \A c \in Calls : LockOK(c)' /\ RelyOK(c)' /\ UndoOK(c)'
    BY StillOK DEF Bound
  <1>3. \A c \in Calls : ClaimOK(c)'
    BY <1>1 DEF Bound, ClaimOK
  <1>4. \A p \in Players : SeatOK(p)'
    BY <1>1 DEF Bound, SeatOK
  <1>5. \A r \in Rooms, p \in Players : ReleaseOK(r, p)'
    BY DEF Bound, ReleaseOK
  <1> QED
    BY <1>2, <1>3, <1>4, <1>5 DEF Bound

\* The claim of a free player, by call c or by one whose answer was lost.
LEMMA ClaimStep ==
    ASSUME TypeInv, SeatInv, Bound, [Next]_vars, NEW c,
           NEW p \in Players, NEW r \in Rooms, binding[p] = None,
           binding' = [binding EXCEPT ![p] = r],
           UNCHANGED <<status, seated, joinLock, releasing>>,
           \A d \in Calls : d # c => call'[d] = call[d],
           c \in Calls => /\ call'[c].claimed => call'[c].player = p /\ call'[c].room = r
                          /\ LockOK(c)' /\ RelyOK(c)' /\ UndoOK(c)'
    PROVE  Bound'
  <1>0. /\ \A x \in Players : binding'[x] = IF x = p THEN r ELSE binding[x]
        /\ None \notin Rooms
    BY SeatingAssumption DEF TypeInv, TypeOK
  <1>1. \A x : ActiveRooms(x)' = ActiveRooms(x)
    BY DEF ActiveRooms
  <1>2. ActiveRooms(p) = {}
    BY <1>0 DEF Bound, SeatOK, ActiveRooms
  <1>3. \A d \in Calls : d # c /\ call[d].claimed =>
            call[d].player \in Players /\ call[d].player # p
    <2> SUFFICES ASSUME NEW d \in Calls, call[d].claimed
                 PROVE  call[d].player \in Players /\ call[d].player # p
      OBVIOUS
    <2>1. call[d].player \in Players /\ call[d].room \in Rooms
      BY CallCases DEF Past
    <2> QED
      BY <1>0, <2>1 DEF Bound, ClaimOK
  <1>4. \A d \in Calls : ClaimOK(d)'
    <2>1. c \in Calls => ClaimOK(c)'
      BY <1>0, <1>1, <1>2 DEF ClaimOK
    <2>2. \A d \in Calls : d # c => ClaimOK(d)'
      BY <1>0, <1>1, <1>3 DEF Bound, ClaimOK
    <2> QED
      BY <2>1, <2>2
  <1>5. \A d \in Calls : LockOK(d)' /\ RelyOK(d)' /\ UndoOK(d)'
    <2>2. ASSUME NEW d \in Calls, d # c PROVE LockOK(d)' /\ RelyOK(d)' /\ UndoOK(d)'
      <3>1. Relies(d) => call[d].player \in Players /\ call[d].room \in Rooms
        BY CallCases DEF Relies
      <3>2. /\ ~Relies(d) \/ binding'[call[d].player] = binding[call[d].player]
               \/ binding[call[d].player] # call[d].room
        BY <1>0, <3>1
      <3>3. ~Relies(d) => RelyOK(d)'
        BY <2>2 DEF RelyOK, Relies
      <3> QED
        BY <2>2, <3>2, <3>3, StillOK DEF Bound
    <2> QED
      BY <2>2
  <1>6. \A x \in Players : SeatOK(x)'
    BY <1>0, <1>1, <1>2 DEF Bound, SeatOK
  <1>7. \A q \in Rooms, x \in Players : ReleaseOK(q, x)'
    <2> SUFFICES ASSUME NEW q \in Rooms, NEW x \in Players, <<q, x>> \in releasing
                 PROVE  /\ binding'[x] = q /\ status'[q] = "closed"
                        /\ \A d \in Calls : call'[d].claimed => call'[d].player # x
      BY DEF ReleaseOK
    <2>1. /\ binding[x] = q /\ status[q] = "closed"
          /\ \A d \in Calls : call[d].claimed => call[d].player # x
      BY DEF Bound, ReleaseOK
    <2>2. x # p
      BY <1>0, <2>1
    <2> QED
      BY <1>0, <2>1, <2>2
  <1> QED
    BY <1>4, <1>5, <1>6, <1>7 DEF Bound
\* The commit of a create or of a join: its player is bound to its room.
LEMMA CommitStep ==
    ASSUME TypeInv, SeatInv, Bound, [Next]_vars, NEW c \in Calls,
           CreateCommit(c) \/ JoinCommit(c)
    PROVE  Bound'
  <1>0. PICK p \in Players, r \in Rooms : p = call[c].player /\ r = call[c].room
    BY CallCases DEF CreateCommit, JoinCommit
  <1>1. /\ \A x \in Players : ActiveRooms(x)' = IF x = p THEN ActiveRooms(x) \cup {r}
                                                       ELSE ActiveRooms(x)
        /\ status[r] \in {"unused", "open"}
        /\ \A q \in Rooms : q # r => status'[q] = status[q]
    BY <1>0, SeatTaken
  <1>2. /\ call'[c] = Idle /\ \A d \in Calls : d # c => call'[d] = call[d]
        /\ UNCHANGED <<binding, releasing>>
        /\ \A d \in Calls, q \in Rooms : d # c /\ joinLock[q] = d => joinLock'[q] = d
    BY EndsKeeps, UnlockOthers, MutexReleased DEF CreateCommit, JoinCommit, TypeInv
  <1>3. call[c].kind = "create" \/ Past(c)
    BY DEF CreateCommit, JoinCommit, Past
  <1>4. binding[p] = r
    <2>1. CASE call[c].claimed
      BY <1>0, <2>1 DEF Bound, ClaimOK
    <2>2. CASE ~call[c].claimed
      <3>1. JoinCommit(c) /\ call[c].kind = "join" /\ call[c].pc = "commit"
        BY <2>2, CallCases DEF CreateCommit, JoinCommit
      <3>2. Relies(c) /\ CommitOK(c)
        BY <2>2, <3>1 DEF Relies, SeatInv
      <3>3. Cardinality(seated[r]) \in Nat
        BY FS_CardinalityType DEF SeatInv
      <3>4. ~Spent(r, p)
        BY <1>0, <3>1, <3>2, <3>3, SeatingAssumption DEF CommitOK, Spent
      <3> QED
        BY <1>0, <3>2, <3>4 DEF Bound, RelyOK
    <2> QED
      BY <2>1, <2>2
  <1>5. ASSUME NEW d \in Calls, d # c, call[d].claimed
        PROVE  call[d].player \in Players /\ call[d].player # p
    <2>1. call[d].kind = "create" \/ Past(d)
      BY <1>5, CallCases
    <2>2. call[d].player \in Players
      BY <2>1, CallCases DEF Past
    <2>3. call[d].room # r
      BY <1>0, <1>3, <1>5, <2>1, OwnersDiffer DEF Bound
    <2> QED
      BY <1>4, <1>5, <2>2, <2>3 DEF Bound, ClaimOK
  <1>6. \A d \in Calls : ClaimOK(d)'
    <2>1. \A d \in Calls : d # c => ClaimOK(d)'
      BY <1>1, <1>2, <1>5 DEF Bound, ClaimOK
    <2> QED
      BY <1>2, <2>1, IdleOK
  <1>7. \A d \in Calls : LockOK(d)' /\ RelyOK(d)' /\ UndoOK(d)'
    <2>1. ASSUME NEW d \in Calls, d # c PROVE LockOK(d)' /\ RelyOK(d)' /\ UndoOK(d)'
      <3>1. Past(d) => call[d].room \in Rooms
        BY CallCases DEF Past
      <3> QED
        BY <1>2, <2>1, <3>1, StillOK DEF Bound
    <2> QED
      BY <1>2, <2>1, IdleOK
  <1>8. \A x \in Players : SeatOK(x)'
    BY <1>1, <1>2, <1>4 DEF Bound, SeatOK
  <1>9. \A q \in Rooms, x \in Players : ReleaseOK(q, x)'
    <2> SUFFICES ASSUME NEW q \in Rooms, NEW x \in Players, <<q, x>> \in releasing
                 PROVE  /\ binding'[x] = q /\ status'[q] = "closed"
                        /\ \A d \in Calls : call'[d].claimed => call'[d].player # x
      BY <1>2 DEF ReleaseOK
    <2>1. /\ binding[x] = q /\ status[q] = "closed"
          /\ \A d \in Calls : call[d].claimed => call[d].player # x
      BY DEF Bound, ReleaseOK
    <2>2. q # r
      BY <1>1, <2>1
    <2>3. \A d \in Calls : call'[d].claimed => call'[d].player # x
      BY <1>2, <2>1, IdleType
    <2> QED
      BY <1>1, <1>2, <2>1, <2>2, <2>3
  <1> QED
    BY <1>6, <1>7, <1>8, <1>9 DEF Bound

\* The undo of a call that claimed its player: nobody else needs the binding.
LEMMA UndoStep ==
    ASSUME TypeInv, SeatInv, Bound, [Next]_vars, NEW c \in Calls, Undo(c),
           call[c].claimed, binding' # binding
    PROVE  Bound'
  <1>0. PICK p \in Players, r \in Rooms : p = call[c].player /\ r = call[c].room
    BY CallCases DEF Undo
  <1>1. /\ call'[c] = Idle /\ \A d \in Calls : d # c => call'[d] = call[d]
        /\ UNCHANGED <<status, seated, releasing>> /\ call[c].pc = "undo"
        /\ \A d \in Calls, q \in Rooms : d # c /\ joinLock[q] = d => joinLock'[q] = d
        /\ \A x \in Players : binding'[x] = IF x = p THEN None ELSE binding[x]
    BY <1>0, EndsKeeps, UnlockOthers, MutexReleased DEF Undo, TypeInv, TypeOK
  <1>2. binding[p] = r /\ ActiveRooms(p) = {}
    BY <1>0 DEF Bound, ClaimOK
  <1>3. \A x : ActiveRooms(x)' = ActiveRooms(x)
    BY <1>1 DEF ActiveRooms
  <1>4. call[c].kind = "create" \/ Past(c)
    BY CallCases
  <1>5. ASSUME NEW d \in Calls, d # c, call[d].claimed
        PROVE  call[d].player \in Players /\ call[d].player # p
    <2>1. call[d].kind = "create" \/ Past(d)
      BY <1>5, CallCases
    <2>2. call[d].player \in Players
      BY <2>1, CallCases DEF Past
    <2>3. call[d].room # r
      BY <1>0, <1>4, <1>5, <2>1, OwnersDiffer DEF Bound
    <2> QED
      BY <1>2, <1>5, <2>2, <2>3 DEF Bound, ClaimOK
  <1>6. \A d \in Calls : ClaimOK(d)'
    <2>1. \A d \in Calls : d # c => ClaimOK(d)'
      BY <1>1, <1>3, <1>5 DEF Bound, ClaimOK
    <2> QED
      BY <1>1, <2>1, IdleOK
  <1>7. \A d \in Calls : LockOK(d)' /\ RelyOK(d)' /\ UndoOK(d)'
    <2>1. ASSUME NEW d \in Calls, d # c PROVE LockOK(d)' /\ RelyOK(d)' /\ UndoOK(d)'
      <3>1. Past(d) => call[d].room \in Rooms
        BY CallCases DEF Past
      <3>2. Relies(d) => call[d].player \in Players /\ call[d].kind = "join"
        BY CallCases DEF Relies
      <3>3. Relies(d) /\ call[d].player = p /\ call[d].room = r =>
                Spent(call[d].room, call[d].player)
        <4>1. call[c].kind = "create" => call[d].room # r
          BY <1>0, <2>1, CallCases, IdleType DEF TypeInv, CallInv, CallOK
        <4>2. call[c].kind = "join" => Spent(r, p)
          BY <1>0, <1>1 DEF Bound, UndoOK
        <4> QED
          BY <1>4, <4>1, <4>2 DEF Past
      <3>4. \/ ~Relies(d)
            \/ binding'[call[d].player] = binding[call[d].player]
            \/ binding[call[d].player] # call[d].room
            \/ Spent(call[d].room, call[d].player)
        BY <1>1, <1>2, <3>2, <3>3
      <3>5. ~Relies(d) => RelyOK(d)'
        BY <1>1, <2>1 DEF RelyOK, Relies
      <3> QED
        BY <1>1, <2>1, <3>1, <3>4, <3>5, StillOK DEF Bound
    <2> QED
      BY <1>1, <2>1, IdleOK
  <1>8. \A x \in Players : SeatOK(x)'
    BY <1>1, <1>2, <1>3 DEF Bound, SeatOK
  <1>9. \A q \in Rooms, x \in Players : ReleaseOK(q, x)'
    <2> SUFFICES ASSUME NEW q \in Rooms, NEW x \in Players, <<q, x>> \in releasing
                 PROVE  /\ binding'[x] = q /\ status'[q] = "closed"
                        /\ \A d \in Calls : call'[d].claimed => call'[d].player # x
      BY <1>1 DEF ReleaseOK
    <2>1. /\ binding[x] = q /\ status[q] = "closed"
          /\ \A d \in Calls : call[d].claimed => call[d].player # x
      BY DEF Bound, ReleaseOK
    <2>2. x # p
      BY <1>0, <2>1
    <2>3. \A d \in Calls : call'[d].claimed => call'[d].player # x
      BY <1>1, <2>1, IdleType
    <2> QED
      BY <1>1, <2>1, <2>2, <2>3
  <1> QED
    BY <1>6, <1>7, <1>8, <1>9 DEF Bound

\* The end of a room: its members are still bound to it, and no call has
\* claimed them.
LEMMA EndRoomStep ==
    ASSUME TypeInv, SeatInv, Bound, [Next]_vars, NEW r \in Rooms, EndRoom(r)
    PROVE  Bound'
  <1>0. /\ status[r] \in {"open", "closing"}
        /\ \A q \in Rooms : q # r => status'[q] = status[q]
        /\ UNCHANGED <<seated, binding, joinLock, call>>
        /\ \/ releasing' = releasing
           \/ status'[r] = "closed" /\ releasing' = releasing \cup ({r} \X seated[r])
        /\ \A q \in Rooms : status'[q] \in {"open", "closing"} =>
                              status[q] \in {"open", "closing"}
    BY DEF EndRoom, TypeInv, TypeOK
  <1>1. \A p : ActiveRooms(p)' \subseteq ActiveRooms(p)
    BY <1>0 DEF ActiveRooms
  <1>2. \A c \in Calls : LockOK(c)' /\ RelyOK(c)' /\ UndoOK(c)'
    BY <1>0, StillOK DEF Bound
  <1>3. \A c \in Calls : ClaimOK(c)'
    <2>1. \A c \in Calls : ActiveRooms(call[c].player)' \subseteq ActiveRooms(call[c].player)
      BY <1>0 DEF ActiveRooms
    <2> QED
      BY <1>0, <2>1 DEF Bound, ClaimOK
  <1>4. \A p \in Players : SeatOK(p)'
    BY <1>0, <1>1 DEF Bound, SeatOK
  <1>5. \A q \in Rooms, p \in Players : ReleaseOK(q, p)'
    <2> SUFFICES ASSUME NEW q \in Rooms, NEW p \in Players, <<q, p>> \in releasing'
                 PROVE  /\ binding[p] = q /\ status'[q] = "closed"
                        /\ \A d \in Calls : call[d].claimed => call[d].player # p
      BY <1>0 DEF ReleaseOK
    <2>1. CASE <<q, p>> \in releasing
      <3>1. /\ binding[p] = q /\ status[q] = "closed"
            /\ \A d \in Calls : call[d].claimed => call[d].player # p
        BY <2>1 DEF Bound, ReleaseOK
      <3> QED
        BY <1>0, <3>1
    <2>2. CASE <<q, p>> \notin releasing
      <3>1. q = r /\ p \in seated[r] /\ status'[r] = "closed"
        BY <1>0, <2>2
      <3>2. r \in ActiveRooms(p)
        BY <1>0, <3>1 DEF ActiveRooms
      <3> QED
        BY <3>1, <3>2 DEF Bound, SeatOK, ClaimOK
    <2> QED
      BY <2>1, <2>2
  <1> QED
    BY <1>2, <1>3, <1>4, <1>5 DEF Bound

\* finalizeRoomCache deletes the binding to the closed room, and no other.
LEMMA ReleaseStep ==
    ASSUME TypeInv, SeatInv, Bound, [Next]_vars, NEW r \in Rooms, NEW p \in Players,
           Release(r, p), binding' # binding
    PROVE  Bound'
  <1>0. /\ \A x \in Players : binding'[x] = IF x = p THEN None ELSE binding[x]
        /\ releasing' = releasing \ {<<r, p>>}
        /\ UNCHANGED <<status, seated, joinLock, call>>
    BY DEF Release, TypeInv, TypeOK
  <1>1. /\ binding[p] = r /\ status[r] = "closed"
        /\ \A c \in Calls : call[c].claimed => call[c].player # p
    BY DEF Release, Bound, ReleaseOK
  <1>2. \A x : ActiveRooms(x)' = ActiveRooms(x)
    BY <1>0 DEF ActiveRooms
  <1>3. ActiveRooms(p) = {}
    BY <1>1 DEF Bound, SeatOK, ActiveRooms
  <1>4. \A c \in Calls : call[c].claimed => call[c].player \in Players
    BY CallCases DEF Past
  <1>5. \A c \in Calls : ClaimOK(c)'
    BY <1>0, <1>1, <1>2, <1>4 DEF Bound, ClaimOK
  <1>6. \A c \in Calls : LockOK(c)' /\ RelyOK(c)' /\ UndoOK(c)'
    <2> SUFFICES ASSUME NEW c \in Calls PROVE LockOK(c)' /\ RelyOK(c)' /\ UndoOK(c)'
      OBVIOUS
    <2>1. Relies(c) => call[c].player \in Players
      BY CallCases DEF Relies
    <2>2. \/ ~Relies(c)
          \/ binding'[call[c].player] = binding[call[c].player]
          \/ binding[call[c].player] # call[c].room
          \/ Spent(call[c].room, call[c].player)
      BY <1>0, <1>1, <2>1 DEF Spent
    <2>3. ~Relies(c) => RelyOK(c)'
      BY <1>0 DEF RelyOK, Relies
    <2> QED
      BY <1>0, <2>2, <2>3, StillOK DEF Bound
  <1>7. \A x \in Players : SeatOK(x)'
    BY <1>0, <1>2, <1>3 DEF Bound, SeatOK
  <1>8. \A q \in Rooms, x \in Players : ReleaseOK(q, x)'
    BY <1>0, <1>1 DEF Bound, ReleaseOK
  <1> QED
    BY <1>5, <1>6, <1>7, <1>8 DEF Bound
LEMMA BoundInvStep ==
    ASSUME TypeInv, SeatInv, BoundInv, [Next]_vars
    PROVE  BoundInv'
  <1> SUFFICES ASSUME faults' \subseteq {"crash", "redis"} PROVE Bound'
    BY DEF BoundInv
  <1>0. TypeOK /\ Bound /\ call \in [Calls -> CallRecords]
    BY FaultsGrow DEF BoundInv, TypeInv, TypeOK
  <1>1. ASSUME NEW c \in Calls, NEW p \in Players, NEW r \in Rooms, Create(c, p, r)
        PROVE  Bound'
    <2>1. /\ call'[c] = [pc |-> "check", kind |-> "create", player |-> p,
                         room |-> r, rebind |-> FALSE, claimed |-> TRUE]
          /\ \A d \in Calls : d # c => call'[d] = call[d]
      BY <1>0, <1>1 DEF Create
    <2>2. LockOK(c)' /\ RelyOK(c)' /\ UndoOK(c)'
      BY <2>1 DEF LockOK, RelyOK, UndoOK, Past, Relies
    <2> QED
      BY <1>0, <1>1, <2>1, <2>2, ClaimStep DEF Create
  <1>2. ASSUME NEW c \in Calls, CreateCheck(c) PROVE Bound'
    <2>1. PICK pc \in {"commit", "undo"} : Goes(c, pc)
      BY <1>2 DEF CreateCheck
    <2>2. /\ call'[c].kind = "create" /\ call'[c].claimed = call[c].claimed
          /\ call'[c].player = call[c].player /\ call'[c].room = call[c].room
          /\ \A d \in Calls : d # c => call'[d] = call[d]
      BY <1>0, <1>2, <2>1, GoesKeeps DEF CreateCheck
    <2>3. LockOK(c)' /\ RelyOK(c)' /\ UndoOK(c)'
      BY <2>2 DEF LockOK, RelyOK, UndoOK, Past, Relies
    <2> QED
      BY <1>0, <1>2, <2>2, <2>3, QuietMove DEF CreateCheck
  <1>3. ASSUME NEW c \in Calls, NEW p \in Players, NEW r \in Rooms, Join(c, p, r)
        PROVE  Bound'
    <2>1. /\ call'[c] = [pc |-> "lock", kind |-> "join", player |-> p, room |-> r,
                         rebind |-> binding[p] = None, claimed |-> FALSE]
          /\ \A d \in Calls : d # c => call'[d] = call[d]
          /\ binding[p] \in {None, r}
          /\ UNCHANGED <<status, seated, rowLock, binding, joinLock, releasing, faults>>
      BY <1>0, <1>3 DEF Join
    <2>2. /\ call'[c].pc = "lock" /\ call'[c].player = p /\ call'[c].room = r
          /\ ~call'[c].claimed
          /\ ~call'[c].rebind => binding[p] # None
      <3>1. PICK b \in BOOLEAN : b = (binding[p] = None)
        OBVIOUS
      <3>2. call'[c] = [pc |-> "lock", kind |-> "join", player |-> p, room |-> r,
                        rebind |-> b, claimed |-> FALSE]
        BY <2>1, <3>1, Zenon
      <3>3. /\ call'[c].pc = "lock" /\ call'[c].player = p /\ call'[c].room = r
            /\ ~call'[c].claimed
            /\ call'[c].rebind = b
        BY <3>2
      <3> QED
        BY <3>1, <3>3
    <2>3. LockOK(c)' /\ RelyOK(c)' /\ UndoOK(c)'
      BY <2>1, <2>2 DEF LockOK, RelyOK, UndoOK, Past, Relies
    <2> QED
      BY <1>0, <2>1, <2>2, <2>3, QuietMove
  <1>4. ASSUME NEW c \in Calls, JoinLock(c) PROVE Bound'
    <2>1. /\ call[c].pc = "lock" /\ call[c].kind = "join" /\ call[c].room \in Rooms
          /\ ~call[c].claimed
          /\ UNCHANGED <<status, seated, rowLock, binding, releasing, faults>>
      BY <1>4, IdleType DEF JoinLock, TypeInv, CallInv, CallOK
    <2>2. ASSUME NEW pc \in {"bind", "check"}, Goes(c, pc),
                 pc = "check" => ~call[c].rebind,
                 joinLock[call[c].room] = None,
                 joinLock' = [joinLock EXCEPT ![call[c].room] = c]
          PROVE  Bound'
      <3>1. /\ call'[c].pc = pc /\ call'[c].kind = "join" /\ ~call'[c].claimed
            /\ call'[c].player = call[c].player /\ call'[c].room = call[c].room
            /\ \A d \in Calls : d # c => call'[d] = call[d]
        BY <1>0, <2>1, <2>2, GoesKeeps
      <3>2. \A d \in Calls, r \in Rooms : d # c /\ joinLock[r] = d => joinLock'[r] = d
        BY <1>0, <2>2, SeatingAssumption DEF TypeOK
      <3>3. LockOK(c)'
        BY <1>0, <2>1, <2>2, <3>1 DEF LockOK, TypeOK
      <3>4. RelyOK(c)'
        <4>1. pc = "check" => Relies(c)
          BY <2>1, <2>2 DEF Relies
        <4>2. Relies(c)' => pc = "check"
          BY <2>2, <3>1 DEF Relies
        <4> QED
          BY <1>0, <2>1, <3>1, <4>1, <4>2 DEF Bound, RelyOK, Spent
      <3>5. UndoOK(c)'
        BY <3>1 DEF UndoOK
      <3> QED
        BY <1>0, <2>1, <3>1, <3>2, <3>3, <3>4, <3>5, QuietMove
    <2>3. CASE Ends(c) /\ UNCHANGED joinLock
      BY <1>0, <2>1, <2>3, EndsKeeps, IdleOK, QuietMove
    <2> QED
      BY <1>4, <2>2, <2>3 DEF JoinLock
  <1>5. ASSUME NEW c \in Calls, JoinBind(c) PROVE Bound'
    <2>1. /\ call[c].pc = "bind" /\ call[c].kind = "join" /\ call[c].room \in Rooms
          /\ call[c].player \in Players /\ ~call[c].claimed
          /\ UNCHANGED <<status, seated, rowLock, joinLock, releasing, faults>>
          /\ joinLock[call[c].room] = c
      BY <1>0, <1>5, IdleType DEF JoinBind, TypeInv, CallInv, CallOK, Bound, LockOK, Past
    <2>2. CASE /\ binding[call[c].player] = None
               /\ binding' = [binding EXCEPT ![call[c].player] = call[c].room]
               /\ call' = [call EXCEPT ![c].pc = "check", ![c].claimed = TRUE]
      <3>1. /\ call'[c].pc = "check" /\ call'[c].claimed
            /\ call'[c].player = call[c].player /\ call'[c].room = call[c].room
            /\ \A d \in Calls : d # c => call'[d] = call[d]
        BY <1>0, <2>2, BindKeeps
      <3>2. LockOK(c)' /\ RelyOK(c)' /\ UndoOK(c)'
        BY <2>1, <3>1 DEF LockOK, RelyOK, UndoOK, Relies
      <3> QED
        BY <1>0, <2>1, <2>2, <3>1, <3>2, ClaimStep
    <2>3. CASE Goes(c, "where") /\ UNCHANGED binding
      <3>1. /\ call'[c].pc = "where" /\ ~call'[c].claimed /\ call'[c].room = call[c].room
            /\ \A d \in Calls : d # c => call'[d] = call[d]
        BY <1>0, <2>1, <2>3, GoesKeeps
      <3>2. LockOK(c)' /\ RelyOK(c)' /\ UndoOK(c)'
        BY <2>1, <3>1 DEF LockOK, RelyOK, UndoOK, Relies
      <3> QED
        BY <1>0, <2>1, <2>3, <3>1, <3>2, QuietMove
    <2> QED
      BY <1>5, <2>2, <2>3 DEF JoinBind
  <1>6. ASSUME NEW c \in Calls, JoinWhere(c) PROVE Bound'
    <2>1. PICK pc \in {"check", "undo"} :
              Goes(c, pc) /\ (pc = "check" => binding[call[c].player] = call[c].room)
      BY <1>6 DEF JoinWhere
    <2>2. /\ call[c].pc = "where" /\ call[c].kind = "join" /\ ~call[c].claimed
          /\ UNCHANGED <<status, seated, rowLock, binding, joinLock, releasing, faults>>
          /\ joinLock[call[c].room] = c
      BY <1>0, <1>6, IdleType DEF JoinWhere, TypeInv, CallInv, CallOK, Bound, LockOK, Past
    <2>3. /\ call'[c].pc = pc /\ ~call'[c].claimed
          /\ call'[c].player = call[c].player /\ call'[c].room = call[c].room
          /\ \A d \in Calls : d # c => call'[d] = call[d]
      BY <1>0, <2>1, <2>2, GoesKeeps
    <2>4. LockOK(c)' /\ RelyOK(c)' /\ UndoOK(c)'
      BY <2>1, <2>2, <2>3 DEF LockOK, RelyOK, UndoOK, Relies
    <2> QED
      BY <1>0, <2>2, <2>3, <2>4, QuietMove
  <1>7. ASSUME NEW c \in Calls, JoinCheck(c) PROVE Bound'
    <2>1. /\ call[c].pc = "check" /\ call[c].kind = "join" /\ call[c].room \in Rooms
          /\ UNCHANGED <<status, seated, binding, releasing>>
          /\ joinLock[call[c].room] = c /\ status[call[c].room] # "unused"
      BY <1>0, <1>7, CallCases DEF JoinCheck, Bound, LockOK, Past
    <2>2. CASE Ends(c) /\ ReleaseMutex(c)
      BY <1>0, <2>1, <2>2, EndsKeeps, IdleOK, UnlockOthers, MutexReleased, QuietMove
    <2>3. ASSUME NEW pc \in {"commit", "undo"}, Goes(c, pc), joinLock' = joinLock,
                 pc = "undo" /\ call[c].claimed => Spent(call[c].room, call[c].player)
          PROVE  Bound'
      <3>1. /\ call'[c].pc = pc /\ call'[c].kind = "join"
            /\ call'[c].claimed = call[c].claimed
            /\ call'[c].player = call[c].player /\ call'[c].room = call[c].room
            /\ \A d \in Calls : d # c => call'[d] = call[d]
        BY <1>0, <2>1, <2>3, GoesKeeps
      <3>2. LockOK(c)'
        BY <2>1, <2>3, <3>1 DEF LockOK
      <3>3. RelyOK(c)'
        <4>1. Relies(c)' => Relies(c)
          BY <2>1, <3>1 DEF Relies
        <4> QED
          BY <1>0, <2>1, <3>1, <4>1 DEF Bound, RelyOK, Spent
      <3>4. UndoOK(c)'
        BY <2>1, <2>3, <3>1 DEF UndoOK, Spent
      <3> QED
        BY <1>0, <2>1, <2>3, <3>1, <3>2, <3>3, <3>4, QuietMove
    <2>4. ASSUME call[c].claimed, ~Joinable(call[c].player, call[c].room),
                 ~(/\ ActiveRooms(call[c].player) \subseteq {call[c].room}
                   /\ status[call[c].room] = "open"
                   /\ call[c].player \in seated[call[c].room])
          PROVE  Spent(call[c].room, call[c].player)
      <3>1. ActiveRooms(call[c].player) = {}
        BY <1>0, <2>4 DEF Bound, ClaimOK
      <3>2. Cardinality(seated[call[c].room]) \in Nat
        BY <2>1, FS_CardinalityType DEF SeatInv
      <3>3. status[call[c].room] \in {"open", "closing", "closed"}
        BY <1>0, <2>1 DEF TypeOK
      <3> QED
        BY <2>4, <3>1, <3>2, <3>3, SeatingAssumption DEF Joinable, Spent
    <2> QED
      BY <1>7, <2>2, <2>3, <2>4 DEF JoinCheck
  <1>8. ASSUME NEW c \in Calls, Undo(c) PROVE Bound'
    <2>1. CASE ~call[c].claimed \/ binding' = binding
      <3>1. /\ Ends(c) /\ joinLock' \in {Unlock(c), Abandoned(c)}
            /\ UNCHANGED <<status, seated, binding, releasing>>
        BY <1>0, <1>8, <2>1, MutexReleased DEF Undo
      <3> QED
        BY <1>0, <3>1, EndsKeeps, IdleOK, UnlockOthers, QuietMove
    <2> QED
      BY <1>0, <1>8, <2>1, UndoStep
  <1>9. ASSUME NEW c \in Calls, Crash(c) PROVE Bound'
    <2>1. /\ Ends(c) /\ UNCHANGED <<status, seated, binding, releasing>>
          /\ \A d \in Calls, r \in Rooms : d # c /\ joinLock[r] = d => joinLock'[r] = d
      BY <1>9, UnlockOthers DEF Crash
    <2> QED
      BY <1>0, <2>1, EndsKeeps, IdleOK, QuietMove
  <1>10. ASSUME NEW r \in Rooms, LockExpires(r) PROVE Bound'
    <2>1. /\ joinLock[r] = Gone /\ joinLock' = [joinLock EXCEPT ![r] = None]
          /\ UNCHANGED <<status, seated, binding, call, releasing>>
      BY <1>10 DEF LockExpires, Fault
    <2>2. \A c \in Calls, q \in Rooms : joinLock[q] = c => joinLock'[q] = c
      BY <1>0, <2>1, SeatingAssumption DEF TypeOK
    <2>3. \A c \in Calls : LockOK(c)' /\ RelyOK(c)' /\ UndoOK(c)'
      <3> SUFFICES ASSUME NEW c \in Calls PROVE LockOK(c)' /\ RelyOK(c)' /\ UndoOK(c)'
        OBVIOUS
      <3>1. Past(c) => call[c].room \in Rooms
        BY CallCases DEF Past
      <3> QED
        BY <1>0, <2>1, <2>2, <3>1, StillOK DEF Bound
    <2>4. \A p : ActiveRooms(p)' = ActiveRooms(p)
      BY <2>1 DEF ActiveRooms
    <2> QED
      BY <1>0, <2>1, <2>3, <2>4 DEF Bound, ClaimOK, SeatOK, ReleaseOK
  <1>11. ASSUME NEW c \in Calls PROVE ~TxFails(c)
    BY DEF TxFails, Fault
  <1>12. ASSUME NEW p \in Players PROVE ~Unbound(p)
    BY DEF Unbound, Fault
  <1>13. CASE UNCHANGED vars
    BY <1>0, <1>13 DEF vars, Bound, LockOK, ClaimOK, RelyOK, UndoOK, SeatOK, ReleaseOK,
       Past, Relies, Spent, ActiveRooms
  <1>14. ASSUME NEW p \in Players, NEW r \in Rooms, CreateFails(p, r) PROVE Bound'
    <2>1. None \notin Calls
      BY SeatingAssumption
    <2> QED
      BY <1>0, <1>14, <2>1, ClaimStep DEF CreateFails
  <1>15. ASSUME NEW c \in Calls, JoinFails(c) PROVE Bound'
    <2>1. /\ call[c].kind = "join" /\ call[c].room \in Rooms
          /\ call[c].player \in Players /\ ~call[c].claimed
          /\ UNCHANGED <<status, seated, releasing>>
          /\ call[c].pc \in {"bind", "where"} => joinLock[call[c].room] = c
      BY <1>0, <1>15, IdleType DEF JoinFails, TypeInv, CallInv, CallOK, Bound, LockOK, Past
    <2>2. CASE call[c].pc = "lock"
      <3>1. /\ Ends(c) /\ UNCHANGED binding
            /\ \A d \in Calls, q \in Rooms : d # c /\ joinLock[q] = d => joinLock'[q] = d
        BY <1>0, <1>15, <2>2, SeatingAssumption DEF JoinFails, TypeOK
      <3> QED
        BY <1>0, <2>1, <3>1, EndsKeeps, IdleOK, QuietMove
    <2>3. CASE call[c].pc \in {"bind", "where"}
      <3>1. PICK pc \in {"undo", "where"} : Goes(c, pc)
        BY <1>15, <2>3 DEF JoinFails
      <3>2. /\ call'[c].pc = pc /\ ~call'[c].claimed /\ call'[c].room = call[c].room
            /\ \A d \in Calls : d # c => call'[d] = call[d]
        BY <1>0, <2>1, <3>1, GoesKeeps
      <3>3. LockOK(c)' /\ RelyOK(c)' /\ UndoOK(c)' /\ UNCHANGED joinLock
        BY <1>15, <2>1, <2>3, <3>2 DEF JoinFails, LockOK, RelyOK, UndoOK, Relies
      <3>4. CASE UNCHANGED binding
        BY <1>0, <2>1, <3>2, <3>3, <3>4, QuietMove
      <3>5. CASE /\ binding[call[c].player] = None
                 /\ binding' = [binding EXCEPT ![call[c].player] = call[c].room]
        BY <1>0, <2>1, <3>2, <3>3, <3>5, ClaimStep
      <3> QED
        BY <1>15, <2>3, <3>4, <3>5 DEF JoinFails
    <2> QED
      BY <1>15, <2>2, <2>3 DEF JoinFails
  <1>16. ASSUME NEW r \in Rooms, NEW p \in Players, Release(r, p) PROVE Bound'
    <2>1. CASE binding' = binding
      BY <1>0, <1>16, <2>1, ReleaseDropped DEF Release
    <2> QED
      BY <1>0, <1>16, <2>1, ReleaseStep
  <1>17. ASSUME NEW r \in Rooms, CloserDies(r) PROVE Bound'
    BY <1>0, <1>17, ReleaseDropped DEF CloserDies
  <1> QED
    BY <1>0, <1>1, <1>2, <1>3, <1>4, <1>5, <1>6, <1>7, <1>8, <1>9, <1>10, <1>11, <1>12,
       <1>13, <1>14, <1>15, <1>16, <1>17, CommitStep, EndRoomStep DEF Next

LEMMA BoundInvariant == Spec => []BoundInv
  <1>1. Init => BoundInv
    <2> SUFFICES ASSUME Init PROVE Bound
      BY DEF BoundInv
    <2>1. \A c \in Calls : LockOK(c) /\ ClaimOK(c) /\ RelyOK(c) /\ UndoOK(c)
      BY IdleType DEF Init, LockOK, ClaimOK, RelyOK, UndoOK, Past, Relies
    <2> QED
      BY <2>1 DEF Init, Bound, SeatOK, ReleaseOK, ActiveRooms
  <1>2. TypeInv /\ SeatInv /\ BoundInv /\ [Next]_vars => BoundInv'
    BY BoundInvStep
  <1> QED
    BY <1>1, <1>2, TypeInvariant, SeatInvariant, PTL DEF Spec

\* A player seated in an active room is bound to it, as the withdrawal and the
\* next join or create assume, for any number of racing calls, crashes and failed
\* Redis commands.
THEOREM SeatedAreBound == Spec => []SeatedIsBound
  <1>1. BoundInv => SeatedIsBound
    BY DEF BoundInv, Bound, SeatOK, SeatedIsBound
  <1> QED
    BY <1>1, BoundInvariant, PTL

\* GAME_RULES: a player sits in one active room at a time, for any number of
\* racing calls, crashes and failed Redis commands.
THEOREM OneSeatPerPlayer == Spec => []OneRoomWhileBound
  <1>1. ASSUME NEW p \in Players, SeatOK(p) PROVE Cardinality(ActiveRooms(p)) <= 1
    <2>1. CASE ActiveRooms(p) = {}
      BY <2>1, FS_EmptySet
    <2>2. ASSUME NEW r \in ActiveRooms(p) PROVE Cardinality(ActiveRooms(p)) = 1
      <3>1. ActiveRooms(p) = {r}
        BY <1>1, <2>2 DEF SeatOK
      <3> QED
        BY <3>1, FS_Singleton
    <2> QED
      BY <2>1, <2>2
  <1>2. BoundInv => OneRoomWhileBound
    BY <1>1 DEF BoundInv, Bound, OneRoomWhileBound, OneRoomPerPlayer
  <1> QED
    BY <1>2, BoundInvariant, PTL
==============================================================================
