--------------------------- MODULE RoomEngineProofs ---------------------------
(***************************************************************************)
(* Proofs about RoomEngine, for every set of players, every number of      *)
(* rounds, requests, faults and restarts.                                  *)
(***************************************************************************)
EXTENDS RoomEngine, TLAPS

\* Names for parts of the transactions, expanded in every proof below.
USE DEF NextNumber, NewRound, RoundNumberFree, RoomTakesBets, SettledBets,
        SettledRound, RecordedBets, StatusAfterRound

-----------------------------------------------------------------------------
(***************************************************************************)
(* The values a step computes.                                             *)
(***************************************************************************)
\* payout.go computes an integer, also when the product wraps around.
LEMMA PayoutInt == ASSUME NEW stake \in Nat PROVE Payout(stake) \in Int
  <1>1. \A x \in Int : Int64(x) \in Int
    BY MaxMoneyAssumption DEF Int64
  <1>2. \A x \in Int : Quo(x, 100) \in Int
    BY DEF Quo
  <1>3. stake * PayoutNumerator \in Int
    BY DEF PayoutNumerator
  <1> QED
    BY <1>1, <1>2, <1>3 DEF Payout, PayoutDenominator

\* dice.go: two valid dice always have an outcome.
LEMMA OutcomesAreChoices == Outcomes \subseteq Choices
  BY RoomAssumption DEF Outcomes, OutcomeOf, ValidDie, Choices

\* Bet.Settle keeps a bet a bet, and what it credits is a natural number.
LEMMA SettledBetType ==
    ASSUME NEW b \in BetRecords, NEW outcome
    PROVE  /\ SettledBet(b, outcome) \in BetRecords
           /\ Winnings(SettledBet(b, outcome)) \in Nat
  <1>1. Payout(b.amount) \in Int
    BY PayoutInt DEF BetRecords
  <1>2. SettledBet(b, outcome) \in BetRecords
    BY <1>1 DEF SettledBet, BetRecords, BetStates
  <1>3. \A x \in BetRecords : Winnings(x) \in Nat
    BY DEF Winnings, BetRecords
  <1> QED
    BY <1>2, <1>3

\* A ledger stays a sequence of integers.
LEMMA EntryType ==
    ASSUME NEW s \in Seq(Int), NEW a \in Int
    PROVE  Entry(s, a) \in Seq(Int)
  BY DEF Entry

\* What an abort pays is a natural number, round by round and in total.
LEMMA RefundType ==
    ASSUME TypeOK, NEW p \in Players
    PROVE  /\ \A r \in Rounds : Refund(r, p) \in Nat
           /\ RefundTotal(p) \in Nat
  <1>1. \A r \in Rounds : Refund(r, p) \in Nat
    BY DEF TypeOK, BetRecords, Refund
  <1> QED
    BY <1>1 DEF RefundTotal

\* The empty request and command records are well typed.
LEMMA IdleTypes == IdleCall \in CallRecords /\ NoCmd \in CmdRecords
  BY RoomAssumption DEF IdleCall, NoCmd, CallRecords, CmdRecords

\* The requests a loop leaves behind are requests.
LEMMA ReleasedType ==
    ASSUME NEW calls \in [Calls -> CallRecords]
    PROVE  Released(calls) \in [Calls -> CallRecords]
  BY IdleTypes DEF Released, CallRecords

-----------------------------------------------------------------------------
(***************************************************************************)
(* Type correctness.  Each transaction is typed on its own.                *)
(***************************************************************************)
dbType ==
    /\ status \in {"open", "closing", "closed"}
    /\ seats \subseteq Players
    /\ currentRound \in 0..MaxRounds
    /\ round \in [Rounds -> Choices \cup {"none", "betting"}]
    /\ bets \in [Rounds -> [Players -> BetRecords]]
    /\ balance \in [Players -> Nat]
    /\ ledger \in [Rounds -> [Players -> Seq(Int)]]
    /\ late \subseteq Rounds \X Players

loopType ==
    /\ loop \in {"none", "idle", "bet", "abort"}
    /\ timer \in 0..WindowTicks \cup {NoTimer}
    /\ live \in BOOLEAN
    /\ cmd \in CmdRecords
    /\ call \in [Calls -> CallRecords]

procType ==
    /\ proc \in {"up", "stopping", "down"}
    /\ boots \in 0..MaxBoots

\* A bet that is past its reads has found a round.
readType ==
    /\ loop = "bet" => cmd.round \in Rounds
    /\ \A c \in Calls : call[c].pc = "tx" => call[c].round \in Rounds

\* TypeOK in parts, and a process that is down may still boot.
TypeInv ==
    /\ TypeOK
    /\ readType
    /\ proc = "down" => boots < MaxBoots

LEMMA TypeParts ==
    TypeOK <=> /\ dbType /\ loopType /\ procType
               /\ window \in 0..WindowTicks /\ failed \subseteq TxKinds \X FaultKinds
  BY DEF TypeOK, dbType, loopType, procType

LEMMA FailedType ==
    ASSUME TypeOK, NEW tx \in TxKinds, NEW o, Ends(tx, o)
    PROVE  failed' \subseteq TxKinds \X FaultKinds
  BY DEF TypeOK, Ends

LEMMA StartTypes ==
    ASSUME TypeOK, NEW p, CanStart(p), StartRoundTx
    PROVE  dbType'
  BY RoomAssumption DEF TypeOK, dbType, CanStart, StartRoundTx, Rounds

\* The delay and the window arm computes from a whole number of ticks.
LEMMA DelayType ==
    ASSUME NEW elapsed \in 0..(WindowTicks + 1)
    PROVE  /\ NonNegative(WindowTicks - elapsed) \in 0..WindowTicks
           /\ Delay(WindowTicks - elapsed) \in 0..WindowTicks
  BY RoomAssumption DEF NonNegative, Delay

LEMMA PlaceBetTypes ==
    ASSUME TypeOK, NEW p \in Players, NEW r \in Rounds,
           NEW choice \in Choices \cup {"none"}, NEW amount \in Nat,
           CanCommitBet(p, r, amount), PlaceBetTx(p, r, choice, amount)
    PROVE  dbType'
  <1>1. NewBet(choice, amount) \in BetRecords
    BY DEF NewBet, BetRecords, BetStates
  <1>2. bets' \in [Rounds -> [Players -> BetRecords]]
    BY <1>1 DEF TypeOK, PlaceBetTx
  <1>3. balance' \in [Players -> Nat]
    BY DEF TypeOK, PlaceBetTx, CanCommitBet
  <1>4. ledger' \in [Rounds -> [Players -> Seq(Int)]]
    <2>1. ledger' = [ledger EXCEPT ![r][p] = Append(@, -amount)]
      BY DEF PlaceBetTx
    <2>2. r \in Rounds => Append(ledger[r][p], -amount) \in Seq(Int)
      BY DEF TypeOK
    <2> QED
      BY <2>1, <2>2 DEF TypeOK
  <1>5. late' \subseteq Rounds \X Players
    BY DEF TypeOK, PlaceBetTx
  <1> QED
    BY <1>2, <1>3, <1>4, <1>5 DEF TypeOK, dbType, PlaceBetTx

LEMMA SettleTypes ==
    ASSUME TypeOK, NEW r \in LiveRound, NEW outcome \in Outcomes,
           SettleRoundTx(r, outcome)
    PROVE  dbType'
  <1> DEFINE after == [p \in Players |-> SettledBet(bets[r][p], outcome)]
             won   == [p \in Players |->
                         IF bets[r][p].state = "open" THEN Winnings(after[p]) ELSE 0]
  <1>1. r \in Rounds /\ outcome \in Choices
    BY OutcomesAreChoices DEF LiveRound, LatestRound
  <1>2. after \in [Players -> BetRecords]
    BY <1>1, SettledBetType DEF TypeOK
  <1>3. won \in [Players -> Nat]
    BY <1>1, SettledBetType DEF TypeOK
  <1>4. /\ round' = [round EXCEPT ![r] = outcome]
        /\ bets' = [bets EXCEPT ![r] = after]
        /\ balance' = [p \in Players |-> balance[p] + won[p]]
        /\ ledger' = [ledger EXCEPT ![r] =
                        [p \in Players |-> Entry(ledger[r][p], won[p])]]
        /\ status' \in {"closed", status}
        /\ seats' = seats /\ currentRound' = currentRound /\ late' = late
    BY DEF SettleRoundTx
  <1> HIDE DEF after, won
  <1>5. [p \in Players |-> Entry(ledger[r][p], won[p])] \in [Players -> Seq(Int)]
    BY <1>1, <1>3, EntryType DEF TypeOK
  <1>6. /\ round' \in [Rounds -> Choices \cup {"none", "betting"}]
        /\ bets' \in [Rounds -> [Players -> BetRecords]]
        /\ ledger' \in [Rounds -> [Players -> Seq(Int)]]
    BY <1>1, <1>2, <1>4, <1>5 DEF TypeOK
  <1>7. balance' \in [Players -> Nat]
    BY <1>3, <1>4 DEF TypeOK
  <1> QED
    BY <1>4, <1>6, <1>7 DEF TypeOK, dbType

LEMMA AbortTypes ==
    ASSUME TypeOK, AbortRoomTx
    PROVE  dbType'
  <1>2. balance' \in [Players -> Nat]
    BY RefundType DEF TypeOK, AbortRoomTx
  <1>3. ASSUME NEW r \in Rounds, NEW p \in Players
        PROVE  Entry(ledger[r][p], Refund(r, p)) \in Seq(Int)
    <2>1. ledger[r][p] \in Seq(Int)
      BY DEF TypeOK
    <2>2. Refund(r, p) \in Int
      BY RefundType
    <2> QED
      BY <2>1, <2>2, EntryType
  <1>4. ledger' \in [Rounds -> [Players -> Seq(Int)]]
    BY <1>3 DEF AbortRoomTx
  <1> QED
    BY <1>2, <1>4 DEF TypeOK, dbType, AbortRoomTx

LEMMA AbortRoomTypes ==
    ASSUME TypeOK, NEW tx \in TxKinds, NEW o, AbortRoom(tx, o)
    PROVE  dbType' /\ failed' \subseteq TxKinds \X FaultKinds
  BY AbortTypes, FailedType, TypeParts DEF AbortRoom, dbVars, dbType

LEMMA CloseRoomTypes ==
    ASSUME TypeOK, NEW p, NEW o, CloseRoom(p, o)
    PROVE  dbType' /\ failed' \subseteq TxKinds \X FaultKinds
  <1>1. ASSUME CloseRoomTx PROVE dbType'
    BY <1>1 DEF TypeOK, dbType, CloseRoomTx
  <1> QED
    BY <1>1, FailedType, TypeParts DEF CloseRoom, dbVars, dbType, TxKinds

LEMMA CommitBetTypes ==
    ASSUME TypeOK, NEW p \in Players, NEW r \in Rounds,
           NEW choice \in Choices \cup {"none"}, NEW amount \in Nat, NEW o,
           CommitBet(p, r, choice, amount, o)
    PROVE  dbType' /\ failed' \subseteq TxKinds \X FaultKinds
  BY PlaceBetTypes, FailedType, TypeParts DEF CommitBet, dbVars, dbType, TxKinds

LEMMA ExitLoopTypes ==
    ASSUME NEW calls \in [Calls -> CallRecords], ExitLoop(calls)
    PROVE  loopType'
  BY ReleasedType, IdleTypes DEF ExitLoop, loopType

\* Only the reads of a bet put a round into a request or into the command.
LEMMA ReadTypeStep ==
    ASSUME TypeOK, readType, Next
    PROVE  readType'
  <1>0. LiveRound \subseteq Rounds /\ call \in [Calls -> CallRecords]
    BY DEF LiveRound, LatestRound, TypeOK
  <1>1. \A c \in Calls : Replied(c) \in [Calls -> CallRecords]
    BY <1>0, IdleTypes DEF Replied
  <1>2. ASSUME NEW c \in Calls PROVE \A d \in Calls :
            Replied(c)[d].pc = "tx" => Replied(c)[d].round \in Rounds
    BY <1>0 DEF Replied, IdleCall, readType
  <1>3. ASSUME NEW calls \in [Calls -> CallRecords], ExitLoop(calls),
               \A d \in Calls : calls[d].pc = "tx" => calls[d].round \in Rounds
        PROVE  readType'
    BY <1>3 DEF ExitLoop, Released, readType, IdleCall, CallRecords
  <1>4. ASSUME NEW c \in Calls, NEW kind, NEW p, NEW choice, NEW amount,
               Request(c, kind, p, choice, amount)
        PROVE  readType'
    BY <1>0, <1>4 DEF Request, readType
  <1>5. ASSUME NEW c \in Calls, call' = Replied(c), cmd' = cmd, loop' = loop
        PROVE  readType'
    BY <1>2, <1>5 DEF readType
  <1>6. ASSUME UNCHANGED <<call, cmd, loop>> PROVE readType'
    BY <1>6 DEF readType
  <1>7. CASE LoopNext
    <2>1. ASSUME NEW c \in Calls, LoopBetRead(c) PROVE readType'
      <3>1. CASE call' = Replied(c) /\ UNCHANGED <<loop, cmd>>
        BY <1>5, <3>1
      <3>2. ASSUME NEW r \in LiveRound, loop' = "bet", cmd'.round = r,
                   call' = [call EXCEPT ![c].pc = "wait"]
            PROVE  readType'
        BY <1>0, <3>2 DEF readType, CallRecords
      <3> QED
        BY <2>1, <3>1, <3>2 DEF LoopBetRead
    <2>2. ASSUME NEW c \in Calls, NEW o, LoopStart(c, o) PROVE readType'
      BY <1>5, <2>2 DEF LoopStart
    <2>3. ASSUME NEW c \in Calls, NEW o, LoopClose(c, o) PROVE readType'
      BY <1>1, <1>2, <1>3, <1>5, <2>3 DEF LoopClose, loopVars
    <2>4. ASSUME NEW o, LoopBetCommit(o) PROVE readType'
      BY <1>0, <2>4 DEF LoopBetCommit, readType, IdleCall
    <2>5. ASSUME NEW o, NEW outcome, LoopSettle(o, outcome) PROVE readType'
      <3>1. CASE ExitLoop(call)
        BY <1>0, <1>3, <3>1 DEF readType
      <3>2. CASE call' = call /\ loop' # "bet"
        BY <3>2 DEF readType
      <3>3. loop = "idle"
        BY <2>5 DEF LoopSettle
      <3> QED
        BY <2>5, <3>1, <3>2, <3>3 DEF LoopSettle
    <2>6. ASSUME NEW o, LoopAbort(o) \/ LoopQuit(o) PROVE readType'
      BY <1>0, <1>3, <2>6 DEF LoopAbort, LoopQuit, readType
    <2> QED
      BY <1>7, <2>1, <2>2, <2>3, <2>4, <2>5, <2>6 DEF LoopNext
  <1>8. CASE CallNext
    <2>1. ASSUME NEW c \in Calls, DirectBetRead(c) PROVE readType'
      <3>1. CASE call' = Replied(c)
        BY <1>5, <2>1, <3>1 DEF DirectBetRead, loopVars
      <3>2. ASSUME NEW r \in LiveRound,
                   call' = [call EXCEPT ![c] = [@ EXCEPT !.pc = "tx", !.round = r]]
            PROVE  readType'
        <4>1. r \in Rounds /\ UNCHANGED <<loop, cmd>>
          BY <1>0, <2>1 DEF DirectBetRead, loopVars
        <4>2. \A d \in Calls : d # c => call'[d] = call[d]
          BY <1>0, <3>2
        <4>3. call'[c].round = r
          <5>1. call'[c] = [call[c] EXCEPT !.pc = "tx", !.round = r]
            BY <1>0, <3>2
          <5> QED
            BY <1>0, <5>1 DEF CallRecords
        <4> QED
          BY <4>1, <4>2, <4>3 DEF readType
      <3> QED
        BY <2>1, <3>1, <3>2 DEF DirectBetRead
    <2>2. ASSUME NEW c \in Calls, GiveUp(c) PROVE readType'
      BY <1>5, <2>2 DEF GiveUp, Replied, loopVars
    <2>3. ASSUME NEW c \in Calls, NEW o, DirectBetCommit(c, o) \/ DirectClose(c, o)
          PROVE  readType'
      BY <1>5, <2>3 DEF DirectBetCommit, DirectClose, loopVars
    <2> QED
      BY <1>4, <1>8, <2>1, <2>2, <2>3
         DEF CallNext, RequestStart, RequestBet, RequestClose
  <1>9. CASE EnvNext
    <2>1. ASSUME ProcessEnds PROVE readType'
      BY <2>1 DEF ProcessEnds, readType, IdleCall
    <2>2. ASSUME NEW p, Join(p) PROVE readType'
      BY <1>6, <2>2 DEF Join, loopVars
    <2>3. ASSUME NEW o, Boot(o) PROVE readType'
      BY <1>6, <2>3 DEF Boot, loopVars
    <2>4. ASSUME Tick \/ Shutdown \/ PeerRecovers PROVE readType'
      BY <1>6, <2>4 DEF Tick, Shutdown, PeerRecovers, loopVars
    <2> QED
      BY <1>9, <2>1, <2>2, <2>3, <2>4 DEF EnvNext
  <1> QED
    BY <1>7, <1>8, <1>9 DEF Next

\* Every step keeps TypeInv: one case per action.
LEMMA TypeInvInductive == TypeInv /\ [Next]_vars => TypeInv'
  <1> SUFFICES ASSUME TypeInv, [Next]_vars PROVE TypeInv'
    OBVIOUS
  <1>read. readType'
    BY ReadTypeStep DEF TypeInv, readType, vars, loopVars
  <1>0. /\ TypeOK /\ dbType /\ loopType /\ procType
        /\ window \in 0..WindowTicks /\ failed \subseteq TxKinds \X FaultKinds
        /\ proc = "down" => boots < MaxBoots
        /\ readType
    BY TypeParts DEF TypeInv
  <1>goal. SUFFICES /\ dbType' /\ loopType' /\ procType'
                    /\ window' \in 0..WindowTicks /\ failed' \subseteq TxKinds \X FaultKinds
                    /\ proc' = "down" => boots' < MaxBoots
    BY <1>read DEF TypeInv, TypeOK, dbType, loopType, procType
  <1> DEFINE Goal == /\ dbType' /\ loopType' /\ procType'
                     /\ window' \in 0..WindowTicks /\ failed' \subseteq TxKinds \X FaultKinds
                     /\ proc' = "down" => boots' < MaxBoots
  <1>reply. \A c \in Calls : Replied(c) \in [Calls -> CallRecords]
    BY <1>0, IdleTypes DEF Replied, loopType
  <1>1. ASSUME NEW c \in Calls, NEW kind \in {"start", "bet", "close"},
               NEW p \in Players, NEW choice \in Choices \cup {"none"},
               NEW amount \in Nat, Request(c, kind, p, choice, amount)
        PROVE  Goal
    <2>1. loop' \in {"none", "idle", "bet", "abort"}
      BY <1>0, <1>1 DEF Request, loopType
    <2>2. call' \in [Calls -> CallRecords]
      BY <1>0, <1>1 DEF Request, loopType, CallRecords
    <2> QED
      BY <1>0, <1>1, <2>1, <2>2 DEF Request, dbVars, procVars,
         dbType, loopType, procType
  <1>2. ASSUME NEW c \in Calls, GiveUp(c) PROVE Goal
    BY <1>0, <1>2, IdleTypes DEF GiveUp, dbVars, loopVars, procVars,
         dbType, loopType, procType
  <1>3. ASSUME NEW c \in Calls, NEW o, LoopStart(c, o) PROVE Goal
    <2>1. dbType'
      BY <1>0, <1>3, StartTypes DEF LoopStart, dbVars, dbType
    <2>2. failed' \subseteq TxKinds \X FaultKinds
      BY <1>0, <1>3, FailedType DEF LoopStart, TxKinds
    <2>3. window' \in 0..WindowTicks /\ timer' \in 0..WindowTicks \cup {NoTimer}
      BY <1>0, <1>3, DelayType DEF LoopStart, loopType
    <2>4. loopType'
      BY <1>0, <1>3, <1>reply, <2>3 DEF LoopStart, loopType
    <2> QED
      BY <1>0, <1>3, <2>1, <2>2, <2>3, <2>4 DEF LoopStart, procVars, procType
  <1>4. ASSUME NEW c \in Calls, LoopBetRead(c) PROVE Goal
    <2>1. LiveRound \subseteq Rounds /\ call[c] \in CallRecords
      BY <1>0 DEF LiveRound, LatestRound, loopType
    <2>2. cmd' \in CmdRecords /\ loop' \in {"none", "idle", "bet", "abort"}
      BY <1>0, <1>4, <2>1 DEF LoopBetRead, loopType, CallRecords, CmdRecords
    <2>3. call' \in [Calls -> CallRecords]
      <3>1. [call[c] EXCEPT !.pc = "wait"] \in CallRecords
        BY <2>1 DEF CallRecords
      <3>2. CASE call' = [call EXCEPT ![c].pc = "wait"]
        BY <1>0, <3>1, <3>2 DEF loopType
      <3> QED
        BY <1>4, <1>reply, <3>2 DEF LoopBetRead
    <2> QED
      BY <1>0, <1>4, <2>2, <2>3 DEF LoopBetRead, dbVars, procVars,
         dbType, loopType, procType
  <1>5. ASSUME NEW o, LoopBetCommit(o) PROVE Goal
    <2>1. dbType' /\ failed' \subseteq TxKinds \X FaultKinds
      BY <1>0, <1>5, CommitBetTypes DEF LoopBetCommit, loopType, CmdRecords, readType
    <2>2. call' \in [Calls -> CallRecords]
      BY <1>0, <1>5, IdleTypes DEF LoopBetCommit, loopType
    <2> QED
      BY <1>0, <1>5, <2>1, <2>2, IdleTypes DEF LoopBetCommit,
         procVars, loopType, procType
  <1>6. ASSUME NEW c \in Calls, NEW o, LoopClose(c, o) PROVE Goal
    <2>1. dbType' /\ failed' \subseteq TxKinds \X FaultKinds
      BY <1>0, <1>6, CloseRoomTypes DEF LoopClose
    <2>2. loopType'
      BY <1>0, <1>6, <1>reply, ExitLoopTypes DEF LoopClose, loopVars, loopType
    <2> QED
      BY <1>0, <1>6, <2>1, <2>2 DEF LoopClose, procVars, procType
  <1>7. ASSUME NEW o, NEW outcome \in Outcomes, LoopSettle(o, outcome) PROVE Goal
    <2>1. dbType' /\ failed' \subseteq TxKinds \X FaultKinds
      <3>1. "settle" \in TxKinds
        BY DEF TxKinds
      <3>2. failed' \subseteq TxKinds \X FaultKinds
        BY <1>0, <1>7, <3>1, FailedType DEF LoopSettle
      <3>3. dbType'
        BY <1>0, <1>7, SettleTypes DEF LoopSettle, dbVars, dbType
      <3> QED
        BY <3>2, <3>3
    <2>2. loopType'
      BY <1>0, <1>7, ExitLoopTypes DEF LoopSettle, loopType
    <2> QED
      BY <1>0, <1>7, <2>1, <2>2 DEF LoopSettle, procVars, procType
  <1>8. ASSUME NEW o, LoopAbort(o) PROVE Goal
    <2>1. loopType'
      BY <1>0, <1>8, ExitLoopTypes DEF LoopAbort, loopType
    <2>2. "abort" \in TxKinds
      BY DEF TxKinds
    <2> QED
      BY <1>0, <1>8, <2>1, <2>2, AbortRoomTypes DEF LoopAbort, procVars, procType
  <1>9. ASSUME NEW o, LoopQuit(o) PROVE Goal
    <2>1. loopType'
      BY <1>0, <1>9, ExitLoopTypes DEF LoopQuit, loopType
    <2>2. dbType' /\ failed' \subseteq TxKinds \X FaultKinds
      <3>1. "abort" \in TxKinds
        BY DEF TxKinds
      <3> QED
        BY <1>0, <1>9, <3>1, AbortRoomTypes DEF LoopQuit, dbVars, dbType
    <2> QED
      BY <1>0, <1>9, <2>1, <2>2 DEF LoopQuit, procVars, procType
  <1>10. ASSUME NEW c \in Calls, NEW o, DirectClose(c, o) PROVE Goal
    BY <1>0, <1>10, <1>reply, CloseRoomTypes
       DEF DirectClose, loopVars, loopType, procVars, procType
  <1>12. ASSUME NEW c \in Calls, DirectBetRead(c) PROVE Goal
    <2>1. LiveRound \subseteq Rounds /\ call[c] \in CallRecords
      BY <1>0 DEF LiveRound, LatestRound, loopType
    <2>2. call' \in [Calls -> CallRecords]
      <3>1. \A r \in LiveRound :
                [call[c] EXCEPT !.pc = "tx", !.round = r] \in CallRecords
        BY <2>1 DEF CallRecords
      <3> QED
        BY <1>0, <1>12, <1>reply, <3>1 DEF DirectBetRead, loopType
    <2> QED
      BY <1>0, <1>12, <2>2 DEF DirectBetRead, dbVars, dbType,
         loopVars, loopType, procVars, procType
  <1>13. ASSUME NEW c \in Calls, NEW o, DirectBetCommit(c, o) PROVE Goal
    <2>1. call[c] \in CallRecords
      BY <1>0 DEF loopType
    <2>2. dbType' /\ failed' \subseteq TxKinds \X FaultKinds
      BY <1>0, <1>13, <2>1, CommitBetTypes DEF DirectBetCommit, CallRecords, readType
    <2> QED
      BY <1>0, <1>13, <1>reply, <2>2 DEF DirectBetCommit,
         loopVars, loopType, procVars, procType
  <1>14. ASSUME NEW p \in Players, Join(p) PROVE Goal
    BY <1>0, <1>14 DEF Join, dbType, loopVars, loopType, procVars, procType
  <1>16. ASSUME Tick PROVE Goal
    <2>1. window' \in 0..WindowTicks /\ timer' \in 0..WindowTicks \cup {NoTimer}
      BY <1>0, <1>16, RoomAssumption DEF Tick, loopType, NoTimer
    <2> QED
      BY <1>0, <1>16, <2>1 DEF Tick, dbVars, dbType, loopType, procVars, procType
  <1>17. ASSUME Shutdown PROVE Goal
    BY <1>0, <1>17 DEF Shutdown, dbVars, dbType,
         loopVars, loopType, procType
  <1>18. ASSUME ProcessEnds PROVE Goal
    BY <1>0, <1>18, IdleTypes DEF ProcessEnds, dbVars, dbType,
         loopType, procType
  <1>19. ASSUME NEW o, Boot(o) PROVE Goal
    <2>1. "recover" \in TxKinds
      BY DEF TxKinds
    <2> QED
      BY <1>0, <1>19, <2>1, AbortRoomTypes, RoomAssumption
         DEF Boot, loopVars, loopType, procType
  <1>20. ASSUME PeerRecovers PROVE Goal
    BY <1>0, <1>20, AbortTypes DEF PeerRecovers, loopVars, loopType, procVars,
         procType
  <1>21. CASE UNCHANGED vars
    BY <1>0, <1>21 DEF vars, dbVars, dbType, loopVars,
         loopType, procVars, procType
  <1>22. ASSUME NEW c \in Calls, RequestStart(c) \/ RequestBet(c) \/ RequestClose(c)
         PROVE  Goal
    <2>1. Amounts \subseteq Nat /\ BetChoices \subseteq Choices
      BY RoomAssumption
    <2> QED
      BY <1>1, <1>22, <2>1 DEF RequestStart, RequestBet, RequestClose
  <1>23. CASE LoopNext
    BY <1>3, <1>4, <1>5, <1>6, <1>7, <1>8, <1>9, <1>23 DEF LoopNext
  <1>24. CASE CallNext
    BY <1>2, <1>10, <1>12, <1>13, <1>22, <1>24 DEF CallNext
  <1>25. CASE EnvNext
    BY <1>14, <1>16, <1>17, <1>18, <1>19, <1>20, <1>25 DEF EnvNext
  <1> QED
    BY <1>21, <1>23, <1>24, <1>25 DEF Next

\* Every reachable state is typed; in particular no balance is ever negative,
\* whichever bets, settlements, refunds, faults and restarts interleave.
THEOREM RoomTyped == Spec => []TypeOK
  <1>1. Init => TypeInv
    <2>1. NoBet \in BetRecords
      BY DEF NoBet, BetRecords, BetStates
    <2>2. Init => dbType
      BY <2>1, RoomAssumption DEF Init, dbType
    <2>3. Init => loopType
      BY IdleTypes, RoomAssumption DEF Init, loopType
    <2>4. Init => /\ proc = "up" /\ boots = 0
                  /\ window = 0 /\ failed = {}
      BY Zenon DEF Init
    <2>5. 0 \in 0..WindowTicks /\ 0 \in 0..MaxBoots
      BY RoomAssumption
    <2>6. Init => /\ procType /\ proc # "down"
                  /\ window \in 0..WindowTicks /\ failed \subseteq TxKinds \X FaultKinds
      BY <2>4, <2>5 DEF procType
    <2>7. Init => readType
      BY DEF Init, readType, IdleCall
    <2> QED
      BY <2>2, <2>3, <2>6, <2>7, TypeParts DEF TypeInv
  <1>2. TypeInv => TypeOK
    BY DEF TypeInv
  <1> QED
    BY <1>1, <1>2, TypeInvInductive, PTL DEF Spec
==============================================================================
