--------------------------- MODULE RoomSafetyProofs ---------------------------
(***************************************************************************)
(* The safety of a room's money, proved from the type invariant, and that  *)
(* the room implements the stake book.                                     *)
(*                                                                         *)
(* Only five kinds of transaction write rounds, bets or money.  DbStep     *)
(* says so once, one case per action; each invariant is then proved over   *)
(* those five kinds.                                                       *)
(***************************************************************************)
EXTENDS RoomEngineProofs, WellFoundedInduction

\* Names for parts of the transactions, expanded in every proof below.
USE DEF NextNumber, NewRound, RoundNumberFree, RoomTakesBets, SettledBets,
        SettledRound, RecordedBets, StatusAfterRound

\* Nothing of the room's rounds, bets and money changes; a seat may be taken
\* in an open room.
DbIdle ==
    /\ UNCHANGED <<status, currentRound, round, bets, balance, ledger, late>>
    /\ status = "open" \/ UNCHANGED seats

DbStart ==
    /\ \E p : CanStart(p)
    /\ StartRoundTx

\* Where the round and the amount of a bet come from: what the loop read, or
\* what a bet past the loop read.
BetSource(p, r, amount) ==
    \/ /\ loop = "bet" /\ cmd.round = r /\ cmd.player = p
       /\ cmd.amount = amount
    \/ \E c \in Calls : /\ call[c].pc = "tx" /\ call[c].round = r
                        /\ call[c].player = p /\ call[c].amount = amount

DbBet ==
    \E p \in Players, r \in Rounds \cup {0}, choice \in Choices \cup {"none"},
       amount \in Nat :
        /\ BetSource(p, r, amount)
        /\ CanCommitBet(p, r, amount)
        /\ PlaceBetTx(p, r, choice, amount)

DbSettle ==
    /\ status # "closed" /\ timer = 0
    /\ \E r \in LiveRound, outcome \in Choices : SettleRoundTx(r, outcome)

DbAbort == status # "closed" /\ AbortRoomTx

DbClose == status # "closed" /\ CloseRoomTx

DbAny == DbIdle \/ DbStart \/ DbBet \/ DbSettle \/ DbAbort \/ DbClose

\* CommitBet on a call or on the loop's command, as a database step.
LEMMA CommitBetIsDb ==
    ASSUME NEW p \in Players, NEW r \in Rounds \cup {0},
           NEW choice \in Choices \cup {"none"}, NEW amount \in Nat, NEW o,
           BetSource(p, r, amount), CommitBet(p, r, choice, amount, o)
    PROVE  DbIdle \/ DbBet
  <1>1. \/ UNCHANGED dbVars
        \/ CanCommitBet(p, r, amount) /\ PlaceBetTx(p, r, choice, amount)
    BY DEF CommitBet
  <1>2. CASE UNCHANGED dbVars
    BY <1>2 DEF dbVars, DbIdle
  <1>3. CASE CanCommitBet(p, r, amount) /\ PlaceBetTx(p, r, choice, amount)
    BY <1>3 DEF DbBet
  <1> QED
    BY <1>1, <1>2, <1>3

LEMMA AbortRoomIsDb ==
    ASSUME NEW tx, NEW o, AbortRoom(tx, o) PROVE DbIdle \/ DbAbort
  <1>1. UNCHANGED dbVars \/ (status # "closed" /\ AbortRoomTx)
    BY DEF AbortRoom
  <1> QED
    BY <1>1 DEF dbVars, DbIdle, DbAbort

LEMMA CloseRoomIsDb ==
    ASSUME NEW p, NEW o, CloseRoom(p, o) PROVE DbIdle \/ DbClose
  <1>1. UNCHANGED dbVars \/ (status # "closed" /\ CloseRoomTx)
    BY DEF CloseRoom, CanClose
  <1> QED
    BY <1>1 DEF dbVars, DbIdle, DbClose

\* Every step is one of the five transactions or leaves the tables alone.
LEMMA DbStep ==
    ASSUME TypeOK, [Next]_vars PROVE DbAny
  <1>0. /\ LiveRound \subseteq Rounds
        /\ \A c \in Calls : call[c] \in CallRecords
        /\ cmd \in CmdRecords
    BY DEF TypeOK, LiveRound, LatestRound
  <1>idle. UNCHANGED dbVars => DbAny
    BY DEF dbVars, DbIdle, DbAny
  <1>1. ASSUME NEW c \in Calls, NEW o, LoopStart(c, o) PROVE DbAny
    <2>1. UNCHANGED dbVars \/ (CanStart(call[c].player) /\ StartRoundTx)
      BY <1>1 DEF LoopStart
    <2> QED
      BY <1>idle, <2>1 DEF DbStart, DbAny
  <1>2. ASSUME NEW o, LoopBetCommit(o) PROVE DbAny
    <2>1. /\ cmd.player \in Players /\ cmd.round \in Rounds \cup {0}
          /\ cmd.choice \in Choices \cup {"none"} /\ cmd.amount \in Nat
      BY <1>0 DEF CmdRecords
    <2>2. BetSource(cmd.player, cmd.round, cmd.amount)
      BY <1>2 DEF LoopBetCommit, BetSource
    <2>3. CommitBet(cmd.player, cmd.round, cmd.choice, cmd.amount, o)
      BY <1>2 DEF LoopBetCommit
    <2> QED
      BY <2>1, <2>2, <2>3, CommitBetIsDb DEF DbAny
  <1>3. ASSUME NEW c \in Calls, NEW o, LoopClose(c, o) \/ DirectClose(c, o)
        PROVE  DbAny
    BY <1>3, CloseRoomIsDb DEF LoopClose, DirectClose, DbAny
  <1>4. ASSUME NEW o, NEW outcome \in Outcomes, LoopSettle(o, outcome) PROVE DbAny
    <2>1. \/ UNCHANGED dbVars
          \/ /\ status # "closed" /\ timer = 0
             /\ \E r \in LiveRound : SettleRoundTx(r, outcome)
      BY <1>4 DEF LoopSettle, AlarmFires
    <2> QED
      BY <1>idle, <2>1, OutcomesAreChoices DEF DbSettle, DbAny
  <1>5. ASSUME NEW o, LoopAbort(o) \/ LoopQuit(o) \/ Boot(o) PROVE DbAny
    BY <1>5, <1>idle, AbortRoomIsDb DEF LoopAbort, LoopQuit, Boot, DbAny
  <1>6. ASSUME NEW c \in Calls, NEW o, DirectBetCommit(c, o) PROVE DbAny
    <2>1. /\ call[c].player \in Players /\ call[c].round \in Rounds \cup {0}
          /\ call[c].choice \in Choices \cup {"none"} /\ call[c].amount \in Nat
      BY <1>0 DEF CallRecords
    <2>2. BetSource(call[c].player, call[c].round, call[c].amount)
      BY <1>6 DEF DirectBetCommit, BetSource
    <2>3. CommitBet(call[c].player, call[c].round, call[c].choice,
                    call[c].amount, o)
      BY <1>6 DEF DirectBetCommit
    <2> QED
      BY <2>1, <2>2, <2>3, CommitBetIsDb DEF DbAny
  <1>7. ASSUME NEW p \in Players, Join(p) PROVE DbAny
    BY <1>7 DEF Join, DbIdle, DbAny
  <1>8. ASSUME PeerRecovers PROVE DbAny
    BY <1>8 DEF PeerRecovers, DbAbort, DbAny
  <1>9. ASSUME NEW c \in Calls,
               \/ RequestStart(c) \/ RequestBet(c) \/ RequestClose(c)
               \/ GiveUp(c) \/ DirectBetRead(c) \/ LoopBetRead(c)
        PROVE  DbAny
    BY <1>9, <1>idle DEF RequestStart, RequestBet, RequestClose, Request, GiveUp,
         DirectBetRead, LoopBetRead
  <1>11. CASE Tick \/ Shutdown \/ ProcessEnds \/ UNCHANGED vars
    BY <1>11, <1>idle DEF Tick, Shutdown, ProcessEnds, vars
  <1>12. CASE LoopNext
    BY <1>1, <1>2, <1>3, <1>4, <1>5, <1>9, <1>12 DEF LoopNext
  <1>13. CASE CallNext
    BY <1>3, <1>6, <1>9, <1>13 DEF CallNext
  <1>14. CASE EnvNext
    BY <1>5, <1>7, <1>8, <1>11, <1>14 DEF EnvNext
  <1> QED
    BY <1>11, <1>12, <1>13, <1>14 DEF Next
-----------------------------------------------------------------------------
\* The round that a settlement closes is the only one still taking bets.
LEMMA LiveRoundIsCurrent ==
    ASSUME TypeOK, OneLiveRound
    PROVE  /\ \A r \in LiveRound : r \in Rounds /\ round[r] = "betting"
           /\ \A r \in Rounds : round[r] = "betting" <=> r \in LiveRound
  <1>1. \A r \in Rounds : round[r] = "betting" => r \in LatestRound
    BY DEF OneLiveRound, LatestRound, Rounds, TypeOK
  <1> QED
    BY <1>1 DEF LiveRound, LatestRound

\* OneLiveRound is inductive on its own, given the types.
LEMMA OneLiveRoundStep ==
    ASSUME TypeOK, OneLiveRound, [Next]_vars
    PROVE  OneLiveRound'
  <1>1. CASE DbIdle \/ DbBet \/ DbAbort \/ DbClose
    <2>1. round' = round /\ currentRound' = currentRound
      BY <1>1 DEF DbIdle, DbBet, DbAbort, DbClose, PlaceBetTx, AbortRoomTx,
         CloseRoomTx
    <2> QED
      BY <2>1 DEF OneLiveRound
  <1>2. CASE DbStart
    <2>1. /\ LiveRound = {} /\ currentRound + 1 \in Rounds
          /\ currentRound' = currentRound + 1
          /\ round' = [round EXCEPT ![currentRound + 1] = "betting"]
      BY <1>2, RoomAssumption DEF DbStart, CanStart, StartRoundTx, TypeOK, Rounds
    <2>2. \A r \in Rounds : round[r] # "betting"
      BY <2>1, LiveRoundIsCurrent
    <2> QED
      BY <2>1, <2>2 DEF OneLiveRound, TypeOK, Rounds
  <1>3. CASE DbSettle
    <2>1. PICK r \in LiveRound, outcome \in Choices :
              /\ round' = [round EXCEPT ![r] = outcome]
              /\ currentRound' = currentRound
      BY <1>3 DEF DbSettle, SettleRoundTx
    <2>2. r \in Rounds /\ round[r] = "betting"
      BY LiveRoundIsCurrent
    <2> QED
      BY <2>1, <2>2 DEF OneLiveRound, TypeOK, Choices
  <1> QED
    BY <1>1, <1>2, <1>3, DbStep DEF DbAny

\* Rounds are numbered without gaps and only the last one takes bets, so the
\* round GetCurrent finds is the one rooms.current_round names.
THEOREM RoundsInSequence == Spec => []OneLiveRound
  <1>1. Init => OneLiveRound
    BY DEF Init, OneLiveRound, Rounds
  <1>2. TypeOK /\ OneLiveRound /\ [Next]_vars => OneLiveRound'
    BY OneLiveRoundStep
  <1> QED
    BY <1>1, <1>2, RoomTyped, PTL DEF Spec

\* An armed timer never runs ahead of the window: it was set to the time left
\* when arm ran, and both clocks run at the same pace since then.  It is armed
\* only while a round takes bets, so that a start finds it disarmed and a start
\* that is not acknowledged cannot leave an earlier one behind.
TimerInv ==
    timer # NoTimer => /\ timer >= window
                       /\ \E r \in Rounds : round[r] = "betting"

\* Only a settlement ends a round.
LEMMA BettingGoesOn ==
    ASSUME TypeOK, [Next]_vars, ~DbSettle, NEW r \in Rounds, round[r] = "betting"
    PROVE  round'[r] = "betting"
  <1>1. CASE DbIdle \/ DbBet \/ DbAbort \/ DbClose
    BY <1>1 DEF DbIdle, DbBet, DbAbort, DbClose, PlaceBetTx, AbortRoomTx,
       CloseRoomTx
  <1>2. CASE DbStart
    BY <1>2 DEF DbStart, StartRoundTx, TypeOK
  <1> QED
    BY <1>1, <1>2, DbStep DEF DbAny

\* TimerInv is kept by every step: the loop arms, fires and disarms the timer,
\* the clock moves it, and nothing else touches it.
LEMMA TimerStep ==
    ASSUME TypeOK, OneLiveRound, TimerInv, [Next]_vars
    PROVE  TimerInv'
  <1>0. /\ timer \in 0..WindowTicks \cup {NoTimer} /\ window \in 0..WindowTicks
        /\ NoTimer = -1 /\ WindowTicks \in Nat
    BY RoomAssumption DEF TypeOK, NoTimer
  <1>off. timer' = NoTimer => TimerInv'
    BY DEF TimerInv
  <1>same. ASSUME timer' = timer, window' = window, ~DbSettle PROVE TimerInv'
    BY <1>same, BettingGoesOn DEF TimerInv
  <1>round. ASSUME round' = round PROVE ~DbSettle
    <2>1. \A r \in LiveRound : r \in Rounds /\ round[r] = "betting"
      BY LiveRoundIsCurrent
    <2> QED
      BY <1>round, <2>1 DEF DbSettle, SettleRoundTx, Choices, TypeOK
  <1>1. ASSUME NEW c \in Calls, NEW o, LoopStart(c, o) PROVE TimerInv'
    <2>1. CASE UNCHANGED <<dbVars, window, timer>>
      BY <1>same, <1>round, <2>1 DEF dbVars
    <2>2. ASSUME CanStart(call[c].player), StartRoundTx,
                 NEW elapsed \in 0..(WindowTicks + 1),
                 window' = NonNegative(WindowTicks - elapsed),
                 timer' = IF o = "ok" THEN Delay(WindowTicks - elapsed) ELSE timer
          PROVE  TimerInv'
      <3>1. currentRound + 1 \in Rounds /\ round'[currentRound + 1] = "betting"
        BY <2>2, RoomAssumption DEF CanStart, StartRoundTx, TypeOK, Rounds
      <3>2. timer = NoTimer
        BY <2>2, LiveRoundIsCurrent DEF TimerInv, CanStart
      <3>3. NonNegative(WindowTicks - elapsed) \in Int
        BY <1>0 DEF NonNegative
      <3> QED
        BY <2>2, <3>1, <3>2, <3>3 DEF TimerInv, Delay
    <2> QED
      BY <1>1, <2>1, <2>2 DEF LoopStart
  <1>2. ASSUME NEW o, NEW outcome, LoopSettle(o, outcome) PROVE TimerInv'
    BY <1>2, <1>off DEF LoopSettle, ExitLoop
  <1>3. ASSUME NEW o, LoopAbort(o) \/ LoopQuit(o) PROVE TimerInv'
    BY <1>3, <1>off DEF LoopAbort, LoopQuit, ExitLoop
  <1>4. ASSUME NEW c \in Calls, NEW o, LoopClose(c, o) \/ DirectClose(c, o)
        PROVE  TimerInv'
    <2>1. window' = window /\ (timer' = timer \/ timer' = NoTimer)
      BY <1>4 DEF LoopClose, DirectClose, ExitLoop, loopVars
    <2>2. round' = round
      BY <1>4 DEF LoopClose, DirectClose, CloseRoom, CloseRoomTx, dbVars
    <2> QED
      BY <1>off, <1>same, <1>round, <2>1, <2>2
  <1>5. CASE Tick
    <2>1. /\ round' = round
          /\ window' = IF window > 0 THEN window - 1 ELSE window
          /\ timer' = IF timer > 0 THEN timer - 1 ELSE timer
      BY <1>5 DEF Tick, dbVars
    <2> QED
      BY <1>0, <2>1 DEF TimerInv
  <1>6. ASSUME NEW c \in Calls,
               \/ RequestStart(c) \/ RequestBet(c) \/ RequestClose(c)
               \/ GiveUp(c) \/ DirectBetRead(c) \/ LoopBetRead(c)
        PROVE  TimerInv'
    <2>1. timer' = timer /\ window' = window /\ round' = round
      BY <1>6 DEF RequestStart, RequestBet, RequestClose, Request, GiveUp,
         DirectBetRead, LoopBetRead, dbVars, loopVars
    <2> QED
      BY <1>same, <1>round, <2>1
  <1>7. ASSUME NEW c \in Calls, NEW o, DirectBetCommit(c, o) PROVE TimerInv'
    <2>1. timer' = timer /\ window' = window
      BY <1>7 DEF DirectBetCommit, loopVars
    <2>2. round' = round
      BY <1>7 DEF DirectBetCommit, CommitBet, PlaceBetTx, dbVars
    <2> QED
      BY <1>same, <1>round, <2>1, <2>2
  <1>8. ASSUME NEW o, LoopBetCommit(o) PROVE TimerInv'
    <2>1. timer' = timer /\ window' = window
      BY <1>8 DEF LoopBetCommit
    <2>2. round' = round
      BY <1>8 DEF LoopBetCommit, CommitBet, PlaceBetTx, dbVars
    <2> QED
      BY <1>same, <1>round, <2>1, <2>2
  <1>9. ASSUME NEW o, Boot(o) PROVE TimerInv'
    <2>1. timer' = timer /\ window' = window /\ round' = round
      BY <1>9 DEF Boot, AbortRoom, AbortRoomTx, dbVars, loopVars
    <2> QED
      BY <1>same, <1>round, <2>1
  <1>10. ASSUME NEW p \in Players, Join(p) PROVE TimerInv'
    BY <1>10, <1>same, <1>round DEF Join, loopVars
  <1>11. CASE Shutdown \/ PeerRecovers \/ UNCHANGED vars
    <2>1. timer' = timer /\ window' = window /\ round' = round
      BY <1>11 DEF Shutdown, PeerRecovers, AbortRoomTx, dbVars, loopVars, vars
    <2> QED
      BY <1>same, <1>round, <2>1
  <1>12. CASE ProcessEnds
    BY <1>12, <1>off DEF ProcessEnds
  <1>13. CASE LoopNext
    BY <1>1, <1>2, <1>3, <1>4, <1>6, <1>8, <1>13 DEF LoopNext
  <1>14. CASE CallNext
    BY <1>4, <1>6, <1>7, <1>14 DEF CallNext
  <1>15. CASE EnvNext
    BY <1>5, <1>9, <1>10, <1>11, <1>12, <1>15 DEF EnvNext
  <1> QED
    BY <1>11, <1>13, <1>14, <1>15 DEF Next

LEMMA TimerInvariant == Spec => []TimerInv
  <1>1. Init => TimerInv
    BY DEF Init, TimerInv
  <1>2. TypeOK /\ OneLiveRound /\ TimerInv /\ [Next]_vars => TimerInv'
    BY TimerStep
  <1> QED
    BY <1>1, <1>2, RoomTyped, RoundsInSequence, PTL DEF Spec

\* The alarm of an armed timer rings when the window has run out.
LEMMA AlarmAfterWindow ==
    ASSUME TypeOK, TimerInv, timer = 0
    PROVE  window = 0
  BY RoomAssumption DEF TypeOK, TimerInv, NoTimer

\* round.go: the dice are rolled only after the betting window has closed,
\* although Round.Settle does not check it, however long the start took and
\* whatever happened to the room since.
THEOREM DiceAfterWindow == Spec => SettleOnlyAfterWindow
  <1>1. TypeOK /\ TimerInv /\ [Next]_vars =>
            [\A r \in Rounds : (round[r] = "betting" /\ round'[r] # "betting")
                                    => window = 0]_vars
    <2> SUFFICES ASSUME TypeOK, TimerInv, [Next]_vars, NEW r \in Rounds,
                        round[r] = "betting", round'[r] # "betting"
                 PROVE  window = 0
      OBVIOUS
    <2>1. DbSettle
      BY BettingGoesOn
    <2> QED
      BY <2>1, AlarmAfterWindow DEF DbSettle
  <1> QED
    BY <1>1, RoomTyped, TimerInvariant, PTL DEF Spec, SettleOnlyAfterWindow
-----------------------------------------------------------------------------
(***************************************************************************)
(* No bet is credited twice: for every instance, the ones in which a bet   *)
(* slips past the loop or another process recovers the room included.      *)
(***************************************************************************)
\* The entries a stake of a may have, with credits allowed or not.
StakeOnly(s, a) == s = Append(<<>>, -a)
StakeAndCredit(s, a) == \E w \in Nat \ {0} : s = Append(Append(<<>>, -a), w)

\* The strengthening of NoDoubleCredit.  What each state of a bet allows in
\* the ledger: a stake still open has been credited only if the room was
\* closed (a refund), and a decided one only in a settled round, where no
\* refund reaches it.
CreditShape(r, p) ==
    LET b == bets[r][p] IN
    /\ b.state = "none" => ledger[r][p] = <<>>
    /\ b.state = "open" => \/ StakeOnly(ledger[r][p], b.amount)
                           \/ /\ status = "closed"
                              /\ StakeAndCredit(ledger[r][p], b.amount)
    /\ b.state \in {"won", "lost"} =>
           /\ round[r] \in Choices
           /\ \/ StakeOnly(ledger[r][p], b.amount)
              \/ StakeAndCredit(ledger[r][p], b.amount)

CreditInv == \A r \in Rounds, p \in Players : CreditShape(r, p)

\* A credit, or no credit of zero, after the stake.
LEMMA EntryShape ==
    ASSUME NEW s, NEW a, NEW w \in Nat, StakeOnly(s, a)
    PROVE  /\ w = 0 => StakeOnly(Entry(s, w), a)
           /\ w # 0 => StakeAndCredit(Entry(s, w), a)
  BY DEF StakeOnly, StakeAndCredit, Entry

\* What settling does to one bet of the settled round.
LEMMA SettledBetCases ==
    ASSUME NEW b \in BetRecords, NEW outcome
    PROVE  LET after == SettledBet(b, outcome) IN
           /\ after.amount = b.amount
           /\ after.choice = b.choice
           /\ b.state # "open" => after = b
           /\ b.state = "open" => /\ after.state \in {"won", "lost"}
                                  /\ after.state = "won" <=> b.choice = outcome
                                  /\ after.state = "lost" => Winnings(after) = 0
  BY PayoutInt DEF SettledBet, BetRecords, Matches, Winnings

\* What a settlement writes, player by player.
LEMMA SettleWrites ==
    ASSUME TypeOK, NEW r \in LiveRound, NEW outcome \in Choices,
           SettleRoundTx(r, outcome), NEW p \in Players
    PROVE  LET won == IF bets[r][p].state = "open"
                      THEN Winnings(SettledBet(bets[r][p], outcome)) ELSE 0 IN
           /\ r \in Rounds /\ round[r] = "betting" /\ round'[r] = outcome
           /\ bets'[r][p] = SettledBet(bets[r][p], outcome)
           /\ won \in Nat
           /\ balance'[p] = balance[p] + won
           /\ ledger'[r][p] = Entry(ledger[r][p], won)
           /\ \A q \in Rounds \ {r} : /\ round'[q] = round[q]
                                      /\ bets'[q] = bets[q]
                                      /\ ledger'[q] = ledger[q]
  <1>1. r \in Rounds /\ round[r] = "betting"
    BY DEF LiveRound, LatestRound
  <1>2. Winnings(SettledBet(bets[r][p], outcome)) \in Nat
    BY <1>1, SettledBetType DEF TypeOK
  <1> QED
    BY <1>1, <1>2 DEF SettleRoundTx, TypeOK

\* CreditInv is inductive on its own, given the types.
LEMMA CreditInvStep ==
    ASSUME TypeOK, CreditInv, [Next]_vars
    PROVE  CreditInv'
  <1> SUFFICES ASSUME NEW r \in Rounds, NEW p \in Players
               PROVE  CreditShape(r, p)'
    BY DEF CreditInv
  <1>0. CreditShape(r, p) /\ bets[r][p] \in BetRecords
    BY DEF CreditInv, TypeOK
  <1>1. CASE DbIdle
    BY <1>0, <1>1 DEF DbIdle, CreditShape
  <1>2. CASE DbStart
    <2>1. /\ status' = status /\ bets' = bets /\ ledger' = ledger
          /\ round[r] \in Choices => round'[r] = round[r]
      BY <1>2 DEF DbStart, CanStart, StartRoundTx, TypeOK, Choices
    <2> QED
      BY <1>0, <2>1 DEF CreditShape
  <1>3. CASE DbBet
    <2>1. PICK x \in Players, q \in Rounds \cup {0},
               choice \in Choices \cup {"none"}, amount \in Nat :
              CanCommitBet(x, q, amount) /\ PlaceBetTx(x, q, choice, amount)
      BY <1>3 DEF DbBet
    <2>2. /\ status' = status /\ round' = round
          /\ r = q /\ p = x =>
                 /\ bets'[r][p] = NewBet(choice, amount)
                 /\ ledger'[r][p] = Append(ledger[r][p], -amount)
          /\ ~(r = q /\ p = x) =>
                 bets'[r][p] = bets[r][p] /\ ledger'[r][p] = ledger[r][p]
      <3>1. PlaceBetTx(x, q, choice, amount)
        BY <2>1
      <3> QED
        BY <3>1 DEF PlaceBetTx, TypeOK
    <2>3. CASE r = q /\ p = x
      <3>1. ledger[r][p] = <<>>
        BY <1>0, <2>1, <2>3 DEF CanCommitBet, NoBet, CreditShape
      <3>2. /\ bets'[r][p] = NewBet(choice, amount)
            /\ ledger'[r][p] = Append(<<>>, -amount)
        BY <2>2, <2>3, <3>1
      <3> QED
        BY <3>2 DEF CreditShape, NewBet, StakeOnly
    <2>4. CASE ~(r = q /\ p = x)
      <3>1. bets'[r][p] = bets[r][p] /\ ledger'[r][p] = ledger[r][p]
        BY <2>2, <2>4
      <3> QED
        BY <1>0, <2>2, <3>1 DEF CreditShape
    <2> QED
      BY <2>3, <2>4
  <1>4. CASE DbSettle
    <2>1. PICK q \in LiveRound, outcome \in Choices : SettleRoundTx(q, outcome)
      BY <1>4 DEF DbSettle
    <2>2. status # "closed"
      BY <1>4 DEF DbSettle
    <2> DEFINE after == SettledBet(bets[r][p], outcome)
               won   == IF bets[r][p].state = "open" THEN Winnings(after) ELSE 0
    <2>3. CASE r = q
      <3>1. /\ round[r] = "betting" /\ round'[r] = outcome
            /\ bets'[r][p] = after /\ won \in Nat
            /\ ledger'[r][p] = Entry(ledger[r][p], won)
        BY <2>1, <2>3, SettleWrites
      <3>2. /\ after.amount = bets[r][p].amount
            /\ bets[r][p].state # "open" => after = bets[r][p]
            /\ bets[r][p].state = "open" => after.state \in {"won", "lost"}
        BY <1>0, SettledBetCases
      <3> HIDE DEF after
      <3>3. CASE bets[r][p].state = "open"
        <4>1. StakeOnly(ledger[r][p], bets[r][p].amount)
          BY <1>0, <2>2, <3>3 DEF CreditShape
        <4> HIDE DEF won
        <4>2. \/ StakeOnly(ledger'[r][p], after.amount)
              \/ StakeAndCredit(ledger'[r][p], after.amount)
          BY <3>1, <3>2, <4>1, EntryShape
        <4> QED
          BY <3>1, <3>2, <3>3, <4>2 DEF CreditShape
      <3>4. CASE bets[r][p].state # "open"
        <4>1. bets[r][p].state = "none"
          BY <1>0, <3>1, <3>4 DEF CreditShape, BetRecords, BetStates, Choices
        <4>2. ledger'[r][p] = ledger[r][p]
          BY <3>1, <3>4 DEF Entry
        <4> QED
          BY <1>0, <3>1, <3>2, <4>1, <4>2 DEF CreditShape
      <3> QED
        BY <3>3, <3>4
    <2>4. CASE r # q
      <3>1. /\ round'[r] = round[r] /\ bets'[r][p] = bets[r][p]
            /\ ledger'[r][p] = ledger[r][p]
        BY <2>1, <2>4, SettleWrites
      <3> QED
        BY <1>0, <2>2, <3>1 DEF CreditShape
    <2> QED
      BY <2>3, <2>4
  <1>5. CASE DbAbort
    <2>1. /\ status # "closed" /\ status' = "closed"
          /\ round' = round /\ bets' = bets
          /\ ledger'[r][p] = Entry(ledger[r][p], Refund(r, p))
      BY <1>5 DEF DbAbort, AbortRoomTx
    <2>2. Refund(r, p) \in Nat
      BY RefundType
    <2>3. CASE bets[r][p].state = "open"
      <3>1. StakeOnly(ledger[r][p], bets[r][p].amount)
        BY <1>0, <2>1, <2>3 DEF CreditShape
      <3>2. \/ StakeOnly(ledger'[r][p], bets[r][p].amount)
            \/ StakeAndCredit(ledger'[r][p], bets[r][p].amount)
        BY <2>1, <2>2, <3>1, EntryShape
      <3> QED
        BY <2>1, <2>3, <3>2 DEF CreditShape
    <2>4. CASE bets[r][p].state # "open"
      <3>1. Refund(r, p) = 0
        BY <2>4 DEF Refund
      <3>2. ledger'[r][p] = ledger[r][p]
        BY <2>1, <3>1 DEF Entry
      <3> QED
        BY <1>0, <2>1, <2>4, <3>2 DEF CreditShape
    <2> QED
      BY <2>3, <2>4
  <1>6. CASE DbClose
    <2>1. /\ status # "closed" /\ round' = round /\ bets' = bets
          /\ ledger' = ledger
      BY <1>6 DEF DbClose, CloseRoomTx
    <2> QED
      BY <1>0, <2>1 DEF CreditShape
  <1> QED
    BY <1>1, <1>2, <1>3, <1>4, <1>5, <1>6, DbStep DEF DbAny

\* No bet is ever credited twice: not by a settlement whose acknowledgement was
\* lost and the abort that follows, not by two processes recovering one room,
\* not when the bet itself arrived late.
THEOREM CreditedOnce == Spec => []NoDoubleCredit
  <1>1. Init => CreditInv
    BY DEF Init, CreditInv, CreditShape, NoBet
  <1>2. TypeOK /\ CreditInv /\ [Next]_vars => CreditInv'
    BY CreditInvStep
  <1>3. TypeOK /\ CreditInv => NoDoubleCredit
    <2> SUFFICES ASSUME TypeOK, CreditInv, NEW r \in Rounds, NEW p \in Players
                 PROVE  /\ Len(ledger[r][p]) <= 2
                        /\ Len(ledger[r][p]) >= 1 =>
                               ledger[r][p][1] = -bets[r][p].amount
                        /\ Len(ledger[r][p]) = 2 => ledger[r][p][2] > 0
      BY DEF NoDoubleCredit
    <2>1. bets[r][p].amount \in Nat /\ bets[r][p].state \in BetStates
      BY DEF TypeOK, BetRecords
    <2>2. \/ ledger[r][p] = <<>>
          \/ StakeOnly(ledger[r][p], bets[r][p].amount)
          \/ StakeAndCredit(ledger[r][p], bets[r][p].amount)
      BY <2>1 DEF CreditInv, CreditShape, BetStates
    <2>3. CASE ledger[r][p] = <<>>
      BY <2>3
    <2>4. CASE StakeOnly(ledger[r][p], bets[r][p].amount)
      BY <2>1, <2>4 DEF StakeOnly
    <2>5. CASE StakeAndCredit(ledger[r][p], bets[r][p].amount)
      <3>1. PICK w \in Nat \ {0} :
                ledger[r][p] = Append(Append(<<>>, -bets[r][p].amount), w)
        BY <2>5 DEF StakeAndCredit
      <3> QED
        BY <2>1, <3>1
    <2> QED
      BY <2>2, <2>3, <2>4, <2>5
  <1> QED
    BY <1>1, <1>2, <1>3, RoomTyped, PTL DEF Spec
-----------------------------------------------------------------------------
(***************************************************************************)
(* Every stake is resolved, but for a bet committed after its book was     *)
(* closed, and such a bet did not come from the loop unless a second       *)
(* process recovered the room.                                             *)
(***************************************************************************)
\* Requests in flight: every bet has a stake, and one between the reads and the
\* commit of a transaction of its own has read a round.
CallsOK(calls) ==
    \A c \in Calls :
        /\ calls[c].kind = "bet" => calls[c].amount # 0
        /\ calls[c].pc = "tx" => calls[c].kind = "bet" /\ calls[c].round \in Rounds

\* The bet the loop has read still goes to the round that takes bets, and, if
\* no other process recovers rooms, in a room that is not closed: whatever
\* else runs between the two halves of PlaceBet cannot close the book under it.
BetPendingOK ==
    loop = "bet" => /\ cmd.round \in Rounds /\ round[cmd.round] = "betting"
                    /\ cmd.amount # 0
                    /\ status = "closed" => PeerBoot

PendingInv ==
    /\ proc = "down" => loop = "none"
    /\ BetPendingOK
    /\ CallsOK(call)

\* The same for a bet past the loop: its round exists, and a window at least
\* as long as the request is still open, so its round still takes bets.
LateBetsOK ==
    \A c \in Calls : call[c].pc = "tx" =>
        /\ round[call[c].round] # "none"
        /\ LongWindow => window > 0 /\ round[call[c].round] = "betting"

\* Answering a request, or releasing those a loop leaves behind, is safe.
LEMMA CallsOKKept ==
    ASSUME NEW calls \in [Calls -> CallRecords], CallsOK(calls)
    PROVE  /\ CallsOK(Released(calls))
           /\ \A c \in Calls : CallsOK([calls EXCEPT ![c] = IdleCall])
  <1>1. IdleCall.pc = "idle" /\ IdleCall.kind = "none"
    BY DEF IdleCall
  <1>2. \A x \in CallRecords : /\ [x EXCEPT !.pc = "direct"].pc = "direct"
                               /\ [x EXCEPT !.pc = "direct"].kind = x.kind
                               /\ [x EXCEPT !.pc = "direct"].amount = x.amount
    BY DEF CallRecords
  <1>3. CallsOK(Released(calls))
    BY <1>1, <1>2 DEF CallsOK, Released
  <1>4. \A c \in Calls : CallsOK([calls EXCEPT ![c] = IdleCall])
    BY <1>1 DEF CallsOK
  <1> QED
    BY <1>3, <1>4

\* PendingInv is kept by every step, one case per action.
LEMMA PendingStep ==
    ASSUME TypeOK, OneLiveRound, PendingInv, [Next]_vars
    PROVE  PendingInv'
  <1>0. /\ call \in [Calls -> CallRecords] /\ CallsOK(call) /\ BetPendingOK
        /\ proc = "down" => loop = "none"
    BY DEF TypeOK, PendingInv
  <1>reply. \A c \in Calls : /\ CallsOK(Replied(c))
                             /\ Replied(c) \in [Calls -> CallRecords]
    BY <1>0, CallsOKKept, IdleTypes DEF Replied
  <1>exit. \A calls \in [Calls -> CallRecords] :
              CallsOK(calls) /\ ExitLoop(calls) => PendingInv'
    <2> SUFFICES ASSUME NEW calls \in [Calls -> CallRecords],
                        CallsOK(calls), ExitLoop(calls)
                 PROVE  PendingInv'
      OBVIOUS
    <2>1. loop' = "none" /\ CallsOK(call')
      BY CallsOKKept DEF ExitLoop
    <2> QED
      BY <2>1 DEF PendingInv, BetPendingOK, CallsOK
  \* Nothing but the requests changes.
  <1>same. ASSUME CallsOK(call'), UNCHANGED <<proc, loop, cmd, status, round>>
           PROVE  PendingInv'
    BY <1>0, <1>same DEF PendingInv, BetPendingOK, CallsOK
  <1>1. ASSUME NEW c \in Calls, NEW kind, NEW p, NEW choice, NEW amount,
               kind = "bet" => amount # 0, Request(c, kind, p, choice, amount)
        PROVE  PendingInv'
    <2>1. CallsOK(call')
      BY <1>0, <1>1 DEF Request, CallsOK
    <2>2. /\ loop' = "bet" => loop = "bet" /\ proc' # "down" /\ proc' = proc
          /\ cmd' = cmd /\ status' = status /\ round' = round
          /\ proc = "up" /\ proc' = "up"
      BY <1>1 DEF Request, dbVars, procVars
    <2> QED
      BY <1>0, <2>1, <2>2 DEF PendingInv, BetPendingOK, CallsOK
  <1>2. ASSUME NEW c \in Calls, GiveUp(c) PROVE PendingInv'
    <2>1. CallsOK(call')
      BY <1>0, <1>2, CallsOKKept DEF GiveUp
    <2> QED
      BY <1>2, <1>same, <2>1 DEF GiveUp, dbVars, loopVars, procVars
  <1>3. ASSUME NEW c \in Calls, NEW o, LoopStart(c, o) PROVE PendingInv'
    <2>1. loop = "idle" /\ loop' = "idle" /\ proc' = proc /\ CallsOK(call')
      BY <1>3, <1>reply DEF LoopStart, Taken, procVars
    <2> QED
      BY <1>0, <2>1 DEF PendingInv, BetPendingOK, CallsOK
  <1>4. ASSUME NEW c \in Calls, LoopBetRead(c) PROVE PendingInv'
    <2>1. loop = "idle" /\ proc' = proc /\ status' = status /\ round' = round
      BY <1>4 DEF LoopBetRead, Taken, dbVars, procVars
    <2>2. ASSUME NEW r \in LiveRound, CanBet(call[c].player, r), loop' = "bet",
                 cmd' = [player |-> call[c].player, choice |-> call[c].choice,
                         amount |-> call[c].amount, round |-> r],
                 call' = [call EXCEPT ![c].pc = "wait"]
          PROVE  PendingInv'
      <3>1. call[c].amount # 0
        BY <1>0, <1>4 DEF LoopBetRead, Taken, CallsOK
      <3>2. cmd'.round = r /\ cmd'.amount = call[c].amount
        BY <2>2
      <3>3. CallsOK(call')
        <4>1. \A d \in Calls : /\ d # c => call'[d] = call[d]
                               /\ call'[c].pc = "wait"
                               /\ call'[c].kind = call[c].kind
                               /\ call'[c].amount = call[c].amount
          BY <1>0, <2>2 DEF CallRecords
        <4> QED
          BY <1>0, <4>1 DEF CallsOK
      <3>4. r \in Rounds /\ round[r] = "betting" /\ status # "closed"
        BY <2>2 DEF CanBet, LiveRound, LatestRound
      <3> QED
        BY <1>0, <2>1, <2>2, <3>1, <3>2, <3>3, <3>4
           DEF PendingInv, BetPendingOK, CallsOK
    <2>3. CASE call' = Replied(c) /\ UNCHANGED <<loop, cmd>>
      BY <1>0, <1>reply, <2>1, <2>3 DEF PendingInv, BetPendingOK, CallsOK
    <2> QED
      BY <1>4, <2>2, <2>3 DEF LoopBetRead
  <1>5. ASSUME NEW o, LoopBetCommit(o) PROVE PendingInv'
    <2>1. loop = "bet" /\ loop' = "idle" /\ proc' = proc
      BY <1>5 DEF LoopBetCommit, procVars
    <2>2. CallsOK(call')
      BY <1>0, <1>5 DEF LoopBetCommit, CallsOK, IdleCall
    <2> QED
      BY <1>0, <2>1, <2>2 DEF PendingInv, BetPendingOK, CallsOK
  <1>6. ASSUME NEW c \in Calls, NEW o, LoopClose(c, o) PROVE PendingInv'
    <2>1. loop = "idle" /\ proc' = proc
      BY <1>6 DEF LoopClose, Taken, procVars
    <2>2. CASE call' = Replied(c) /\ UNCHANGED loopVars
      BY <1>0, <1>reply, <2>1, <2>2 DEF loopVars, PendingInv, BetPendingOK, CallsOK
    <2> QED
      BY <1>6, <1>reply, <1>exit, <2>2 DEF LoopClose
  <1>7. ASSUME NEW o, NEW outcome, LoopSettle(o, outcome) PROVE PendingInv'
    <2>1. loop = "idle" /\ proc' = proc
      BY <1>7 DEF LoopSettle, procVars
    <2>2. CASE loop' \in {"idle", "abort"} /\ call' = call
      BY <1>0, <2>1, <2>2 DEF PendingInv, BetPendingOK, CallsOK
    <2>3. ExitLoop(call) \/ (loop' \in {"idle", "abort"} /\ call' = call)
      BY <1>7, <2>1 DEF LoopSettle
    <2> QED
      BY <1>0, <1>exit, <2>2, <2>3
  <1>8. ASSUME NEW o, LoopAbort(o) \/ LoopQuit(o) PROVE PendingInv'
    BY <1>0, <1>8, <1>exit DEF LoopAbort, LoopQuit
  <1>9. ASSUME NEW c \in Calls, NEW o, DirectClose(c, o) PROVE PendingInv'
    <2>1. /\ call' = Replied(c) /\ proc' = proc /\ loop' = loop /\ cmd' = cmd
          /\ CloseRoom(call[c].player, o)
      BY <1>9 DEF DirectClose, loopVars, procVars
    <2>2. round' = round
      BY <2>1 DEF CloseRoom, CloseRoomTx, dbVars
    <2>3. loop = "bet" => LiveRound # {}
      BY <1>0, LiveRoundIsCurrent DEF BetPendingOK
    <2>4. loop = "bet" /\ status' = "closed" => PeerBoot
      BY <1>0, <2>1, <2>3 DEF CloseRoom, CloseRoomTx, BetPendingOK, dbVars
    <2> QED
      BY <1>0, <1>reply, <2>1, <2>2, <2>4 DEF PendingInv, BetPendingOK, CallsOK
  <1>11. ASSUME NEW c \in Calls, DirectBetRead(c) PROVE PendingInv'
    <2>1. UNCHANGED <<proc, loop, cmd, status, round>>
      BY <1>11 DEF DirectBetRead, dbVars, loopVars, procVars
    <2>2. ASSUME NEW r \in LiveRound,
                 call' = [call EXCEPT ![c] = [@ EXCEPT !.pc = "tx", !.round = r]]
          PROVE  CallsOK(call')
      <3>1. r \in Rounds /\ call[c].kind = "bet"
        BY <1>11 DEF DirectBetRead, Direct, LiveRound, LatestRound
      <3>2. \A d \in Calls : /\ d # c => call'[d] = call[d]
                             /\ call'[c].round = r
                             /\ call'[c].kind = call[c].kind
                             /\ call'[c].amount = call[c].amount
        BY <1>0, <2>2 DEF CallRecords
      <3> QED
        BY <1>0, <3>1, <3>2 DEF CallsOK
    <2> QED
      BY <1>11, <1>reply, <1>same, <2>1, <2>2 DEF DirectBetRead
  <1>22. ASSUME NEW c \in Calls, NEW o, DirectBetCommit(c, o) PROVE PendingInv'
    <2>1. call' = Replied(c) /\ UNCHANGED <<proc, loop, cmd>>
      BY <1>22 DEF DirectBetCommit, loopVars, procVars
    <2>2. status' = status /\ round' = round
      BY <1>22 DEF DirectBetCommit, CommitBet, PlaceBetTx, dbVars
    <2> QED
      BY <1>reply, <1>same, <2>1, <2>2
  <1>12. ASSUME NEW p \in Players, Join(p) PROVE PendingInv'
    BY <1>0, <1>12, <1>same DEF Join, loopVars, procVars, CallsOK
  <1>13. CASE Tick \/ UNCHANGED vars
    BY <1>0, <1>13, <1>same DEF Tick, vars, dbVars, loopVars, procVars, CallsOK
  <1>14. CASE Shutdown
    BY <1>0, <1>14 DEF Shutdown, dbVars, loopVars, PendingInv, BetPendingOK, CallsOK
  <1>15. CASE ProcessEnds
    BY <1>15 DEF ProcessEnds, PendingInv, BetPendingOK, CallsOK, IdleCall
  <1>16. ASSUME NEW o, Boot(o) PROVE PendingInv'
    BY <1>0, <1>16 DEF Boot, loopVars, PendingInv, BetPendingOK, CallsOK
  <1>17. CASE PeerRecovers
    <2>1. PeerBoot /\ round' = round /\ call' = call /\ UNCHANGED <<proc, loopVars>>
      BY <1>17 DEF PeerRecovers, AbortRoomTx, procVars
    <2> QED
      BY <1>0, <2>1 DEF loopVars, PendingInv, BetPendingOK, CallsOK
  <1>18. ASSUME NEW c \in Calls, RequestStart(c) \/ RequestBet(c) \/ RequestClose(c)
         PROVE  PendingInv'
    <2>1. \A a \in Amounts : a # 0
      BY RoomAssumption
    <2> QED
      BY <1>1, <1>18, <2>1 DEF RequestStart, RequestBet, RequestClose
  <1>19. CASE LoopNext
    BY <1>3, <1>4, <1>5, <1>6, <1>7, <1>8, <1>19 DEF LoopNext
  <1>20. CASE CallNext
    BY <1>2, <1>9, <1>11, <1>18, <1>20, <1>22 DEF CallNext
  <1>21. CASE EnvNext
    BY <1>12, <1>13, <1>14, <1>15, <1>16, <1>17, <1>21 DEF EnvNext
  <1> QED
    BY <1>13, <1>19, <1>20, <1>21 DEF Next

\* Where a bet between its reads and its commit comes from, and that a window
\* no shorter than the request does not close while there is one.
LEMMA LateBetsFrom ==
    ASSUME TypeOK, OneLiveRound, PendingInv, LateBetsOK, [Next]_vars,
           NEW c \in Calls, call'[c].pc = "tx"
    PROVE  /\ \/ call[c].pc = "tx" /\ call'[c] = call[c]
              \/ /\ window > 0 /\ call'[c].round \in LiveRound
                 /\ status # "closed"
           /\ LongWindow /\ window > 0 => window' > 0
  <1> DEFINE Goal == /\ \/ call[c].pc = "tx" /\ call'[c] = call[c]
                        \/ /\ window > 0 /\ call'[c].round \in LiveRound
                           /\ status # "closed"
                     /\ LongWindow /\ window > 0 => window' > 0
  <1>0. call \in [Calls -> CallRecords]
    BY DEF TypeOK
  <1>idle. IdleCall.pc = "idle"
    BY DEF IdleCall
  <1>same. ASSUME call'[c] = call[c], window' = window PROVE Goal
    BY <1>same
  <1>reply. ASSUME NEW d \in Calls, call' = Replied(d) PROVE call'[c] = call[c]
    BY <1>0, <1>idle, <1>reply DEF Replied
  <1>exit. ASSUME NEW calls \in [Calls -> CallRecords], call' = Released(calls)
           PROVE  call'[c] = calls[c]
    <2>1. [calls[c] EXCEPT !.pc = "direct"].pc = "direct"
      BY DEF CallRecords
    <2> QED
      BY <1>exit, <1>idle, <2>1 DEF Released
  <1>1. ASSUME NEW d \in Calls, NEW kind, NEW p, NEW choice, NEW amount,
               Request(d, kind, p, choice, amount)
        PROVE  Goal
    BY <1>0, <1>1, <1>same DEF Request
  <1>2. ASSUME NEW d \in Calls, GiveUp(d) PROVE Goal
    BY <1>0, <1>2, <1>idle, <1>same DEF GiveUp
  <1>3. ASSUME NEW d \in Calls, NEW o, LoopStart(d, o) PROVE Goal
    <2>1. call'[c] = call[c]
      BY <1>3, <1>reply DEF LoopStart
    <2>2. CASE window' = window
      BY <1>same, <2>1, <2>2
    \* A start finds no betting round, so no bet that a long window protects.
    <2>3. CASE CanStart(call[d].player)
      <3>1. \A r \in Rounds : round[r] # "betting"
        BY <2>3, LiveRoundIsCurrent DEF CanStart
      <3>2. ~LongWindow
        BY <2>1, <3>1 DEF LateBetsOK, PendingInv, CallsOK
      <3> QED
        BY <2>1, <3>2
    <2> QED
      BY <1>3, <2>2, <2>3 DEF LoopStart
  <1>4. ASSUME NEW d \in Calls, LoopBetRead(d) PROVE Goal
    <2>1. CASE call' = [call EXCEPT ![d].pc = "wait"]
      <3>1. call'[d].pc = "wait" /\ (c # d => call'[c] = call[c])
        BY <1>0, <2>1 DEF CallRecords
      <3> QED
        BY <1>4, <1>same, <3>1 DEF LoopBetRead
    <2> QED
      BY <1>4, <1>reply, <1>same, <2>1 DEF LoopBetRead
  <1>5. ASSUME NEW o, LoopBetCommit(o) PROVE Goal
    BY <1>5, <1>idle, <1>same DEF LoopBetCommit
  <1>6. ASSUME NEW d \in Calls, NEW o, LoopClose(d, o) PROVE Goal
    <2>1. Replied(d) \in [Calls -> CallRecords]
      BY <1>0, IdleTypes DEF Replied
    <2>2. CASE call' = Released(Replied(d))
      <3>1. call'[c] = Replied(d)[c]
        BY <1>exit, <2>1, <2>2
      <3>2. call'[c] = call[c]
        BY <1>0, <1>idle, <3>1 DEF Replied
      <3> QED
        BY <1>6, <1>same, <3>2 DEF LoopClose
    <2> QED
      BY <1>6, <1>reply, <1>same, <2>2 DEF LoopClose, ExitLoop
  <1>7. ASSUME NEW o, NEW outcome, LoopSettle(o, outcome) PROVE Goal
    BY <1>0, <1>7, <1>exit, <1>same DEF LoopSettle, ExitLoop
  <1>8. ASSUME NEW o, LoopAbort(o) \/ LoopQuit(o) PROVE Goal
    BY <1>0, <1>8, <1>exit, <1>same DEF LoopAbort, LoopQuit, ExitLoop
  <1>9. ASSUME NEW d \in Calls, NEW o, DirectClose(d, o) \/ DirectBetCommit(d, o)
        PROVE  Goal
    BY <1>9, <1>reply, <1>same DEF DirectClose, DirectBetCommit
  <1>10. ASSUME NEW d \in Calls, DirectBetRead(d) PROVE Goal
    <2>1. ASSUME NEW r \in LiveRound, CanBet(call[d].player, r),
                 call' = [call EXCEPT ![d] = [@ EXCEPT !.pc = "tx", !.round = r]]
          PROVE  Goal
      <3>1. call'[d].round = r /\ (c # d => call'[c] = call[c])
        BY <1>0, <2>1 DEF CallRecords
      <3>2. window > 0 /\ window' = window /\ status # "closed"
        BY <1>10, <2>1 DEF CanBet, DirectBetRead
      <3> QED
        BY <3>1, <3>2, <1>same
    <2> QED
      BY <1>10, <1>reply, <1>same, <2>1 DEF DirectBetRead
  <1>11. ASSUME NEW p \in Players, Join(p) PROVE Goal
    BY <1>11, <1>same DEF Join
  <1>12. CASE Tick
    <2>1. window \in Int
      BY RoomAssumption DEF TypeOK
    <2> QED
      BY <1>12, <2>1 DEF Tick
  <1>13. CASE Shutdown \/ PeerRecovers \/ UNCHANGED vars
    BY <1>13, <1>same DEF Shutdown, PeerRecovers, vars
  <1>14. CASE ProcessEnds
    BY <1>14, <1>idle DEF ProcessEnds
  <1>15. ASSUME NEW o, Boot(o) PROVE Goal
    BY <1>15, <1>same DEF Boot
  <1>16. CASE LoopNext
    BY <1>3, <1>4, <1>5, <1>6, <1>7, <1>8, <1>16 DEF LoopNext
  <1>17. CASE CallNext
    BY <1>1, <1>2, <1>9, <1>10, <1>17 DEF CallNext, RequestStart, RequestBet,
       RequestClose
  <1>18. CASE EnvNext
    BY <1>11, <1>12, <1>13, <1>14, <1>15, <1>18 DEF EnvNext
  <1> QED
    BY <1>13, <1>16, <1>17, <1>18 DEF Next

\* The bet the loop is about to write: where it comes from.
LEMMA LoopBetFrom ==
    ASSUME [Next]_vars, loop' = "bet"
    PROVE  (loop = "bet" /\ cmd' = cmd) \/ status # "closed"
  <1> DEFINE Goal == (loop = "bet" /\ cmd' = cmd) \/ status # "closed"
  <1>1. ASSUME NEW c \in Calls, LoopBetRead(c) PROVE Goal
    BY <1>1 DEF LoopBetRead, CanBet
  <1>2. ASSUME NEW c \in Calls, NEW o, LoopStart(c, o) \/ LoopClose(c, o)
        PROVE  Goal
    BY <1>2 DEF LoopStart, LoopClose, ExitLoop, loopVars
  <1>3. ASSUME NEW o, LoopBetCommit(o) \/ LoopAbort(o) \/ LoopQuit(o) PROVE Goal
    BY <1>3 DEF LoopBetCommit, LoopAbort, LoopQuit, ExitLoop
  <1>4. ASSUME NEW o, NEW outcome, LoopSettle(o, outcome) PROVE Goal
    BY <1>4 DEF LoopSettle, ExitLoop
  <1>5. ASSUME NEW c \in Calls,
               \/ RequestStart(c) \/ RequestBet(c) \/ RequestClose(c)
               \/ GiveUp(c) \/ DirectBetRead(c)
        PROVE  Goal
    BY <1>5 DEF RequestStart, RequestBet, RequestClose, Request, GiveUp,
       DirectBetRead, loopVars
  <1>6. ASSUME NEW c \in Calls, NEW o, DirectClose(c, o) \/ DirectBetCommit(c, o)
        PROVE  Goal
    BY <1>6 DEF DirectClose, DirectBetCommit, loopVars
  <1>7. ASSUME NEW p \in Players, Join(p) PROVE Goal
    BY <1>7 DEF Join, loopVars
  <1>8. ASSUME NEW o, Boot(o) PROVE Goal
    BY <1>8 DEF Boot, loopVars
  <1>9. CASE Tick \/ Shutdown \/ ProcessEnds \/ PeerRecovers \/ UNCHANGED vars
    BY <1>9 DEF Tick, Shutdown, ProcessEnds, PeerRecovers, vars, loopVars
  <1>10. CASE LoopNext
    BY <1>1, <1>2, <1>3, <1>4, <1>10 DEF LoopNext
  <1>11. CASE CallNext
    BY <1>5, <1>6, <1>11 DEF CallNext
  <1>12. CASE EnvNext
    BY <1>7, <1>8, <1>9, <1>12 DEF EnvNext
  <1> QED
    BY <1>9, <1>10, <1>11, <1>12 DEF Next

\* A round never goes away, and none is settled before its window has closed.
LEMMA RoundsStay ==
    ASSUME TypeOK, TimerInv, [Next]_vars, NEW r \in Rounds
    PROVE  /\ round[r] # "none" => round'[r] # "none"
           /\ round[r] = "betting" /\ window > 0 => round'[r] = "betting"
  <1>1. CASE DbIdle \/ DbBet \/ DbAbort \/ DbClose
    BY <1>1 DEF DbIdle, DbBet, DbAbort, DbClose, PlaceBetTx, AbortRoomTx,
       CloseRoomTx
  <1>2. CASE DbStart
    BY <1>2 DEF DbStart, StartRoundTx, TypeOK
  <1>3. CASE DbSettle
    <2>1. ~(window > 0)
      BY <1>3, AlarmAfterWindow DEF DbSettle
    <2> QED
      BY <1>3, <2>1 DEF DbSettle, SettleRoundTx, TypeOK, Choices
  <1> QED
    BY <1>1, <1>2, <1>3, DbStep DEF DbAny

LEMMA LateBetsStep ==
    ASSUME TypeOK, OneLiveRound, TimerInv, PendingInv, LateBetsOK, [Next]_vars
    PROVE  LateBetsOK'
  <1> SUFFICES ASSUME NEW c \in Calls, call'[c].pc = "tx"
               PROVE  /\ round'[call'[c].round] # "none"
                      /\ LongWindow => /\ window' > 0
                                       /\ round'[call'[c].round] = "betting"
    BY DEF LateBetsOK
  <1>1. CASE call[c].pc = "tx" /\ call'[c] = call[c]
    <2>1. call[c].round \in Rounds
      BY <1>1 DEF PendingInv, CallsOK
    <2> QED
      BY <1>1, <2>1, LateBetsFrom, RoundsStay DEF LateBetsOK
  <1>2. CASE window > 0 /\ call'[c].round \in LiveRound
    <2>1. call'[c].round \in Rounds /\ round[call'[c].round] = "betting"
      BY <1>2 DEF LiveRound, LatestRound
    <2> QED
      BY <1>2, <2>1, LateBetsFrom, RoundsStay
  <1> QED
    BY <1>1, <1>2, LateBetsFrom

\* StakeResolved, with what its proof needs: an open bet has a stake (without one
\* a refund would write no entry), and a won bet backed one of the two sides.
Resolved(r, p) ==
    LET b == bets[r][p] IN
    /\ ledger[r][p] = ResolvedEntries(b, status = "closed")
    /\ b.state = "open" => round[r] = "betting" /\ b.amount # 0
    /\ b.state = "won"  => round[r] = b.choice /\ b.choice \in Choices
    /\ b.state = "lost" => round[r] \in Choices \ {b.choice}

\* The inductive invariant behind OnlyLateBetsStranded: a late bet went to a
\* round that exists, so its book never opens again.
FateInv ==
    /\ OneLiveRound /\ TimerInv /\ PendingInv /\ LateBetsOK /\ LateMeansAborted
    /\ \A r \in Rounds, p \in Players :
          IF <<r, p>> \in late THEN Stranded(r, p) /\ round[r] # "none"
                              ELSE Resolved(r, p)

\* Which bet a transaction writes, and into which book: one that exists, and
\* that is not settled while the betting window outlasts a request.
LEMMA BetIntoBook ==
    ASSUME TypeOK, PendingInv, LateBetsOK, NEW p \in Players,
           NEW r \in Rounds \cup {0}, NEW amount \in Nat, BetSource(p, r, amount)
    PROVE  /\ r \in Rounds /\ round[r] # "none" /\ amount # 0
           /\ round[r] # "betting" => ~LongWindow
           /\ <<r, p>> \in Pending
  <1>1. CASE /\ loop = "bet" /\ cmd.round = r /\ cmd.player = p
             /\ cmd.amount = amount
    BY <1>1 DEF PendingInv, BetPendingOK, Pending
  <1>2. ASSUME NEW c \in Calls, call[c].pc = "tx", call[c].round = r,
               call[c].player = p, call[c].amount = amount
        PROVE  /\ r \in Rounds /\ round[r] # "none" /\ amount # 0
               /\ round[r] # "betting" => ~LongWindow
               /\ <<r, p>> \in Pending
    BY <1>2 DEF PendingInv, CallsOK, LateBetsOK, Pending
  <1> QED
    BY <1>1, <1>2 DEF BetSource

\* A bet that no step touches, in a room that is closed now iff it was before,
\* or whose closing does not concern it, stays resolved.
LEMMA ResolvedKept ==
    ASSUME NEW r \in Rounds, NEW p \in Players, Resolved(r, p),
           bets'[r][p] = bets[r][p], ledger'[r][p] = ledger[r][p],
           round[r] # "none" => round'[r] = round[r],
           bets[r][p].state = "open" => (status' = "closed" <=> status = "closed")
    PROVE  Resolved(r, p)'
  <1>1. bets[r][p].state \in {"open", "won", "lost"} => round[r] # "none"
    BY DEF Resolved, Choices
  <1>2. ledger'[r][p] = ResolvedEntries(bets'[r][p], status' = "closed")
    BY DEF Resolved, ResolvedEntries
  <1> QED
    BY <1>1, <1>2 DEF Resolved

\* A resolved stake stays resolved; a new one is, or comes too late.
LEMMA ResolvedStep ==
    ASSUME TypeOK, OneLiveRound, PendingInv, LateBetsOK, [Next]_vars,
           NEW r \in Rounds, NEW p \in Players,
           <<r, p>> \notin late, Resolved(r, p)
    PROVE  IF <<r, p>> \in late' THEN Stranded(r, p)' /\ round'[r] # "none"
                                ELSE Resolved(r, p)'
  <1> DEFINE Goal == IF <<r, p>> \in late'
                     THEN Stranded(r, p)' /\ round'[r] # "none"
                     ELSE Resolved(r, p)'
  <1>0. bets[r][p] \in BetRecords /\ bets[r][p].amount \in Nat
    BY DEF TypeOK, BetRecords
  <1>late. ASSUME DbIdle \/ DbStart \/ DbSettle \/ DbAbort \/ DbClose, Resolved(r, p)'
           PROVE  Goal
    <2>1. late' = late
      BY <1>late DEF DbIdle, DbStart, StartRoundTx, DbSettle, SettleRoundTx,
         DbAbort, AbortRoomTx, DbClose, CloseRoomTx
    <2> QED
      BY <1>late, <2>1
  <1>1. CASE DbIdle
    <2>1. Resolved(r, p)'
      BY <1>1, ResolvedKept DEF DbIdle
    <2> QED
      BY <1>1, <1>late, <2>1
  <1>2. CASE DbStart
    <2>1. /\ status' = status /\ bets' = bets /\ ledger' = ledger
          /\ round[r] # "none" => round'[r] = round[r]
      BY <1>2 DEF DbStart, CanStart, StartRoundTx, TypeOK
    <2>2. Resolved(r, p)'
      BY <2>1, ResolvedKept
    <2> QED
      BY <1>2, <1>late, <2>2
  <1>3. CASE DbBet
    <2>1. PICK x \in Players, q \in Rounds \cup {0},
               choice \in Choices \cup {"none"}, amount \in Nat :
              /\ BetSource(x, q, amount) /\ CanCommitBet(x, q, amount)
              /\ PlaceBetTx(x, q, choice, amount)
      BY <1>3 DEF DbBet
    <2>2. /\ status' = status /\ round' = round
          /\ r = q /\ p = x =>
                 /\ bets'[r][p] = NewBet(choice, amount)
                 /\ ledger'[r][p] = Append(ledger[r][p], -amount)
          /\ ~(r = q /\ p = x) =>
                 bets'[r][p] = bets[r][p] /\ ledger'[r][p] = ledger[r][p]
          /\ <<r, p>> \in late' <=> (r = q /\ p = x /\ BookClosed(r))
      <3>1. PlaceBetTx(x, q, choice, amount)
        BY <2>1
      <3> QED
        BY <3>1 DEF PlaceBetTx, TypeOK
    <2>3. CASE r = q /\ p = x
      <3>1. round[r] # "none" /\ amount # 0
        BY <2>1, <2>3, BetIntoBook
      <3>2. ledger[r][p] = <<>>
        BY <2>1, <2>3 DEF CanCommitBet, NoBet, Resolved, ResolvedEntries
      <3>3. /\ bets'[r][p].state = "open" /\ bets'[r][p].amount = amount
            /\ ledger'[r][p] = <<-amount>>
        BY <2>2, <2>3, <3>2 DEF NewBet
      <3>4. CASE ~BookClosed(r)
        <4>1. round[r] = "betting" /\ status # "closed"
          BY <3>4 DEF BookClosed
        <4>2. ledger'[r][p] = ResolvedEntries(bets'[r][p], status' = "closed")
          BY <2>2, <3>3, <4>1 DEF ResolvedEntries
        <4>3. Resolved(r, p)'
          BY <2>2, <3>1, <3>3, <4>1, <4>2 DEF Resolved
        <4> QED
          BY <2>2, <3>4, <4>3
      <3>5. CASE BookClosed(r)
        <4>1. Stranded(r, p)'
          BY <2>2, <3>3, <3>5 DEF Stranded, BookClosed
        <4> QED
          BY <2>2, <2>3, <3>1, <3>5, <4>1
      <3> QED
        BY <3>4, <3>5
    <2>4. CASE ~(r = q /\ p = x)
      <3>1. Resolved(r, p)'
        BY <2>2, <2>4, ResolvedKept
      <3> QED
        BY <2>2, <2>4, <3>1
    <2> QED
      BY <2>3, <2>4
  <1>4. ASSUME DbSettle PROVE Resolved(r, p)'
    <2>1. PICK q \in LiveRound, outcome \in Choices : SettleRoundTx(q, outcome)
      BY <1>4 DEF DbSettle
    <2>2. status # "closed"
      BY <1>4 DEF DbSettle
    <2> DEFINE after == SettledBet(bets[r][p], outcome)
               won   == IF bets[r][p].state = "open" THEN Winnings(after) ELSE 0
    <2>3. CASE r = q
      <3>1. /\ round[r] = "betting" /\ round'[r] = outcome
            /\ bets'[r][p] = after /\ won \in Nat
            /\ ledger'[r][p] = Entry(ledger[r][p], won)
        BY <2>1, <2>3, SettleWrites
      <3>2. /\ after.amount = bets[r][p].amount
            /\ after.choice = bets[r][p].choice
            /\ bets[r][p].state # "open" => after = bets[r][p]
            /\ bets[r][p].state = "open" =>
                  /\ after.state \in {"won", "lost"}
                  /\ after.state = "won" <=> bets[r][p].choice = outcome
                  /\ after.state = "lost" => Winnings(after) = 0
        BY <1>0, SettledBetCases
      <3> HIDE DEF after
      <3>3. CASE bets[r][p].state = "open"
        <4>1. ledger[r][p] = <<-bets[r][p].amount>> /\ won = Winnings(after)
          BY <2>2, <3>3 DEF Resolved, ResolvedEntries
        <4>2. ledger'[r][p] = Entry(<<-after.amount>>, Winnings(after))
          BY <3>1, <3>2, <4>1
        <4>3. after.state = "lost" => ledger'[r][p] = <<-after.amount>>
          BY <3>2, <3>3, <4>2 DEF Entry
        <4>4. ledger'[r][p] = ResolvedEntries(bets'[r][p], status' = "closed")
          BY <3>1, <3>2, <3>3, <4>2, <4>3 DEF ResolvedEntries
        <4> QED
          BY <3>1, <3>2, <3>3, <4>4 DEF Resolved
      <3>4. CASE bets[r][p].state # "open"
        <4>1. bets[r][p].state = "none"
          BY <1>0, <3>1, <3>4 DEF Resolved, BetRecords, BetStates, Choices
        <4>2. ledger'[r][p] = ledger[r][p]
          BY <3>1, <3>4 DEF Entry
        <4> QED
          BY <3>1, <3>2, <4>1, <4>2 DEF Resolved, ResolvedEntries
      <3> QED
        BY <3>3, <3>4
    <2>4. CASE r # q
      <3>1. /\ round'[r] = round[r] /\ bets'[r][p] = bets[r][p]
            /\ ledger'[r][p] = ledger[r][p]
        BY <2>1, <2>4, SettleWrites
      <3>2. round[r] # "betting"
        BY <2>4, LiveRoundIsCurrent DEF OneLiveRound
      <3>3. bets[r][p].state # "open"
        BY <3>2 DEF Resolved
      <3> QED
        BY <3>1, <3>3, ResolvedKept
    <2> QED
      BY <2>3, <2>4
  <1>5. ASSUME DbAbort PROVE Resolved(r, p)'
    <2>1. /\ status # "closed" /\ status' = "closed"
          /\ round' = round /\ bets' = bets
          /\ ledger'[r][p] = Entry(ledger[r][p], Refund(r, p))
      BY <1>5 DEF DbAbort, AbortRoomTx
    <2>2. CASE bets[r][p].state = "open"
      <3>1. /\ ledger[r][p] = <<-bets[r][p].amount>>
            /\ Refund(r, p) = bets[r][p].amount /\ bets[r][p].amount # 0
        BY <2>1, <2>2 DEF Resolved, ResolvedEntries, Refund
      <3>2. ledger'[r][p] = Append(<<-bets[r][p].amount>>, bets[r][p].amount)
        BY <2>1, <3>1 DEF Entry
      <3> QED
        BY <2>1, <2>2, <3>2 DEF Resolved, ResolvedEntries
    <2>3. CASE bets[r][p].state # "open"
      <3>1. ledger'[r][p] = ledger[r][p]
        BY <2>1, <2>3 DEF Refund, Entry
      <3> QED
        BY <2>1, <2>3, <3>1, ResolvedKept
    <2> QED
      BY <2>2, <2>3
  <1>6. ASSUME DbClose PROVE Resolved(r, p)'
    <2>1. /\ status # "closed" /\ round' = round /\ bets' = bets
          /\ ledger' = ledger
          /\ LiveRound # {} => status' # "closed"
      BY <1>6 DEF DbClose, CloseRoomTx
    <2>2. bets[r][p].state = "open" => LiveRound # {}
      BY LiveRoundIsCurrent DEF Resolved
    <2> QED
      BY <2>1, <2>2, ResolvedKept
  <1> QED
    BY <1>late, <1>1, <1>2, <1>3, <1>4, <1>5, <1>6, DbStep DEF DbAny

\* A stake that came too late stays as it is.
LEMMA StrandedStep ==
    ASSUME TypeOK, OneLiveRound, [Next]_vars, NEW r \in Rounds, NEW p \in Players,
           Stranded(r, p), round[r] # "none"
    PROVE  Stranded(r, p)' /\ round'[r] # "none"
  \* In a room that is not closed it is in a settled round.
  <1>0. /\ bets[r][p].state = "open"
        /\ status # "closed" => round[r] # "betting"
    BY DEF Stranded, BookClosed
  <1>kept. ASSUME bets'[r][p] = bets[r][p], ledger'[r][p] = ledger[r][p],
                  round'[r] = round[r], status = "closed" => status' = "closed"
           PROVE  Stranded(r, p)' /\ round'[r] # "none"
    BY <1>0, <1>kept DEF Stranded, BookClosed
  <1>1. CASE DbIdle
    BY <1>1, <1>kept DEF DbIdle
  <1>2. CASE DbStart
    <2>1. /\ status' = status /\ bets' = bets /\ ledger' = ledger
          /\ round[r] # "none" => round'[r] = round[r]
      BY <1>2 DEF DbStart, CanStart, StartRoundTx, TypeOK
    <2> QED
      BY <2>1, <1>kept
  <1>3. CASE DbBet
    <2>1. PICK x \in Players, q \in Rounds \cup {0},
               choice \in Choices \cup {"none"}, amount \in Nat :
              CanCommitBet(x, q, amount) /\ PlaceBetTx(x, q, choice, amount)
      BY <1>3 DEF DbBet
    <2>2. ~(r = q /\ p = x)
      BY <1>0, <2>1 DEF CanCommitBet, NoBet
    <2>3. PlaceBetTx(x, q, choice, amount)
      BY <2>1
    <2>4. /\ status' = status /\ round' = round
          /\ bets'[r][p] = bets[r][p] /\ ledger'[r][p] = ledger[r][p]
      BY <2>2, <2>3 DEF PlaceBetTx, TypeOK
    <2> QED
      BY <2>4, <1>kept
  <1>4. CASE DbSettle
    <2>1. PICK q \in LiveRound, outcome \in Choices : SettleRoundTx(q, outcome)
      BY <1>4 DEF DbSettle
    <2>2. status # "closed"
      BY <1>4 DEF DbSettle
    <2>3. r # q
      BY <1>0, <2>2 DEF LiveRound
    <2>4. /\ round'[r] = round[r] /\ bets'[r][p] = bets[r][p]
          /\ ledger'[r][p] = ledger[r][p]
      BY <2>1, <2>3, SettleWrites
    <2> QED
      BY <2>2, <2>4, <1>kept
  <1>5. CASE DbAbort
    <2>1. /\ status # "closed" /\ status' = "closed"
          /\ round' = round /\ bets' = bets
          /\ ledger'[r][p] = Entry(ledger[r][p], Refund(r, p))
      BY <1>5 DEF DbAbort, AbortRoomTx
    <2>2. ledger'[r][p] = ledger[r][p]
      BY <1>0, <2>1 DEF Refund, Entry
    <2> QED
      BY <2>1, <2>2, <1>kept
  <1>6. CASE DbClose
    <2>1. /\ status # "closed" /\ round' = round /\ bets' = bets
          /\ ledger' = ledger
      BY <1>6 DEF DbClose, CloseRoomTx
    <2> QED
      BY <2>1, <1>kept
  <1> QED
    BY <1>1, <1>2, <1>3, <1>4, <1>5, <1>6, DbStep DEF DbAny

\* A late bet came too late for an abort, as long as the window outlasts a
\* request.
LEMMA LateMeansAbortedStep ==
    ASSUME TypeOK, FateInv, [Next]_vars
    PROVE  LateMeansAborted'
  <1> SUFFICES ASSUME LongWindow, NEW b \in late'
               PROVE  round'[b[1]] = "betting" /\ status' = "closed"
    BY DEF LateMeansAborted
  <1>0. b \in late => round[b[1]] = "betting" /\ status = "closed"
    BY DEF FateInv, LateMeansAborted
  <1>1. CASE DbIdle
    BY <1>0, <1>1 DEF DbIdle
  <1>2. CASE DbStart \/ DbSettle \/ DbAbort \/ DbClose
    <2>1. late' = late /\ status # "closed"
      BY <1>2 DEF DbStart, CanStart, StartRoundTx, DbSettle, SettleRoundTx,
         DbAbort, AbortRoomTx, DbClose, CloseRoomTx
    <2> QED
      BY <1>0, <2>1
  <1>3. CASE DbBet
    <2>1. PICK x \in Players, q \in Rounds \cup {0},
               choice \in Choices \cup {"none"}, amount \in Nat :
              BetSource(x, q, amount) /\ PlaceBetTx(x, q, choice, amount)
      BY <1>3 DEF DbBet
    <2>2. round[q] = "betting"
      BY <2>1, BetIntoBook DEF FateInv
    <2>3. PlaceBetTx(x, q, choice, amount)
      BY <2>1
    <2>4. /\ status' = status /\ round' = round
          /\ \/ b \in late
             \/ b[1] = q /\ BookClosed(q)
      BY <2>3 DEF PlaceBetTx
    <2> QED
      BY <1>0, <2>2, <2>4 DEF BookClosed
  <1> QED
    BY <1>1, <1>2, <1>3, DbStep DEF DbAny

\* A late bet stays in the history.
LEMMA LateKept ==
    ASSUME TypeOK, [Next]_vars
    PROVE  late \subseteq late'
  BY DbStep DEF DbAny, DbIdle, DbStart, StartRoundTx, DbBet, PlaceBetTx, DbSettle,
     SettleRoundTx, DbAbort, AbortRoomTx, DbClose, CloseRoomTx

\* FateInv holds in every reachable state.
LEMMA FateInvariant == Spec => []FateInv
  <1>1. Init => FateInv
    <2> SUFFICES ASSUME Init PROVE FateInv
      OBVIOUS
    <2>1. OneLiveRound /\ TimerInv
      BY DEF Init, OneLiveRound, Rounds, TimerInv
    <2>2. PendingInv /\ LateBetsOK
      BY DEF Init, PendingInv, BetPendingOK, CallsOK, LateBetsOK, IdleCall
    <2>3. \A r \in Rounds, p \in Players : Resolved(r, p)
      BY DEF Init, Resolved, ResolvedEntries, NoBet
    <2>4. late = {} /\ LateMeansAborted
      BY DEF Init, LateMeansAborted
    <2> QED
      BY <2>1, <2>2, <2>3, <2>4 DEF FateInv
  <1>2. TypeOK /\ FateInv /\ [Next]_vars => FateInv'
    <2> SUFFICES ASSUME TypeOK, FateInv, [Next]_vars PROVE FateInv'
      OBVIOUS
    <2>1. OneLiveRound' /\ TimerInv' /\ PendingInv' /\ LateBetsOK'
      BY OneLiveRoundStep, TimerStep, PendingStep, LateBetsStep DEF FateInv
    <2>2. LateMeansAborted'
      BY LateMeansAbortedStep
    <2>3. ASSUME NEW r \in Rounds, NEW p \in Players
          PROVE  IF <<r, p>> \in late' THEN Stranded(r, p)' /\ round'[r] # "none"
                                      ELSE Resolved(r, p)'
      <3>1. CASE <<r, p>> \in late
        <4>1. Stranded(r, p)' /\ round'[r] # "none"
          BY <3>1, StrandedStep DEF FateInv
        <4> QED
          BY <3>1, <4>1, LateKept
      <3>2. CASE <<r, p>> \notin late
        BY <3>2, ResolvedStep DEF FateInv
      <3> QED
        BY <3>1, <3>2
    <2> QED
      BY <2>1, <2>2, <2>3 DEF FateInv
  <1> QED
    BY <1>1, <1>2, RoomTyped, PTL DEF Spec

\* room.go: "bets already placed are always resolved".  A bet that was committed
\* while its book was open is won, lost or refunded exactly once, under any
\* faults, lost acknowledgements, crashes, restarts and recoveries by another
\* process; one that was committed later is never resolved.
THEOREM OnlyLateBetsAreStranded == Spec => []OnlyLateBetsStranded
  <1>1. FateInv => OnlyLateBetsStranded
    <2>1. \A r \in Rounds, p \in Players : Resolved(r, p) => StakeResolved(r, p)
      BY DEF Resolved, StakeResolved
    <2> QED
      BY <2>1 DEF FateInv, OnlyLateBetsStranded
  <1> QED
    BY <1>1, FateInvariant, PTL

\* A settlement leaves no stake out, as long as the betting window outlasts a bet
\* request: a late bet is one that an abort came before.
THEOREM SettledBooksAreComplete == Spec => []LateMeansAborted
  <1>1. FateInv => LateMeansAborted
    BY DEF FateInv
  <1> QED
    BY <1>1, FateInvariant, PTL

\* engine.go: a bet that goes through the loop does not slip in while its round
\* is being settled or its room closed; only another process can close the room
\* under it.
THEOREM LoopIsNeverLate == Spec => LoopBetsOnTime
  <1>1. TypeOK /\ FateInv /\ [Next]_vars =>
            [(~PeerBoot /\ loop = "bet" /\ loop' = "idle") => late' = late]_vars
    <2> SUFFICES ASSUME TypeOK, FateInv, [Next]_vars, ~PeerBoot, loop = "bet",
                        loop' = "idle"
                 PROVE  late' = late
      OBVIOUS
    <2>1. ASSUME NEW o, LoopBetCommit(o) PROVE late' = late
      <3>1. ~BookClosed(cmd.round)
        BY DEF FateInv, PendingInv, BetPendingOK, BookClosed
      <3>2. CommitBet(cmd.player, cmd.round, cmd.choice, cmd.amount, o)
        BY <2>1 DEF LoopBetCommit
      <3>3. \/ UNCHANGED dbVars
            \/ PlaceBetTx(cmd.player, cmd.round, cmd.choice, cmd.amount)
        BY <3>2 DEF CommitBet
      <3> QED
        BY <3>1, <3>3 DEF PlaceBetTx, dbVars
    <2>2. LoopNext => \E o \in TxEnds : LoopBetCommit(o)
      BY DEF LoopNext, LoopStart, LoopBetRead, LoopClose, Taken, LoopSettle,
         LoopAbort, LoopQuit
    <2>3. ~CallNext
      BY DEF CallNext, RequestStart, RequestBet, RequestClose, Request, GiveUp,
         DirectBetRead, DirectBetCommit, DirectClose, loopVars
    <2>4. ~EnvNext /\ ~UNCHANGED vars
      BY DEF EnvNext, Join, Tick, Shutdown, ProcessEnds, Boot, PeerRecovers,
         loopVars, vars
    <2> QED
      BY <2>1, <2>2, <2>3, <2>4 DEF Next
  <1> QED
    BY <1>1, RoomTyped, FateInvariant, PTL DEF Spec, LoopBetsOnTime

\* Nothing is added to the bets in flight of a closed room.
LEMMA NoNewPending ==
    ASSUME TypeOK, FateInv, [Next]_vars, status = "closed"
    PROVE  Pending' \subseteq Pending
  <1>1. ASSUME NEW c \in Calls, call'[c].pc = "tx"
        PROVE  <<call'[c].round, call'[c].player>> \in Pending
    <2>1. call[c].pc = "tx" /\ call'[c] = call[c]
      BY <1>1, LateBetsFrom DEF FateInv
    <2> QED
      BY <2>1 DEF Pending
  <1>2. ASSUME loop' = "bet" PROVE <<cmd'.round, cmd'.player>> \in Pending
    BY <1>2, LoopBetFrom DEF Pending
  <1> QED
    BY <1>1, <1>2 DEF Pending

\* A closed room stays as it is, but for the bets whose reads came before the
\* close: no step reopens it, seats a player, starts or settles a round, accepts
\* another bet or moves anybody else's money.
THEOREM ClosedMeansFrozen == Spec => ClosedRoomIsFrozen
  <1> DEFINE Frozen ==
        status = "closed" =>
          /\ UNCHANGED <<status, seats, currentRound, round>>
          /\ Pending' \subseteq Pending
          /\ \A r \in Rounds, p \in Players :
                <<r, p>> \notin Pending =>
                    /\ bets'[r][p] = bets[r][p]
                    /\ ledger'[r][p] = ledger[r][p]
          /\ \A p \in Players :
                (\A r \in Rounds : <<r, p>> \notin Pending) =>
                    balance'[p] = balance[p]
  <1>1. TypeOK /\ FateInv /\ [Next]_vars => Frozen
    <2> SUFFICES ASSUME TypeOK, FateInv, [Next]_vars, status = "closed"
                 PROVE  Frozen
      OBVIOUS
    <2>1. Pending' \subseteq Pending
      BY NoNewPending
    <2>2. DbIdle \/ DbBet
      BY DbStep DEF DbAny, DbStart, CanStart, DbSettle, DbAbort, DbClose
    <2>3. CASE DbIdle
      BY <2>1, <2>3 DEF DbIdle
    <2>4. CASE DbBet
      <3>1. PICK x \in Players, q \in Rounds \cup {0},
                 choice \in Choices \cup {"none"}, amount \in Nat :
                BetSource(x, q, amount) /\ PlaceBetTx(x, q, choice, amount)
        BY <2>4 DEF DbBet
      <3>2. q \in Rounds /\ <<q, x>> \in Pending
        BY <3>1, BetIntoBook DEF FateInv
      <3>3. PlaceBetTx(x, q, choice, amount)
        BY <3>1
      <3>4. UNCHANGED <<status, seats, currentRound, round>>
        BY <3>3 DEF PlaceBetTx
      <3>5. \A r \in Rounds, p \in Players :
                ~(r = q /\ p = x) => /\ bets'[r][p] = bets[r][p]
                                     /\ ledger'[r][p] = ledger[r][p]
        BY <3>2, <3>3 DEF PlaceBetTx, TypeOK
      <3>6. \A p \in Players : p # x => balance'[p] = balance[p]
        BY <3>3 DEF PlaceBetTx, TypeOK
      <3> QED
        BY <2>1, <3>2, <3>4, <3>5, <3>6
    <2> QED
      BY <2>2, <2>3, <2>4
  <1> HIDE DEF Frozen
  <1>2. Spec => [][Frozen]_vars
    BY <1>1, RoomTyped, FateInvariant, PTL DEF Spec
  <1> QED
    BY <1>2 DEF ClosedRoomIsFrozen, Frozen
-----------------------------------------------------------------------------
(***************************************************************************)
(* Sums.  Induction over the natural numbers in its set form: the library  *)
(* gives every non-empty set of naturals a least element.                  *)
(***************************************************************************)
\* The least-number principle.
LEMMA LeastNatural ==
    ASSUME NEW T, T \subseteq Nat, T # {}
    PROVE  \E n \in T : \A m \in T : n <= m
  <1>1. \E n \in T : \A m \in T : ~(<<m, n>> \in OpToRel(<, Nat))
    BY WFMin, NatLessThanWellFounded, Zenon
  <1>2. \A m, n \in Nat : m < n => <<m, n>> \in OpToRel(<, Nat)
    BY Zenon DEF OpToRel
  <1>3. PICK n \in T : \A m \in T : ~(<<m, n>> \in OpToRel(<, Nat))
    BY <1>1
  <1>4. \A m \in T : ~(m < n)
    BY <1>2, <1>3
  <1>5. n \in T /\ T \subseteq Nat
    OBVIOUS
  <1>6. \A m \in T : n <= m
    BY <1>4, <1>5
  <1> QED
    BY <1>5, <1>6

\* A set that has 0 and the successor of each of its members has every natural.
LEMMA NatSetInduction ==
    ASSUME NEW S, 0 \in S, \A n \in Nat : n \in S => n + 1 \in S
    PROVE  Nat \subseteq S
  <1> SUFFICES ASSUME Nat \ S # {} PROVE FALSE
    OBVIOUS
  <1>1. PICK n \in Nat \ S : \A m \in Nat \ S : n <= m
    <2>1. Nat \ S \subseteq Nat
      OBVIOUS
    <2> QED
      BY <2>1, LeastNatural
  <1>2. n # 0
    OBVIOUS
  <1>3. n - 1 \in Nat /\ ~(n <= n - 1)
    BY <1>2
  <1>4. n - 1 \in S
    BY <1>1, <1>3
  <1>5. (n - 1) + 1 \in S
    BY <1>3, <1>4
  <1> QED
    BY <1>5

\* g holds the running totals of f up to n.
Sums(f, n, g) == g = [i \in 0..n |-> IF i = 0 THEN 0 ELSE g[i - 1] + f[i]]

\* They exist for every n, by induction on n.
LEMMA SumsExists ==
    ASSUME NEW f, NEW n \in Nat
    PROVE  \E g : Sums(f, n, g)
  <1> DEFINE S == {k \in Nat : \E g : Sums(f, k, g)}
  <1>1. 0 \in S
    <2> DEFINE g == [i \in 0..0 |-> 0]
    <2>1. Sums(f, 0, g)
      BY DEF Sums
    <2> QED
      BY <2>1
  <1>2. ASSUME NEW k \in Nat, k \in S PROVE k + 1 \in S
    <2>1. PICK g : Sums(f, k, g)
      BY <1>2
    <2> DEFINE h == [i \in 0..(k + 1) |->
                        IF i = k + 1 THEN g[k] + f[k + 1] ELSE g[i]]
    <2>2. ASSUME NEW i \in 0..(k + 1)
          PROVE  h[i] = IF i = 0 THEN 0 ELSE h[i - 1] + f[i]
      <3>1. CASE i = k + 1
        BY <3>1
      <3>2. CASE i # k + 1
        <4>1. /\ i \in 0..k /\ h[i] = g[i]
              /\ i # 0 => i - 1 \in 0..k /\ h[i - 1] = g[i - 1]
          BY <3>2
        <4>2. g[i] = IF i = 0 THEN 0 ELSE g[i - 1] + f[i]
          BY <2>1, <4>1 DEF Sums
        <4> QED
          BY <4>1, <4>2
      <3> QED
        BY <3>1, <3>2
    <2>3. Sums(f, k + 1, h)
      <3>1. h = [i \in 0..(k + 1) |-> h[i]]
        OBVIOUS
      <3> HIDE DEF h
      <3> QED
        BY <2>2, <3>1 DEF Sums
    <2> QED
      BY <2>3
  <1> HIDE DEF S
  <1>3. Nat \subseteq S
    BY <1>1, <1>2, NatSetInduction
  <1> QED
    BY <1>3 DEF S

\* Two of them agree as far as both go.
LEMMA SumsUnique ==
    ASSUME NEW f, NEW n \in Nat, NEW m \in Nat, n <= m,
           NEW g, NEW h, Sums(f, n, g), Sums(f, m, h)
    PROVE  g[n] = h[n]
  <1> DEFINE S == {k \in Nat : k <= n => g[k] = h[k]}
  <1>1. 0 \in S
    BY DEF Sums
  <1>2. ASSUME NEW k \in Nat, k \in S PROVE k + 1 \in S
    <2> SUFFICES ASSUME k + 1 <= n PROVE g[k + 1] = h[k + 1]
      OBVIOUS
    <2>1. k + 1 \in 0..n /\ k + 1 \in 0..m /\ k + 1 # 0 /\ (k + 1) - 1 = k
      OBVIOUS
    <2>2. g[k + 1] = g[k] + f[k + 1]
      BY <2>1 DEF Sums
    <2>3. h[k + 1] = h[k] + f[k + 1]
      BY <2>1 DEF Sums
    <2> QED
      BY <1>2, <2>2, <2>3
  <1> HIDE DEF S
  <1>3. n \in S
    BY <1>1, <1>2, NatSetInduction
  <1> QED
    BY <1>3 DEF S

\* SumTo is the sum its definition says it is.
LEMMA SumToRec ==
    ASSUME NEW f, NEW n \in Nat
    PROVE  /\ SumTo(f, 0) = 0
           /\ SumTo(f, n + 1) = SumTo(f, n) + f[n + 1]
  <1>1. \A m \in Nat : Sums(f, m, CHOOSE g : Sums(f, m, g))
    BY SumsExists, Zenon
  <1>2. \A m \in Nat : \E g : Sums(f, m, g) /\ SumTo(f, m) = g[m]
    BY <1>1 DEF SumTo, Sums
  <1>3. PICK z : Sums(f, 0, z) /\ SumTo(f, 0) = z[0]
    BY <1>2
  <1>4. PICK g : Sums(f, n, g) /\ SumTo(f, n) = g[n]
    BY <1>2
  <1>5. PICK h : Sums(f, n + 1, h) /\ SumTo(f, n + 1) = h[n + 1]
    BY <1>2
  <1>6. h[n + 1] = h[n] + f[n + 1]
    BY <1>5 DEF Sums
  <1>7. g[n] = h[n]
    BY <1>4, <1>5, SumsUnique
  <1>8. z[0] = 0
    BY <1>3 DEF Sums
  <1> QED
    BY <1>3, <1>4, <1>5, <1>6, <1>7, <1>8

LEMMA SumToInt ==
    ASSUME NEW n \in Nat, NEW f, \A i \in 1..n : f[i] \in Int
    PROVE  SumTo(f, n) \in Int
  <1> DEFINE S == {k \in Nat : k <= n => SumTo(f, k) \in Int}
  <1>1. 0 \in S
    BY SumToRec
  <1>2. ASSUME NEW k \in Nat, k \in S PROVE k + 1 \in S
    <2>1. SumTo(f, k + 1) = SumTo(f, k) + f[k + 1]
      BY SumToRec
    <2>2. k + 1 <= n => k + 1 \in 1..n /\ k <= n
      OBVIOUS
    <2> QED
      BY <1>2, <2>1, <2>2
  <1> HIDE DEF S
  <1>3. n \in S
    BY <1>1, <1>2, NatSetInduction
  <1> QED
    BY <1>3 DEF S

\* If one term changes by d, and no other, the sum changes by d.
LEMMA SumToChange ==
    ASSUME NEW n \in Nat, NEW f, NEW g, NEW k \in 1..n, NEW d \in Int,
           \A i \in 1..n : f[i] \in Int,
           g[k] = f[k] + d,
           \A i \in 1..n : i # k => g[i] = f[i]
    PROVE  SumTo(g, n) = SumTo(f, n) + d
  <1> DEFINE S == {m \in Nat : m <= n =>
                      SumTo(g, m) = SumTo(f, m) + (IF m < k THEN 0 ELSE d)}
  <1>1. 0 \in S
    BY SumToRec
  <1>2. ASSUME NEW m \in Nat, m \in S PROVE m + 1 \in S
    <2> SUFFICES ASSUME m + 1 <= n
                 PROVE  SumTo(g, m + 1) =
                            SumTo(f, m + 1) + (IF m + 1 < k THEN 0 ELSE d)
      OBVIOUS
    <2>1. /\ SumTo(f, m + 1) = SumTo(f, m) + f[m + 1]
          /\ SumTo(g, m + 1) = SumTo(g, m) + g[m + 1]
      BY SumToRec
    <2>2. SumTo(f, m) \in Int /\ f[m + 1] \in Int
      BY SumToInt
    <2>3. SumTo(g, m) = SumTo(f, m) + (IF m < k THEN 0 ELSE d)
      BY <1>2
    <2>4. g[m + 1] = f[m + 1] + (IF m + 1 = k THEN d ELSE 0)
      BY <2>2
    <2> QED
      BY <2>1, <2>2, <2>3, <2>4
  <1> HIDE DEF S
  <1>3. n \in S
    BY <1>1, <1>2, NatSetInduction
  <1> QED
    BY <1>3 DEF S

\* Terms that agree have the same sum.
LEMMA SumToSame ==
    ASSUME NEW n \in Nat, NEW f, NEW g, \A i \in 1..n : f[i] = g[i]
    PROVE  SumTo(f, n) = SumTo(g, n)
  <1> DEFINE S == {k \in Nat : k <= n => SumTo(f, k) = SumTo(g, k)}
  <1>1. 0 \in S
    BY SumToRec
  <1>2. ASSUME NEW k \in Nat, k \in S PROVE k + 1 \in S
    <2>1. /\ SumTo(f, k + 1) = SumTo(f, k) + f[k + 1]
          /\ SumTo(g, k + 1) = SumTo(g, k) + g[k + 1]
      BY SumToRec
    <2>2. k + 1 <= n => k + 1 \in 1..n /\ k <= n
      OBVIOUS
    <2> QED
      BY <1>2, <2>1, <2>2
  <1> HIDE DEF S
  <1>3. n \in S
    BY <1>1, <1>2, NatSetInduction
  <1> QED
    BY <1>3 DEF S

\* One more ledger entry, or none of zero, adds its amount.
LEMMA EntryAdds ==
    ASSUME NEW s \in Seq(Int), NEW a \in Int
    PROVE  /\ SumTo(Append(s, a), Len(Append(s, a))) = SumTo(s, Len(s)) + a
           /\ SumTo(Entry(s, a), Len(Entry(s, a))) = SumTo(s, Len(s)) + a
  <1>1. SumTo(s, Len(s)) \in Int
    BY SumToInt
  <1> DEFINE t == Append(s, a)
  <1>2. Len(t) = Len(s) + 1 /\ t[Len(s) + 1] = a /\ \A i \in 1..Len(s) : t[i] = s[i]
    OBVIOUS
  <1> HIDE DEF t
  <1>3. SumTo(t, Len(s)) = SumTo(s, Len(s))
    BY <1>2, SumToSame
  <1>4. SumTo(t, Len(s) + 1) = SumTo(t, Len(s)) + t[Len(s) + 1]
    <2>1. Len(s) \in Nat
      OBVIOUS
    <2> QED
      BY <2>1, SumToRec
  <1>5. SumTo(t, Len(t)) = SumTo(s, Len(s)) + a
    BY <1>2, <1>3, <1>4
  <1> QED
    BY <1>1, <1>5 DEF Entry, t
-----------------------------------------------------------------------------
(***************************************************************************)
(* The ledger adds up to the balance, in every instance.                   *)
(***************************************************************************)
\* The sum of the entries of p for round r.
EnteredFor(r, p) == SumTo(ledger[r][p], Len(ledger[r][p]))

\* If the entries of one round change by d, and no others, so does the total.
LEMMA EnteredChange ==
    ASSUME TypeOK, NEW p \in Players, NEW q \in Rounds, NEW d \in Int,
           EnteredFor(q, p)' = EnteredFor(q, p) + d,
           \A r \in Rounds : r # q => ledger'[r][p] = ledger[r][p]
    PROVE  Entered(p)' = Entered(p) + d
  <1> DEFINE f == [r \in Rounds |-> EnteredFor(r, p)]
             g == [r \in Rounds |-> EnteredFor(r, p)']
  <1>1. \A r \in Rounds : f[r] \in Int
    BY SumToInt DEF EnteredFor, TypeOK
  <1>2. g[q] = f[q] + d /\ \A r \in Rounds : r # q => g[r] = f[r]
    BY DEF EnteredFor
  <1>3. Entered(p) = SumTo(f, MaxRounds) /\ Entered(p)' = SumTo(g, MaxRounds)
    BY DEF Entered, EnteredFor
  <1> HIDE DEF f, g
  <1>4. SumTo(g, MaxRounds) = SumTo(f, MaxRounds) + d
    <2>1. MaxRounds \in Nat /\ q \in 1..MaxRounds
      BY RoomAssumption DEF Rounds
    <2>2. /\ \A i \in 1..MaxRounds : f[i] \in Int
          /\ \A i \in 1..MaxRounds : i # q => g[i] = f[i]
      BY <1>1, <1>2 DEF Rounds
    <2> QED
      BY <1>2, <2>1, <2>2, SumToChange
  <1> QED
    BY <1>3, <1>4

\* If none change, neither does the total.
LEMMA EnteredKept ==
    ASSUME NEW p \in Players, \A r \in Rounds : ledger'[r][p] = ledger[r][p]
    PROVE  Entered(p)' = Entered(p)
  <1> DEFINE f == [r \in Rounds |-> EnteredFor(r, p)]
             g == [r \in Rounds |-> EnteredFor(r, p)']
  <1>1. \A r \in Rounds : f[r] = g[r]
    BY DEF EnteredFor
  <1>2. Entered(p) = SumTo(f, MaxRounds) /\ Entered(p)' = SumTo(g, MaxRounds)
    BY DEF Entered, EnteredFor
  <1> HIDE DEF f, g
  <1> QED
    BY <1>1, <1>2, SumToSame, RoomAssumption DEF Rounds

LEMMA EnteredInt ==
    ASSUME TypeOK, NEW p \in Players PROVE Entered(p) \in Int
  <1> DEFINE f == [r \in Rounds |-> EnteredFor(r, p)]
  <1>1. \A r \in Rounds : f[r] \in Int
    BY SumToInt DEF EnteredFor, TypeOK
  <1>2. Entered(p) = SumTo(f, MaxRounds)
    BY DEF Entered, EnteredFor
  <1> HIDE DEF f
  <1> QED
    BY <1>1, <1>2, SumToInt, RoomAssumption DEF Rounds

\* LedgerReconciles is kept by each of the five transactions.
LEMMA ReconcilesStep ==
    ASSUME TypeOK, FateInv, LedgerReconciles, [Next]_vars, NEW p \in Players
    PROVE  balance'[p] = StartBalance + Entered(p)'
  <1>0. /\ balance[p] = StartBalance + Entered(p) /\ Entered(p) \in Int
        /\ balance[p] \in Nat /\ StartBalance \in Nat
        /\ OneLiveRound /\ PendingInv /\ LateBetsOK
    BY EnteredInt, RoomAssumption DEF LedgerReconciles, TypeOK, FateInv
  <1>seq. \A r \in Rounds : ledger[r][p] \in Seq(Int)
    BY DEF TypeOK
  <1>1. CASE DbIdle \/ DbStart \/ DbClose
    <2>1. balance' = balance /\ ledger' = ledger
      BY <1>1 DEF DbIdle, DbStart, StartRoundTx, DbClose, CloseRoomTx
    <2> QED
      BY <1>0, <2>1, EnteredKept
  <1>2. CASE DbBet
    <2>1. PICK x \in Players, q \in Rounds \cup {0},
               choice \in Choices \cup {"none"}, amount \in Nat :
              BetSource(x, q, amount) /\ PlaceBetTx(x, q, choice, amount)
      BY <1>2 DEF DbBet
    <2>2. q \in Rounds
      BY <1>0, <2>1, BetIntoBook
    <2>3. PlaceBetTx(x, q, choice, amount)
      BY <2>1
    <2>4. /\ p = x => /\ balance'[p] = balance[p] - amount
                      /\ ledger'[q][p] = Append(ledger[q][p], -amount)
                      /\ \A r \in Rounds : r # q => ledger'[r][p] = ledger[r][p]
          /\ p # x => /\ balance'[p] = balance[p]
                      /\ \A r \in Rounds : ledger'[r][p] = ledger[r][p]
      BY <2>2, <2>3 DEF PlaceBetTx, TypeOK
    <2>5. CASE p = x
      <3>0. -amount \in Int
        OBVIOUS
      <3>1. EnteredFor(q, p)' = EnteredFor(q, p) + (-amount)
        BY <1>seq, <2>2, <2>4, <2>5, <3>0, EntryAdds DEF EnteredFor
      <3>2. Entered(p)' = Entered(p) + (-amount)
        BY <2>2, <2>4, <2>5, <3>0, <3>1, EnteredChange
      <3> QED
        BY <1>0, <2>4, <2>5, <3>2
    <2>6. CASE p # x
      BY <1>0, <2>4, <2>6, EnteredKept
    <2> QED
      BY <2>5, <2>6
  <1>3. CASE DbSettle
    <2>1. PICK q \in LiveRound, outcome \in Choices : SettleRoundTx(q, outcome)
      BY <1>3 DEF DbSettle
    <2> DEFINE won == IF bets[q][p].state = "open"
                      THEN Winnings(SettledBet(bets[q][p], outcome)) ELSE 0
    <2>2. /\ q \in Rounds /\ won \in Nat
          /\ balance'[p] = balance[p] + won
          /\ ledger'[q][p] = Entry(ledger[q][p], won)
          /\ \A r \in Rounds : r # q => ledger'[r][p] = ledger[r][p]
      BY <2>1, SettleWrites
    <2> HIDE DEF won
    <2>3. EnteredFor(q, p)' = EnteredFor(q, p) + won
      BY <1>seq, <2>2, EntryAdds DEF EnteredFor
    <2>4. Entered(p)' = Entered(p) + won
      BY <2>2, <2>3, EnteredChange
    <2> QED
      BY <1>0, <2>2, <2>4
  <1>4. CASE DbAbort
    <2>1. /\ balance'[p] = balance[p] + RefundTotal(p)
          /\ \A r \in Rounds : ledger'[r][p] = Entry(ledger[r][p], Refund(r, p))
      BY <1>4 DEF DbAbort, AbortRoomTx
    <2>2. CASE \A r \in Rounds : Refund(r, p) = 0
      <3>1. RefundTotal(p) = 0
        BY <2>2 DEF RefundTotal
      <3>2. \A r \in Rounds : ledger'[r][p] = ledger[r][p]
        BY <2>1, <2>2 DEF Entry
      <3> QED
        BY <1>0, <2>1, <3>1, <3>2, EnteredKept
    <2>3. ASSUME NEW q \in Rounds, Refund(q, p) # 0
          PROVE  balance'[p] = StartBalance + Entered(p)'
      \* Only the round taking bets is refunded, so there is one term.
      <3>1. \A r \in Rounds : Refund(r, p) # 0 => r = q
        BY <1>0, <2>3 DEF Refund, OneLiveRound
      <3>2. RefundTotal(p) = Refund(q, p)
        BY <2>3, <3>1 DEF RefundTotal
      <3>3. Refund(q, p) \in Nat
        BY RefundType
      <3>4. EnteredFor(q, p)' = EnteredFor(q, p) + Refund(q, p)
        BY <1>seq, <2>1, <3>3, EntryAdds DEF EnteredFor
      <3>5. \A r \in Rounds : r # q => ledger'[r][p] = ledger[r][p]
        BY <2>1, <3>1 DEF Entry
      <3>6. Entered(p)' = Entered(p) + Refund(q, p)
        BY <3>3, <3>4, <3>5, EnteredChange
      <3> QED
        BY <1>0, <2>1, <3>2, <3>3, <3>6
    <2> QED
      BY <2>2, <2>3
  <1> QED
    BY <1>1, <1>2, <1>3, <1>4, DbStep DEF DbAny

\* player.go: "The sum of all entries for a player must always equal that
\* player's balance", for every number of rounds, under every overlap, fault,
\* crash and recovery.
THEOREM RoomLedgerReconciles == Spec => []LedgerReconciles
  <1>1. Init => LedgerReconciles
    <2> SUFFICES ASSUME Init, NEW p \in Players
                 PROVE  balance[p] = StartBalance + Entered(p)
      BY DEF LedgerReconciles
    <2> DEFINE f == [r \in Rounds |-> EnteredFor(r, p)]
               S == {k \in Nat : k <= MaxRounds => SumTo(f, k) = 0}
    <2>1. \A r \in Rounds : f[r] = 0
      BY SumToRec DEF Init, EnteredFor
    <2>2. Entered(p) = SumTo(f, MaxRounds) /\ balance[p] = StartBalance
      BY DEF Init, Entered, EnteredFor
    <2> HIDE DEF f
    <2>3. 0 \in S
      BY SumToRec
    <2>4. ASSUME NEW k \in Nat, k \in S PROVE k + 1 \in S
      <3>1. SumTo(f, k + 1) = SumTo(f, k) + f[k + 1]
        BY SumToRec
      <3> QED
        BY <2>1, <2>4, <3>1, RoomAssumption DEF Rounds
    <2> HIDE DEF S
    <2>5. MaxRounds \in S
      BY <2>3, <2>4, NatSetInduction, RoomAssumption
    <2> QED
      BY <2>2, <2>5, RoomAssumption DEF S
  <1>2. TypeOK /\ FateInv /\ LedgerReconciles /\ [Next]_vars => LedgerReconciles'
    BY ReconcilesStep DEF LedgerReconciles
  <1> QED
    BY <1>1, <1>2, RoomTyped, FateInvariant, PTL DEF Spec
-----------------------------------------------------------------------------
(***************************************************************************)
(* The refinement: what the database shows of a room is a run of the stake *)
(* book.  Each of the five transactions is one step of the book, or none.  *)
(***************************************************************************)
\* A bet that was never placed has no stake.
EmptyBets ==
    \A r \in Rounds, p \in Players : bets[r][p].state = "none" => bets[r][p] = NoBet

LEMMA EmptyBetsStep ==
    ASSUME TypeOK, EmptyBets, [Next]_vars
    PROVE  EmptyBets'
  <1> SUFFICES ASSUME NEW r \in Rounds, NEW p \in Players,
                      bets'[r][p].state = "none"
               PROVE  bets'[r][p] = NoBet
    BY DEF EmptyBets
  <1>0. bets[r][p] \in BetRecords
    BY DEF TypeOK
  <1>1. CASE DbIdle \/ DbStart \/ DbAbort \/ DbClose
    BY <1>1 DEF DbIdle, DbStart, DbAbort, DbClose, StartRoundTx, AbortRoomTx,
       CloseRoomTx, EmptyBets
  <1>2. CASE DbBet
    <2>1. PICK x \in Players, q \in Rounds \cup {0},
               choice \in Choices \cup {"none"}, amount \in Nat :
              PlaceBetTx(x, q, choice, amount)
      BY <1>2 DEF DbBet
    <2>2. \/ bets'[r][p] = bets[r][p]
          \/ bets'[r][p] = NewBet(choice, amount)
      BY <2>1 DEF PlaceBetTx, TypeOK
    <2> QED
      BY <2>2 DEF NewBet, EmptyBets
  <1>3. CASE DbSettle
    <2>1. PICK q \in LiveRound, outcome \in Choices : SettleRoundTx(q, outcome)
      BY <1>3 DEF DbSettle
    <2>2. bets'[r][p] \in {bets[r][p], SettledBet(bets[r][p], outcome)}
      BY <2>1, SettleWrites
    <2>3. bets'[r][p] = bets[r][p]
      BY <1>0, <2>2, SettledBetCases
    <2> QED
      BY <2>3 DEF EmptyBets
  <1> QED
    BY <1>1, <1>2, <1>3, DbStep DEF DbAny

\* StakeBook's payout is the room's.
LEMMA SamePayout == \A s : Book!Payout(s) = Payout(s)
  BY DEF Book!Payout, Payout, Book!Quo, Quo, Book!Int64, Int64,
     Book!PayoutNumerator, PayoutNumerator, Book!PayoutDenominator,
     PayoutDenominator

LEMMA BookInit == Init => Book!Init
  <1> SUFFICES ASSUME Init PROVE Book!Init
    OBVIOUS
  <1>1. \A r \in Rounds : BookOf(r) = "unopened"
    BY DEF Init, BookOf
  <1>2. \A r \in Rounds, p \in Players : bets[r][p].amount = 0 /\ PaidFor(r, p) = 0
    BY DEF Init, NoBet, PaidFor
  <1>3. balance = [p \in Players |-> StartBalance]
    BY DEF Init
  <1> QED
    BY <1>1, <1>2, <1>3 DEF Book!Init, Book!BookRounds, Rounds

\* What the book sees: a step that changes neither the books, the stakes, the
\* payments nor the wallets is a stutter of the book.
LEMMA BookStutter ==
    ASSUME \A r \in Rounds : BookOf(r)' = BookOf(r),
           UNCHANGED <<bets, balance, ledger>>
    PROVE  UNCHANGED Book!bookVars
  BY DEF Book!bookVars, PaidFor

\* A round that is not taking bets keeps its book, whatever the room's status.
LEMMA OtherBooks ==
    ASSUME NEW r \in Rounds, round'[r] = round[r],
           round[r] = "betting" => (status' = "closed" <=> status = "closed")
    PROVE  BookOf(r)' = BookOf(r)
  BY DEF BookOf

\* In an open book no bet is late: an open bet has been paid for and not been
\* credited, an absent one has neither a stake nor an entry; a betting round has no other bets.
LEMMA OpenBookBets ==
    ASSUME TypeOK, FateInv, EmptyBets, status # "closed",
           NEW r \in Rounds, round[r] = "betting", NEW p \in Players
    PROVE  /\ bets[r][p].amount \in Nat
           /\ \/ /\ bets[r][p].state = "open" /\ bets[r][p].amount # 0
                 /\ ledger[r][p] = <<-bets[r][p].amount>>
              \/ /\ bets[r][p].state = "none" /\ bets[r][p].amount = 0
                 /\ ledger[r][p] = <<>>
  <1>0. Resolved(r, p)
    BY DEF FateInv, Stranded, BookClosed
  <1>1. bets[r][p] \in BetRecords
    BY DEF TypeOK
  <1>2. bets[r][p].state \in {"open", "none"}
    BY <1>0, <1>1 DEF Resolved, BetRecords, BetStates, Choices
  <1>3. CASE bets[r][p].state = "open"
    BY <1>0, <1>1, <1>3 DEF Resolved, ResolvedEntries, BetRecords
  <1>4. CASE bets[r][p].state = "none"
    <2>1. bets[r][p] = NoBet
      BY <1>4 DEF EmptyBets
    <2>2. ledger[r][p] = <<>>
      BY <1>0, <1>4 DEF Resolved, ResolvedEntries
    <2> QED
      BY <1>4, <2>1, <2>2 DEF NoBet
  <1> QED
    BY <1>2, <1>3, <1>4

\* RoundRepository.Create opens the next book.
LEMMA StartOpensBook ==
    ASSUME TypeOK, OneLiveRound, DbStart
    PROVE  Book!Next
  <1>0. PICK n \in Rounds : n = currentRound + 1
    BY RoomAssumption DEF DbStart, CanStart, TypeOK, Rounds
  <1>1. /\ n \in Rounds /\ round[n] = "none" /\ LiveRound = {} /\ status = "open"
        /\ status' = status /\ UNCHANGED <<bets, balance, ledger>>
        /\ round' = [round EXCEPT ![n] = "betting"]
    BY <1>0 DEF DbStart, CanStart, StartRoundTx
  <1>2. BookOf(n) = "unopened" /\ BookOf(n)' = "open"
    BY <1>1 DEF BookOf, TypeOK
  <1>3. \A q \in Rounds : q < n => BookOf(q) = "settled"
    <2> SUFFICES ASSUME NEW q \in Rounds, q < n PROVE BookOf(q) = "settled"
      OBVIOUS
    <2>1. round[q] # "none"
      BY <1>0 DEF OneLiveRound, TypeOK, Rounds
    <2>2. round[q] # "betting"
      BY <1>1, LiveRoundIsCurrent
    <2> QED
      BY <2>1, <2>2 DEF BookOf
  <1>4. \A q \in Rounds : q # n => BookOf(q)' = BookOf(q)
    BY <1>1, OtherBooks DEF TypeOK
  <1> DEFINE book == [q \in Rounds |-> BookOf(q)]
  <1>5. book' = [book EXCEPT ![n] = "open"]
    BY <1>2, <1>4
  <1>6. UNCHANGED [q \in Rounds |-> [p \in Players |-> PaidFor(q, p)]]
    BY <1>1 DEF PaidFor
  <1>7. Book!Open(n)
    BY <1>1, <1>2, <1>3, <1>5, <1>6 DEF Book!Open, Book!BookRounds, Rounds
  <1> QED
    BY <1>7 DEF Book!Next, Book!BookRounds, Rounds

\* PlaceBetUseCase puts a stake in the open book, or comes too late for it.
LEMMA BetStakes ==
    ASSUME TypeOK, FateInv, EmptyBets, DbBet
    PROVE  Book!Next
  <1>1. PICK p \in Players, r \in Rounds \cup {0}, choice \in Choices \cup {"none"},
             amount \in Nat :
            /\ BetSource(p, r, amount) /\ CanCommitBet(p, r, amount)
            /\ PlaceBetTx(p, r, choice, amount)
    BY DEF DbBet
  <1>2. r \in Rounds /\ round[r] # "none" /\ amount # 0
    BY <1>1, BetIntoBook DEF FateInv
  <1>3. /\ bets[r][p] = NoBet /\ bets[r][p].amount = 0 /\ ledger[r][p] = <<>>
        /\ amount \in 1..balance[p]
    <2>1. bets[r][p] = NoBet /\ balance[p] >= amount
      BY <1>1 DEF CanCommitBet
    <2>2. bets[r][p].state = "none"
      BY <2>1 DEF NoBet
    <2>3. Resolved(r, p)
      BY <1>2, <2>2 DEF FateInv, Stranded
    <2>4. ledger[r][p] = <<>>
      BY <2>2, <2>3 DEF Resolved, ResolvedEntries
    <2> QED
      BY <1>2, <2>1, <2>4 DEF NoBet, TypeOK
  <1>4. /\ status' = status /\ round' = round
        /\ balance' = [balance EXCEPT ![p] = @ - amount]
        /\ bets' = [bets EXCEPT ![r][p] = NewBet(choice, amount)]
        /\ ledger' = [ledger EXCEPT ![r][p] = Append(@, -amount)]
    <2>1. PlaceBetTx(p, r, choice, amount)
      BY <1>1
    <2> QED
      BY <2>1 DEF PlaceBetTx
  <1>5. \A q \in Rounds : BookOf(q)' = BookOf(q)
    BY <1>4, OtherBooks
  <1>6. \A q \in Rounds, x \in Players :
            /\ bets'[q][x].amount =
                   IF q = r /\ x = p THEN amount ELSE bets[q][x].amount
            /\ PaidFor(q, x)' = PaidFor(q, x)
    <2> SUFFICES ASSUME NEW q \in Rounds, NEW x \in Players
                 PROVE  /\ bets'[q][x].amount =
                             IF q = r /\ x = p THEN amount ELSE bets[q][x].amount
                        /\ PaidFor(q, x)' = PaidFor(q, x)
      OBVIOUS
    <2>1. CASE q = r /\ x = p
      <3>1. bets'[q][x].amount = amount /\ ledger'[q][x] = <<-amount>>
        BY <1>2, <1>3, <1>4, <2>1 DEF NewBet, TypeOK
      <3> QED
        BY <1>3, <2>1, <3>1 DEF PaidFor
    <2>2. CASE ~(q = r /\ x = p)
      <3>1. bets'[q][x] = bets[q][x] /\ ledger'[q][x] = ledger[q][x]
        BY <1>2, <1>4, <2>2 DEF TypeOK
      <3> QED
        BY <2>2, <3>1 DEF PaidFor
    <2> QED
      BY <2>1, <2>2
  <1>7. BookOf(r) \in {"open", "settled", "refunded"}
    BY <1>2 DEF BookOf
  <1> DEFINE stake == [q \in Rounds |-> [x \in Players |-> bets[q][x].amount]]
             paid  == [q \in Rounds |-> [x \in Players |-> PaidFor(q, x)]]
             book  == [q \in Rounds |-> BookOf(q)]
  <1>8. stake' = [stake EXCEPT ![r][p] = amount]
    BY <1>2, <1>6
  <1>9. UNCHANGED <<book, paid>>
    BY <1>5, <1>6
  <1>10. book[r] \in {"open", "settled", "refunded"} /\ stake[r][p] = 0
    BY <1>2, <1>3, <1>7
  <1>11. Book!Stake(r, p, amount) \/ Book!LateStake(r, p, amount)
    <2>1. balance[p] >= amount
      BY <1>1 DEF CanCommitBet
    <2> QED
      BY <1>4, <1>8, <1>9, <1>10, <2>1 DEF Book!Stake, Book!LateStake
  <1> QED
    BY <1>2, <1>3, <1>11 DEF Book!Next, Book!BookRounds, Rounds
\* A payment of due to one player in an open book: how its entries change, and
\* what the book then shows as paid.
LEMMA PaidByEntry ==
    ASSUME TypeOK, FateInv, EmptyBets, status # "closed",
           NEW r \in Rounds, round[r] = "betting", NEW p \in Players,
           NEW due \in Nat, due # 0 => bets[r][p].state = "open",
           ledger'[r][p] = Entry(ledger[r][p], due)
    PROVE  PaidFor(r, p)' = due
  <1>1. CASE bets[r][p].state = "open"
    <2>1. ledger[r][p] = <<-bets[r][p].amount>> /\ bets[r][p].amount \in Nat
      BY <1>1, OpenBookBets
    <2> QED
      BY <2>1 DEF PaidFor, Entry
  <1>2. CASE bets[r][p].state # "open"
    <2>1. ledger[r][p] = <<>> /\ due = 0
      BY <1>2, OpenBookBets
    <2> QED
      BY <2>1 DEF PaidFor, Entry
  <1> QED
    BY <1>1, <1>2

\* SettleRoundUseCase settles the open book, and only that one.
LEMMA SettleSettles ==
    ASSUME TypeOK, FateInv, EmptyBets, DbSettle
    PROVE  Book!Next
  <1>2. PICK r \in LiveRound, outcome \in Choices : SettleRoundTx(r, outcome)
    BY DEF DbSettle
  <1>3. r \in Rounds /\ round[r] = "betting" /\ status # "closed" /\ OneLiveRound
    BY DEF DbSettle, LiveRound, LatestRound, FateInv
  <1> DEFINE After(p) == SettledBet(bets[r][p], outcome)
             Won(p)   == IF bets[r][p].state = "open" THEN Winnings(After(p)) ELSE 0
             winners  == {p \in Players : Won(p) # 0}
             Due(p)   == IF p \in winners THEN Payout(bets[r][p].amount) ELSE 0
             book     == [q \in Rounds |-> BookOf(q)]
             stake    == [q \in Rounds |-> [p \in Players |-> bets[q][p].amount]]
             paid     == [q \in Rounds |-> [p \in Players |-> PaidFor(q, p)]]
  <1>4. \A p \in Players :
            /\ bets'[r][p] = After(p) /\ Won(p) \in Nat
            /\ balance'[p] = balance[p] + Won(p)
            /\ ledger'[r][p] = Entry(ledger[r][p], Won(p))
            /\ After(p).amount = bets[r][p].amount
            /\ Won(p) = Due(p)
    <2> SUFFICES ASSUME NEW p \in Players
                 PROVE  /\ bets'[r][p] = After(p) /\ Won(p) \in Nat
                        /\ balance'[p] = balance[p] + Won(p)
                        /\ ledger'[r][p] = Entry(ledger[r][p], Won(p))
                        /\ After(p).amount = bets[r][p].amount
                        /\ Won(p) = Due(p)
      OBVIOUS
    <2>1. bets[r][p] \in BetRecords
      BY <1>3 DEF TypeOK
    <2>2. Won(p) # 0 => Won(p) = Payout(bets[r][p].amount)
      BY <2>1 DEF Winnings, SettledBet, BetRecords
    <2>3. After(p).amount = bets[r][p].amount
      BY <2>1, SettledBetCases
    <2> QED
      BY <1>2, <2>2, <2>3, SettleWrites
  <1>5. \A q \in Rounds : q # r => /\ round'[q] = round[q] /\ round[q] # "betting"
                                   /\ bets'[q] = bets[q] /\ ledger'[q] = ledger[q]
    <2>1. \A q \in Rounds : q # r => round[q] # "betting"
      BY <1>3 DEF OneLiveRound
    <2> QED
      BY <1>2, <2>1 DEF SettleRoundTx, TypeOK
  <1>6. book[r] = "open" /\ book' = [book EXCEPT ![r] = "settled"]
    <2>1. BookOf(r) = "open"
      BY <1>3 DEF BookOf
    <2>2. round'[r] = outcome
      BY <1>2, <1>3 DEF SettleRoundTx, TypeOK
    <2>3. BookOf(r)' = "settled"
      BY <2>2 DEF BookOf, Choices
    <2>4. \A q \in Rounds : q # r => BookOf(q)' = BookOf(q)
      BY <1>5, OtherBooks
    <2> QED
      BY <1>3, <2>1, <2>3, <2>4
  <1> HIDE DEF Won, After
  <1>7. \A p \in Players : PaidFor(r, p)' = Due(p)
    <2> SUFFICES ASSUME NEW p \in Players PROVE PaidFor(r, p)' = Due(p)
      OBVIOUS
    <2>1. Won(p) \in Nat /\ ledger'[r][p] = Entry(ledger[r][p], Won(p)) /\ Won(p) = Due(p)
      BY <1>4
    <2>2. Won(p) # 0 => bets[r][p].state = "open"
      BY DEF Won
    <2>3. PICK w \in Nat : w = Won(p)
      BY <2>1
    <2>4. PaidFor(r, p)' = w
      BY <1>3, <2>1, <2>2, <2>3, PaidByEntry
    <2> QED
      BY <2>1, <2>3, <2>4
  <1>8. paid' = [paid EXCEPT ![r] = [p \in Players |-> Due(p)]]
    <2>1. \A q \in Rounds, p \in Players : q # r => PaidFor(q, p)' = PaidFor(q, p)
      BY <1>5 DEF PaidFor
    <2> HIDE DEF Due
    <2> QED
      BY <1>3, <1>7, <2>1
  <1>9. stake' = stake
    BY <1>3, <1>4, <1>5
  <1>10. balance' = [p \in Players |-> balance[p] + Due(p)]
    <2>1. balance' = [p \in Players |-> balance'[p]]
      BY <1>2 DEF SettleRoundTx
    <2> QED
      BY <1>4, <2>1
  <1>11. Book!Settle(r, winners)
    <2>1. [p \in Players |-> IF p \in winners THEN Book!Payout(stake[r][p]) ELSE 0]
              = [p \in Players |-> Due(p)]
      BY <1>3, SamePayout
    <2>2. Book!CloseBook(r, "settled", [p \in Players |-> Due(p)])
      BY <1>6, <1>8, <1>9, <1>10 DEF Book!CloseBook
    <2> QED
      BY <2>1, <2>2 DEF Book!Settle
  <1>12. winners \in SUBSET Players
    OBVIOUS
  <1> HIDE DEF winners
  <1> QED
    BY <1>3, <1>11, <1>12 DEF Book!Next, Book!BookRounds, Rounds
\* An abort pays back each player's one open stake.
LEMMA OneRefund ==
    ASSUME TypeOK, OneLiveRound, NEW r \in Rounds, round[r] = "betting",
           NEW p \in Players
    PROVE  RefundTotal(p) = Refund(r, p)
  <1>1. \A q \in Rounds : q # r => Refund(q, p) = 0
    BY DEF OneLiveRound, Refund
  <1>2. CASE Refund(r, p) # 0
    <2>1. (CHOOSE q \in Rounds : Refund(q, p) # 0) = r
      BY <1>1, <1>2
    <2> QED
      BY <1>2, <2>1 DEF RefundTotal
  <1>3. CASE Refund(r, p) = 0
    BY <1>1, <1>3 DEF RefundTotal
  <1> QED
    BY <1>2, <1>3

\* AbortRoomUseCase refunds the open book, if there is one.
LEMMA AbortRefunds ==
    ASSUME TypeOK, FateInv, EmptyBets, DbAbort
    PROVE  Book!Next \/ UNCHANGED Book!bookVars
  <1>1. /\ status # "closed" /\ status' = "closed" /\ round' = round /\ bets' = bets
        /\ balance' = [p \in Players |-> balance[p] + RefundTotal(p)]
        /\ ledger' = [q \in Rounds |->
                        [p \in Players |-> Entry(ledger[q][p], Refund(q, p))]]
        /\ OneLiveRound
    BY DEF DbAbort, AbortRoomTx, FateInv
  <1>2. CASE \A q \in Rounds : round[q] # "betting"
    <2>1. \A q \in Rounds, p \in Players : Refund(q, p) = 0
      BY <1>2 DEF Refund
    <2>2. balance' = balance
      <3>1. \A p \in Players : RefundTotal(p) = 0
        BY <2>1 DEF RefundTotal
      <3> QED
        BY <1>1, <3>1 DEF TypeOK
    <2>3. ledger' = ledger
      <3>1. \A q \in Rounds, p \in Players : Entry(ledger[q][p], Refund(q, p)) = ledger[q][p]
        BY <2>1 DEF Entry
      <3> QED
        BY <1>1, <3>1 DEF TypeOK
    <2> QED
      BY <1>1, <1>2, <2>2, <2>3, OtherBooks, BookStutter
  <1>3. ASSUME NEW r \in Rounds, round[r] = "betting" PROVE Book!Next
    <2> DEFINE book  == [q \in Rounds |-> BookOf(q)]
               stake == [q \in Rounds |-> [p \in Players |-> bets[q][p].amount]]
               paid  == [q \in Rounds |-> [p \in Players |-> PaidFor(q, p)]]
    <2>1. \A p \in Players : /\ Refund(r, p) = bets[r][p].amount
                             /\ bets[r][p].amount \in Nat
                             /\ bets[r][p].amount # 0 => bets[r][p].state = "open"
      BY <1>1, <1>3, OpenBookBets DEF Refund
    <2>2. balance' = [p \in Players |-> balance[p] + stake[r][p]]
      BY <1>1, <1>3, <2>1, OneRefund
    <2>3. \A p \in Players : PaidFor(r, p)' = stake[r][p]
      <3> SUFFICES ASSUME NEW p \in Players PROVE PaidFor(r, p)' = bets[r][p].amount
        OBVIOUS
      <3>1. PICK w \in Nat : w = bets[r][p].amount
        BY <2>1
      <3>2. ledger'[r][p] = Entry(ledger[r][p], w)
        BY <1>1, <2>1, <3>1
      <3>3. PaidFor(r, p)' = w
        BY <1>1, <1>3, <2>1, <3>1, <3>2, PaidByEntry
      <3> QED
        BY <3>1, <3>3
    <2>4. \A q \in Rounds : q # r => round[q] # "betting"
      BY <1>1, <1>3 DEF OneLiveRound
    <2>5. \A q \in Rounds, p \in Players : q # r => PaidFor(q, p)' = PaidFor(q, p)
      <3> SUFFICES ASSUME NEW q \in Rounds, NEW p \in Players, q # r
                   PROVE  PaidFor(q, p)' = PaidFor(q, p)
        OBVIOUS
      <3>1. ledger'[q][p] = ledger[q][p]
        BY <1>1, <2>4 DEF Refund, Entry
      <3> QED
        BY <3>1 DEF PaidFor
    <2>6. paid' = [paid EXCEPT ![r] = stake[r]]
      BY <1>3, <2>3, <2>5
    <2>7. book[r] = "open" /\ book' = [book EXCEPT ![r] = "refunded"]
      <3>1. BookOf(r) = "open" /\ BookOf(r)' = "refunded"
        BY <1>1, <1>3 DEF BookOf
      <3>2. \A q \in Rounds : q # r => BookOf(q)' = BookOf(q)
        BY <1>1, <2>4, OtherBooks
      <3> QED
        BY <3>1, <3>2
    <2>8. stake' = stake
      BY <1>1
    <2>9. Book!Refund(r)
      BY <2>2, <2>6, <2>7, <2>8 DEF Book!Refund, Book!CloseBook
    <2> QED
      BY <2>9 DEF Book!Next, Book!BookRounds, Rounds
  <1> QED
    BY <1>2, <1>3

\* A close is no step of the book: it ends the room only if no book is open.
LEMMA CloseStutters ==
    ASSUME TypeOK, OneLiveRound, DbClose
    PROVE  UNCHANGED Book!bookVars
  <1>1. /\ status # "closed" /\ round' = round
        /\ UNCHANGED <<bets, balance, ledger>>
        /\ LiveRound # {} => status' # "closed"
    BY DEF DbClose, CloseRoomTx
  <1>2. \A r \in Rounds : round[r] = "betting" => status' # "closed"
    BY <1>1, LiveRoundIsCurrent
  <1> QED
    BY <1>1, <1>2, OtherBooks, BookStutter

\* Every step of the room is a step of the book or a stutter.
LEMMA BookStep ==
    ASSUME TypeOK, FateInv, EmptyBets, [Next]_vars
    PROVE  [Book!Next]_(Book!bookVars)
  <1>0. OneLiveRound
    BY DEF FateInv
  <1>1. CASE DbIdle
    BY <1>1, OtherBooks, BookStutter DEF DbIdle
  <1> QED
    BY <1>0, <1>1, StartOpensBook, BetStakes, SettleSettles, AbortRefunds,
       CloseStutters, DbStep DEF DbAny

\* Whatever the interleaving of requests, loop, failures, lost
\* acknowledgements, crashes, restarts and another process's recovery, the room
\* implements the stake book: a stake is taken once, a book is closed once,
\* settled or refunded with every stake in it, a stake that comes later is paid
\* nothing, and no other step of the room moves money.
THEOREM RoomImplementsStakeBook == Spec => ImplementsStakeBook
  <1>1. Init => EmptyBets
    BY DEF Init, EmptyBets
  <1>2. TypeOK /\ EmptyBets /\ [Next]_vars => EmptyBets'
    BY EmptyBetsStep
  <1>3. TypeOK /\ FateInv /\ EmptyBets /\ [Next]_vars => [Book!Next]_(Book!bookVars)
    BY BookStep
  <1> QED
    BY <1>1, <1>2, <1>3, BookInit, RoomTyped, FateInvariant, PTL
       DEF Spec, ImplementsStakeBook, Book!Spec
-----------------------------------------------------------------------------
(***************************************************************************)
(* The loop never loses a betting round, but for the three failures that   *)
(* nobody attends to.                                                      *)
(***************************************************************************)
\* The strengthening of NoOrphanRound: roomLoop.live, by which a quit decides
\* whether to refund, is true whenever the alarm is set for a betting round.
OrphanInv ==
    (failed \cap Unattended = {} /\ proc # "down" /\ status # "closed"
        /\ LiveRound # {}) =>
            /\ loop # "none"
            /\ loop = "abort" \/ (timer # NoTimer /\ live)

\* Every transaction that does not end well is remembered, and for good.
LEMMA EndsRecorded ==
    ASSUME NEW tx, NEW o, Ends(tx, o)
    PROVE  /\ failed \subseteq failed'
           /\ o = "ok" \/ (o \in {"rollback", "lost"} /\ <<tx, o>> \in failed')
  BY RoomAssumption DEF Ends

\* An abort that is attended to leaves the room closed.
LEMMA AbortCloses ==
    ASSUME NEW tx \in {"abort", "recover"}, NEW o, AbortRoom(tx, o),
           failed' \cap Unattended = {}
    PROVE  status' = "closed"
  <1>1. CASE status = "closed" /\ UNCHANGED <<dbVars, failed>>
    BY <1>1 DEF dbVars
  <1>2. CASE /\ Ends(tx, o)
             /\ IF o = "rollback" THEN UNCHANGED dbVars ELSE AbortRoomTx
    <2>1. o # "rollback"
      BY <1>2, EndsRecorded DEF Unattended
    <2> QED
      BY <1>2, <2>1 DEF AbortRoomTx
  <1> QED
    BY <1>1, <1>2 DEF AbortRoom

LEMMA OrphanInvStep ==
    ASSUME TypeOK, OneLiveRound, OrphanInv, [Next]_vars
    PROVE  OrphanInv'
  <1> DEFINE Attended == /\ loop' # "none"
                         /\ loop' = "abort" \/ (timer' # NoTimer /\ live')
  <1> SUFFICES ASSUME failed' \cap Unattended = {}, proc' # "down",
                      status' # "closed", LiveRound' # {}
               PROVE  Attended
    BY DEF OrphanInv
  <1>live. round' = round => LiveRound' = LiveRound
    BY DEF LiveRound, LatestRound
  \* The loop, its alarm and the round stay as they are.
  <1>same. ASSUME failed \subseteq failed', proc # "down",
                  status = "closed" => status' = "closed", round' = round,
                  timer # NoTimer => timer' # NoTimer, live' = live,
                  loop' = loop \/ (loop # "abort" /\ loop' # "none")
           PROVE  Attended
    BY <1>same, <1>live DEF OrphanInv
  <1>1. ASSUME NEW c \in Calls, NEW o, LoopStart(c, o) PROVE Attended
    <2>0. loop = "idle" /\ loop' = loop /\ proc' = proc
      BY <1>1 DEF LoopStart, Taken, procVars
    <2>1. CASE UNCHANGED <<dbVars, window, timer, live, failed>>
      BY <1>same, <2>0, <2>1 DEF dbVars
    <2>2. CASE /\ CanStart(call[c].player) /\ Ends("start", o)
               /\ UNCHANGED <<dbVars, window, timer>>
      BY <1>live, <2>2 DEF dbVars, CanStart
    <2>3. ASSUME Ends("start", o), o # "rollback", live' = (live \/ o = "ok"),
                 NEW elapsed \in 0..(WindowTicks + 1),
                 timer' = IF o = "ok" THEN Delay(WindowTicks - elapsed) ELSE timer
          PROVE  Attended
      <3>1. o = "ok"
        BY <2>3, EndsRecorded DEF Unattended
      <3>2. timer' \in 0..WindowTicks
        BY <2>3, <3>1, DelayType
      <3>3. timer' # NoTimer
        BY <3>2, RoomAssumption DEF NoTimer
      <3> QED
        BY <2>0, <2>3, <3>1, <3>3
    <2> QED
      BY <1>1, <2>1, <2>2, <2>3 DEF LoopStart
  <1>2. ASSUME NEW c \in Calls, LoopBetRead(c) PROVE Attended
    <2>1. /\ failed' = failed /\ proc' = proc /\ status' = status /\ round' = round
          /\ timer' = timer /\ live' = live /\ loop = "idle"
      BY <1>2 DEF LoopBetRead, Taken, dbVars, procVars
    <2>2. loop' \in {"bet", "idle"}
      BY <1>2, <2>1 DEF LoopBetRead
    <2> QED
      BY <1>same, <2>1, <2>2
  <1>bet. ASSUME NEW p, NEW r, NEW choice, NEW amount, NEW o,
                 CommitBet(p, r, choice, amount, o)
          PROVE  failed \subseteq failed' /\ UNCHANGED <<status, round>>
    BY <1>bet, EndsRecorded DEF CommitBet, PlaceBetTx, dbVars
  <1>3. ASSUME NEW o, LoopBetCommit(o) PROVE Attended
    <2>1. /\ loop = "bet" /\ loop' = "idle" /\ timer' = timer /\ live' = live
          /\ proc' = proc
          /\ CommitBet(cmd.player, cmd.round, cmd.choice, cmd.amount, o)
      BY <1>3 DEF LoopBetCommit, procVars
    <2> QED
      BY <1>same, <1>bet, <2>1
  <1>close. ASSUME NEW p, NEW o, CloseRoom(p, o)
            PROVE  /\ failed \subseteq failed' /\ round' = round
                   /\ status = "closed" => status' = "closed"
    BY <1>close, EndsRecorded DEF CloseRoom, CloseRoomTx, CanClose, dbVars
  <1>4. ASSUME NEW c \in Calls, NEW o, LoopClose(c, o) PROVE Attended
    <2>1. /\ failed \subseteq failed' /\ round' = round /\ proc' = proc
          /\ status = "closed" => status' = "closed"
      BY <1>4, <1>close DEF LoopClose, procVars
    <2>2. CASE UNCHANGED loopVars
      BY <1>same, <2>1, <2>2 DEF loopVars
    <2> QED
      BY <1>4, <2>2 DEF LoopClose, ReportsClosed
  <1>5. ASSUME NEW o, NEW outcome \in Outcomes, LoopSettle(o, outcome)
        PROVE  Attended
    <2>1. CASE LiveRound = {} /\ UNCHANGED dbVars
      BY <1>live, <2>1 DEF dbVars
    <2>2. CASE status = "closed" /\ UNCHANGED dbVars
      BY <2>2 DEF dbVars
    <2>3. ASSUME NEW r \in LiveRound, SettleRoundTx(r, outcome) PROVE FALSE
      <3>1. /\ outcome \in Choices /\ r \in Rounds
            /\ round' = [round EXCEPT ![r] = outcome]
        BY <2>3, OutcomesAreChoices DEF SettleRoundTx, LiveRound, LatestRound
      <3>2. \A q \in Rounds : round'[q] # "betting"
        BY <3>1, LiveRoundIsCurrent DEF OneLiveRound, Choices, TypeOK
      <3> QED
        BY <3>2 DEF LiveRound, LatestRound
    <2>4. CASE loop' = "abort"
      BY <2>4
    <2> QED
      BY <1>5, <2>1, <2>2, <2>3, <2>4 DEF LoopSettle
  <1>6. ASSUME NEW o, LoopAbort(o) PROVE Attended
    BY <1>6, AbortCloses DEF LoopAbort
  <1>7. ASSUME NEW o, LoopQuit(o) PROVE Attended
    <2>1. CASE AbortRoom("abort", o)
      BY <2>1, AbortCloses
    <2>2. CASE ~live /\ UNCHANGED <<dbVars, failed>>
      <3>1. proc = "stopping" /\ loop = "idle"
        BY <1>7 DEF LoopQuit
      <3> QED
        BY <1>live, <2>2, <3>1 DEF OrphanInv, dbVars
    <2> QED
      BY <1>7, <2>1, <2>2 DEF LoopQuit
  <1>8. ASSUME NEW c \in Calls, NEW o, DirectClose(c, o) PROVE Attended
    <2>1. /\ failed \subseteq failed' /\ round' = round
          /\ status = "closed" => status' = "closed"
      BY <1>8, <1>close DEF DirectClose
    <2>2. UNCHANGED <<loopVars, procVars>>
      BY <1>8 DEF DirectClose
    <2> QED
      BY <1>same, <2>1, <2>2 DEF loopVars, procVars
  <1>9. ASSUME NEW c \in Calls, NEW o, DirectBetCommit(c, o) PROVE Attended
    <2>1. UNCHANGED <<loopVars, procVars>>
      BY <1>9 DEF DirectBetCommit
    <2>2. failed \subseteq failed' /\ UNCHANGED <<status, round>>
      BY <1>9, <1>bet DEF DirectBetCommit
    <2> QED
      BY <1>same, <2>1, <2>2 DEF loopVars, procVars
  <1>10. ASSUME NEW o, Boot(o) PROVE Attended
    BY <1>10, AbortCloses DEF Boot
  <1>11. CASE PeerRecovers \/ ProcessEnds
    BY <1>11 DEF PeerRecovers, AbortRoomTx, ProcessEnds
  <1>12. ASSUME NEW c \in Calls,
                \/ RequestStart(c) \/ RequestBet(c) \/ RequestClose(c)
                \/ GiveUp(c) \/ DirectBetRead(c)
         PROVE  Attended
    <2>1. /\ failed' = failed /\ proc' = proc /\ status' = status /\ round' = round
          /\ timer' = timer /\ live' = live
          /\ loop' = loop \/ (loop # "abort" /\ loop' # "none")
      BY <1>12 DEF RequestStart, RequestBet, RequestClose, Request, GiveUp,
         DirectBetRead, dbVars, procVars, loopVars
    <2> QED
      BY <1>same, <2>1
  <1>13. ASSUME NEW p \in Players, Join(p) PROVE Attended
    BY <1>13, <1>same DEF Join, loopVars, procVars
  <1>14. CASE Tick
    <2>1. timer # NoTimer => timer' # NoTimer
      BY <1>14, RoomAssumption DEF Tick, TypeOK, NoTimer
    <2> QED
      BY <1>14, <1>same, <2>1 DEF Tick, dbVars, procVars
  <1>15. CASE Shutdown \/ UNCHANGED vars
    <2>1. /\ failed' = failed /\ status' = status /\ round' = round
          /\ UNCHANGED loopVars /\ proc # "down"
      BY <1>15 DEF Shutdown, vars, dbVars, procVars
    <2> QED
      BY <1>same, <2>1 DEF loopVars
  <1>16. CASE LoopNext
    BY <1>1, <1>2, <1>3, <1>4, <1>5, <1>6, <1>7, <1>16 DEF LoopNext
  <1>17. CASE CallNext
    BY <1>8, <1>9, <1>12, <1>17 DEF CallNext
  <1>18. CASE EnvNext
    BY <1>10, <1>11, <1>13, <1>14, <1>15, <1>18 DEF EnvNext
  <1> QED
    BY <1>15, <1>16, <1>17, <1>18 DEF Next

\* engine.go: a round that takes bets has an alarm that will settle it or an
\* abort under way, for every number of requests, failures, shutdowns, crashes
\* and restarts, also with another process recovering, unless a start was not
\* acknowledged or an abort or a recovery failed.
THEOREM NoRoundOrphaned == Spec => []NoOrphanRound
  <1>1. Init => OrphanInv
    BY DEF Init, OrphanInv, LiveRound, LatestRound
  <1>2. TypeOK /\ OneLiveRound /\ OrphanInv /\ [Next]_vars => OrphanInv'
    BY OrphanInvStep
  <1>3. OrphanInv => NoOrphanRound
    BY DEF OrphanInv, NoOrphanRound
  <1> QED
    BY <1>1, <1>2, <1>3, RoomTyped, RoundsInSequence, PTL DEF Spec
==============================================================================
