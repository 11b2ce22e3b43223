------------------------------ MODULE RoomEngine ------------------------------
(***************************************************************************)
(* One room, the room loop that owns its rounds, and the database the two  *)
(* write to (internal/application/game and internal/domain/game).          *)
(*                                                                         *)
(* The database transactions that lock the room row (start, settle, close, *)
(* abort) exclude each other, so each is one step.  PlaceBet reads the     *)
(* room without a lock: it is a read step and a commit step.  What the use *)
(* cases write to Redis after a commit is in Seating (player bindings) and *)
(* RoomCache (the room listing).                                           *)
(***************************************************************************)
EXTENDS DiceRules, Sequences, FiniteSets

CONSTANTS
    Players,        \* the players that may sit at the table
    Owner,          \* the player that created the room
    MaxPlayers,     \* seats (6 in the code)
    MaxRounds,      \* rounds a room plays (10 in the code)
    Amounts,        \* stakes tried
    BetChoices,     \* sides tried
    StartBalance,   \* every wallet's deposit before the game
    Faces,          \* die faces the roller may produce
    Calls,          \* requests that can be in flight at once
    WindowTicks,    \* length of the betting window, in clock ticks
    FaultKinds,     \* the ways a transaction may go wrong in this instance
    MaxFaults,      \* bound on the number of kinds of failure in a behaviour
    MaxBoots,       \* bound on the number of process starts after the first
    LongWindow,     \* TRUE: the betting window is at least as long as the
                    \* 15 s context of a bet request, as by default
    PeerBoot        \* TRUE: another process may boot, and recover the room

ASSUME RoomAssumption ==
    /\ Owner \in Players
    /\ MaxPlayers \in Nat \ {0}
    /\ MaxRounds \in Nat \ {0}
    /\ Amounts \subseteq Nat \ {0}
    /\ BetChoices \subseteq Choices
    /\ StartBalance \in Nat
    /\ Faces \subseteq 1..6
    /\ WindowTicks \in Nat \ {0}
    /\ FaultKinds \subseteq {"rollback", "lost"}
    /\ MaxFaults \in Nat
    /\ MaxBoots \in Nat
    /\ LongWindow \in BOOLEAN
    /\ PeerBoot \in BOOLEAN

VARIABLES
    \* PostgreSQL
    status,         \* rooms.status
    seats,          \* room_players
    currentRound,   \* rooms.current_round
    round,          \* rounds: absent, betting, or the outcome it settled with
    bets,           \* bets, by round and player
    balance,        \* players.balance
    ledger,         \* transactions, signed amounts by round and player
    \* wall clock
    window,         \* ticks from now to the latest round's BettingClosesAt
    \* the API process
    proc,           \* up, stopping (Engine.Shutdown called) or down
    loop,           \* the room's goroutine: none, idle, bet or abort
    timer,          \* roomLoop.timer: ticks until it fires, or NoTimer (nil)
    live,           \* roomLoop.live
    cmd,            \* the bet the loop has read and not committed
    call,           \* requests in flight
    \* history
    late,           \* bets committed when their book was already closed
    failed,         \* failures met so far: <<transaction, ending>>
    boots           \* process starts after the first

dbVars    == <<status, seats, currentRound, round, bets, balance, ledger, late>>
loopVars  == <<loop, timer, live, cmd>>
procVars  == <<proc, boots>>
vars      == <<dbVars, window, loopVars, call, procVars, failed>>

Rounds  == 1..MaxRounds
NoTimer == -1
TxKinds == {"start", "bet", "close", "settle", "abort", "recover"}
-----------------------------------------------------------------------------
(***************************************************************************)
(* Values.                                                                 *)
(***************************************************************************)
NoBet  == [choice |-> "none", amount |-> 0, state |-> "none", payout |-> 0]
NewBet(choice, amount) ==
    [choice |-> choice, amount |-> amount, state |-> "open", payout |-> 0]

\* Bet.Settle
SettledBet(b, outcome) ==
    CASE b.state # "open" -> b
      [] b.state = "open" /\ Matches(b.choice, outcome) ->
            [b EXCEPT !.state = "won", !.payout = Payout(b.amount)]
      [] OTHER -> [b EXCEPT !.state = "lost"]

IdleCall == [pc |-> "idle", kind |-> "none", player |-> Owner,
             choice |-> "none", amount |-> 0, round |-> 0]
NoCmd    == [player |-> Owner, choice |-> "none", amount |-> 0, round |-> 0]

BetStates   == {"none", "open", "won", "lost"}
BetRecords  == [choice : Choices \cup {"none"}, amount : Nat,
                state : BetStates, payout : Int]
CallRecords == [pc : {"idle", "send", "wait", "direct", "tx"},
                kind : {"none", "start", "bet", "close"}, player : Players,
                choice : Choices \cup {"none"}, amount : Nat,
                round : Rounds \cup {0}]
CmdRecords  == [player : Players, choice : Choices \cup {"none"},
                amount : Nat, round : Rounds \cup {0}]
-----------------------------------------------------------------------------
(***************************************************************************)
(* What a transaction reads.                                               *)
(***************************************************************************)
\* RoundRepository.GetCurrent: the row with the highest number, if any.
LatestRound == {r \in Rounds : /\ round[r] # "none"
                               /\ \A q \in Rounds : round[q] # "none" => q <= r}

\* attachLiveRound: the latest round unless it is settled (at most one).
LiveRound == {r \in LatestRound : round[r] = "betting"}

\* The number of the next round, and the row it becomes; the unique
\* (room_id, number) constraint of RoundRepository.Create.
NextNumber      == currentRound + 1
NewRound        == [round EXCEPT ![NextNumber] = "betting"]
RoundNumberFree == round[NextNumber] = "none"

\* A start that does not look for a live round.
CanStartAnytime(p) ==
    /\ p = Owner
    /\ status = "open"
    /\ seats # {}
    /\ currentRound < MaxRounds
    /\ RoundNumberFree

\* Engine and use-case conditions of round.start: owner, open room, no live
\* round, somebody seated, cap not reached, unique (room, number).
CanStart(p) ==
    /\ p = Owner
    /\ status = "open"
    /\ LiveRound = {}
    /\ seats # {}
    /\ currentRound < MaxRounds
    /\ RoundNumberFree

\* Room.Close: owner, and not closed yet.
CanClose(p) == p = Owner /\ status # "closed"

\* Room.PlaceBet, before it asks the round.
RoomTakesBets(p) == status # "closed" /\ p \in seats

\* Room.PlaceBet and Round.PlaceBet on what GetByID and GetCurrent returned.
CanBet(p, r) ==
    /\ r \in LiveRound
    /\ RoomTakesBets(p)
    /\ window > 0
    /\ bets[r][p] = NoBet

\* A commit without the funds check, and one without the unique constraint.
CanCommitBetNoFunds(p, r, amount) == bets[r][p] = NoBet
CanCommitBetTwice(p, r, amount) == balance[p] >= amount

\* The unique (round_id, player_id) constraint and Player.Debit, evaluated
\* under the player's row lock.
CanCommitBet(p, r, amount) == bets[r][p] = NoBet /\ balance[p] >= amount
-----------------------------------------------------------------------------
(***************************************************************************)
(* How a transaction ends.  "ok"; "rollback": it fails and nothing is      *)
(* written; "lost": it commits but its caller sees an error, and what the  *)
(* use case does after the commit is skipped.                              *)
(***************************************************************************)
Ends(tx, o) ==
    \/ o = "ok" /\ UNCHANGED failed
    \/ /\ o \in FaultKinds
       /\ failed' = failed \cup {<<tx, o>>}
       /\ Cardinality(failed') <= MaxFaults

\* One ledger entry, when there is something to pay.
Entry(entries, amount) ==
    IF amount = 0 THEN entries ELSE Append(entries, amount)

\* StartRoundUseCase.Execute; BettingClosesAt is WindowTicks after the time read
\* in the transaction.
StartRoundTx ==
    /\ currentRound' = NextNumber
    /\ round' = NewRound
    /\ UNCHANGED <<status, seats, bets, balance, ledger, late>>

\* The book of round r takes no more bets: it was settled, or its room closed.
BookClosed(r) == round[r] # "betting" \/ status = "closed"

\* PlaceBetUseCase.Execute from bets.Insert on.  It looks at neither the room nor
\* the round again; late keeps the bets that come after their book was closed.
PlaceBetTx(p, r, choice, amount) ==
    /\ bets' = [bets EXCEPT ![r][p] = NewBet(choice, amount)]
    /\ balance' = [balance EXCEPT ![p] = @ - amount]
    /\ ledger' = [ledger EXCEPT ![r][p] = Append(@, -amount)]
    /\ late' = late \cup (IF BookClosed(r) THEN {<<r, p>>} ELSE {})
    /\ UNCHANGED <<status, seats, currentRound, round>>

\* A settlement that credits the profit instead of the gross payout.
WinningsNet(b) == IF b.state = "won" /\ b.payout > 0 THEN b.payout - b.amount ELSE 0

\* What settling bet b credits: nothing for a loss or a non-positive payout.
Winnings(b) == IF b.state = "won" /\ b.payout > 0 THEN b.payout ELSE 0

\* Round.Settle: every bet of the round by the one outcome.
SettledBets(r, outcome) == [p \in Players |-> SettledBet(bets[r][p], outcome)]

\* RoundRepository.Settle
SettledRound(r, outcome) == [round EXCEPT ![r] = outcome]

\* The CHECK bets_payout_non_negative lets every result be written; a payout
\* whose product wrapped below zero fails the settlement.
PayoutsStorable(r, outcome) ==
    \A p \in Players : SettledBets(r, outcome)[p].payout >= 0

\* BetRepository.SettleBet, for every result.
RecordedBets(r, outcome) == [bets EXCEPT ![r] = SettledBets(r, outcome)]

\* Room.finishRound
StatusAfterRound ==
    IF status = "closing" \/ currentRound >= MaxRounds THEN "closed" ELSE status

\* SettleRoundUseCase.Execute with Room.SettleRound.
SettleRoundTx(r, outcome) ==
    LET after == SettledBets(r, outcome)
        won   == [p \in Players |->
                    IF bets[r][p].state = "open" THEN Winnings(after[p]) ELSE 0]
    IN  /\ round' = SettledRound(r, outcome)
        /\ bets' = RecordedBets(r, outcome)
        /\ balance' = [p \in Players |-> balance[p] + won[p]]
        /\ ledger' = [ledger EXCEPT ![r] =
                        [p \in Players |-> Entry(ledger[r][p], won[p])]]
        /\ status' = StatusAfterRound
        /\ UNCHANGED <<seats, currentRound, late>>

\* An abort that closes the room and gives nothing back.
RefundNothing(r, p) == 0

\* What an abort refunds to p for round r.
Refund(r, p) ==
    IF round[r] = "betting" /\ bets[r][p].state = "open"
    THEN bets[r][p].amount ELSE 0

\* A refund that appends the ledger entry and does not credit the wallet.
RefundEntryOnly(p) == 0

\* The refunds add up over the betting rounds; OneLiveRound (below) is why
\* there is never more than one term.
RefundTotal(p) ==
    IF \E r \in Rounds : Refund(r, p) # 0
    THEN Refund(CHOOSE r \in Rounds : Refund(r, p) # 0, p) ELSE 0

\* AbortRoomUseCase.Execute: refund every open stake, close the room.  The
\* round and its bets keep the status they had.
AbortRoomTx ==
    /\ balance' = [p \in Players |-> balance[p] + RefundTotal(p)]
    /\ ledger' = [r \in Rounds |->
                    [p \in Players |-> Entry(ledger[r][p], Refund(r, p))]]
    /\ status' = "closed"
    /\ UNCHANGED <<seats, currentRound, round, bets, late>>

\* A close that does not wait for the live round.
CloseRoomAtOnce ==
    /\ status' = "closed"
    /\ UNCHANGED <<seats, currentRound, round, bets, balance, ledger, late>>

\* CloseRoomUseCase.Execute with Room.Close.
CloseRoomTx ==
    /\ status' = IF status = "closing" \/ LiveRound # {}
                 THEN "closing" ELSE "closed"
    /\ UNCHANGED <<seats, currentRound, round, bets, balance, ledger, late>>

\* AbortRoomUseCase.Execute as its callers see it: refused when closed.
AbortRoom(tx, o) ==
    \/ /\ status = "closed"
       /\ o = "ok"
       /\ UNCHANGED <<dbVars, failed>>
    \/ /\ status # "closed"
       /\ Ends(tx, o)
       /\ IF o = "rollback" THEN UNCHANGED dbVars ELSE AbortRoomTx
-----------------------------------------------------------------------------
(***************************************************************************)
(* Requests (Engine.StartRound, PlaceBet, CloseRoom through dispatch).     *)
(***************************************************************************)
Init ==
    /\ status = "open"
    /\ seats = {Owner}
    /\ currentRound = 0
    /\ round = [r \in Rounds |-> "none"]
    /\ bets = [r \in Rounds |-> [p \in Players |-> NoBet]]
    /\ balance = [p \in Players |-> StartBalance]
    /\ ledger = [r \in Rounds |-> [p \in Players |-> <<>>]]
    /\ late = {}
    /\ window = 0
    /\ proc = "up"
    /\ loop = "none"
    /\ timer = NoTimer
    /\ live = FALSE
    /\ cmd = NoCmd
    /\ call = [c \in Calls |-> IdleCall]
    /\ failed = {}
    /\ boots = 0

\* loopFor and the first half of dispatch.  A stopped engine refuses (no
\* state changes); an existing loop is sent the command; round.start creates
\* the loop; anything else falls through to the use case ("direct").
Request(c, kind, p, choice, amount) ==
    /\ proc = "up"
    /\ call[c].pc = "idle"
    /\ kind = "close" \/ p \in seats
    /\ loop' = IF loop = "none" /\ kind = "start" THEN "idle" ELSE loop
    /\ call' = [call EXCEPT ![c] =
                  [pc |-> IF loop' = "none" THEN "direct" ELSE "send",
                   kind |-> kind, player |-> p, choice |-> choice,
                   amount |-> amount, round |-> 0]]
    /\ UNCHANGED <<dbVars, window, timer, live, cmd, procVars, failed>>

RequestStart(c) == \E p \in Players : Request(c, "start", p, "none", 0)
RequestClose(c) == \E p \in Players : Request(c, "close", p, "none", 0)
RequestBet(c)   == \E p \in Players, choice \in BetChoices, amount \in Amounts :
                      Request(c, "bet", p, choice, amount)

\* The caller's context ends first: it stops waiting (or its own transaction
\* is rolled back); a command the loop has taken goes on without it.
GiveUp(c) ==
    /\ call[c].pc # "idle"
    /\ call' = [call EXCEPT ![c] = IdleCall]
    /\ UNCHANGED <<dbVars, window, loopVars, procVars, failed>>

\* The callers left when a loop closes l.done: errNoLoop, which StartRound
\* returns and PlaceBet and CloseRoom turn into a direct execution.
Released(calls) ==
    [c \in Calls |->
        CASE calls[c].pc # "send" -> calls[c]
          [] calls[c].pc = "send" /\ calls[c].kind = "start" -> IdleCall
          [] OTHER -> [calls[c] EXCEPT !.pc = "direct"]]

\* The deferred function of run(): disarm, removeLoop, close(done).
ExitLoop(calls) ==
    /\ loop' = "none"
    /\ timer' = NoTimer
    /\ live' = FALSE
    /\ cmd' = NoCmd
    /\ call' = Released(calls)
-----------------------------------------------------------------------------
(***************************************************************************)
(* The room loop (roomLoop.run and what it calls).                         *)
(***************************************************************************)
Taken(c, kind) == loop = "idle" /\ call[c].pc = "send" /\ call[c].kind = kind

Replied(c) == [call EXCEPT ![c] = IdleCall]

NonNegative(n) == IF n < 0 THEN 0 ELSE n

\* A delay cut down to whole ticks below the time left.
DelayTruncated(left) == NonNegative(left - 1)

\* arm: the delay is the time from now to BettingClosesAt, or zero if it passed.
Delay(left) == NonNegative(left)

\* handle(cmdStartRound): only a successful start arms the timer.  The window
\* runs from the time read in the transaction, `elapsed` ticks before arm.
LoopStart(c, o) ==
    /\ Taken(c, "start")
    /\ \/ /\ CanStart(call[c].player)
          /\ Ends("start", o)
          /\ \/ o = "rollback" /\ UNCHANGED <<dbVars, window, timer>>
             \/ /\ o # "rollback"
                /\ StartRoundTx
                /\ \E elapsed \in 0..(WindowTicks + 1) :
                      /\ window' = NonNegative(WindowTicks - elapsed)
                      /\ timer' = IF o = "ok" THEN Delay(WindowTicks - elapsed)
                                              ELSE timer
          /\ live' = (live \/ o = "ok")
       \/ /\ ~CanStart(call[c].player)
          /\ o = "ok"
          /\ UNCHANGED <<dbVars, window, timer, live, failed>>
    /\ call' = Replied(c)
    /\ UNCHANGED <<loop, cmd, procVars>>

\* handle(cmdPlaceBet), the reads: refused at once, or on to the commit.
LoopBetRead(c) ==
    /\ Taken(c, "bet")
    /\ \/ \E r \in LiveRound :
            /\ CanBet(call[c].player, r)
            /\ loop' = "bet"
            /\ cmd' = [player |-> call[c].player, choice |-> call[c].choice,
                       amount |-> call[c].amount, round |-> r]
            /\ call' = [call EXCEPT ![c].pc = "wait"]
       \/ /\ \A r \in LiveRound : ~CanBet(call[c].player, r)
          /\ call' = Replied(c)
          /\ UNCHANGED <<loop, cmd>>
    /\ UNCHANGED <<dbVars, window, timer, live, procVars, failed>>

\* The writes of a bet whose reads chose round r: commit, or an error.
CommitBet(p, r, choice, amount, o) ==
    \/ /\ CanCommitBet(p, r, amount)
       /\ Ends("bet", o)
       /\ IF o = "rollback" THEN UNCHANGED dbVars
                            ELSE PlaceBetTx(p, r, choice, amount)
    \/ /\ ~CanCommitBet(p, r, amount)
       /\ o = "ok"
       /\ UNCHANGED <<dbVars, failed>>

\* handle(cmdPlaceBet), the writes and the reply.
LoopBetCommit(o) ==
    /\ loop = "bet"
    /\ CommitBet(cmd.player, cmd.round, cmd.choice, cmd.amount, o)
    /\ loop' = "idle"
    /\ cmd' = NoCmd
    /\ call' = [c \in Calls |->
                  IF call[c].pc = "wait" THEN IdleCall ELSE call[c]]
    /\ UNCHANGED <<window, timer, live, procVars>>

\* CloseRoomUseCase.Execute as its callers see it; the loop exits only on a
\* reported, terminal close.
CloseRoom(p, o) ==
    \/ /\ CanClose(p)
       /\ Ends("close", o)
       /\ IF o = "rollback" THEN UNCHANGED dbVars ELSE CloseRoomTx
    \/ /\ ~CanClose(p)
       /\ o = "ok"
       /\ UNCHANGED <<dbVars, failed>>

ReportsClosed(p, o) == CanClose(p) /\ o = "ok" /\ status' = "closed"

\* handle(cmdCloseRoom)
LoopClose(c, o) ==
    /\ Taken(c, "close")
    /\ CloseRoom(call[c].player, o)
    /\ \/ /\ ReportsClosed(call[c].player, o)
          /\ ExitLoop(Replied(c))
       \/ /\ ~ReportsClosed(call[c].player, o)
          /\ call' = Replied(c)
          /\ UNCHANGED loopVars
    /\ UNCHANGED <<window, procVars>>

\* The timer set by arm has run down; it may be taken any time after that.
AlarmFires == timer = 0

\* The alarm: disarm, then settle().  Nothing live: the loop goes on.  Room
\* closed: it exits.  A failed settlement turns into an abort, whether the
\* transaction ended badly or the database refused a payout.
LoopSettle(o, outcome) ==
    /\ loop = "idle"
    /\ AlarmFires
    /\ \/ /\ LiveRound = {}
          /\ o = "ok"
          /\ timer' = NoTimer /\ live' = FALSE
          /\ UNCHANGED <<dbVars, loop, cmd, call, failed>>
       \/ /\ LiveRound # {} /\ status = "closed"
          /\ o = "ok"
          /\ ExitLoop(call)
          /\ UNCHANGED <<dbVars, failed>>
       \/ \E r \in LiveRound :
             /\ status # "closed"
             /\ PayoutsStorable(r, outcome)
             /\ Ends("settle", o)
             /\ IF o = "rollback" THEN UNCHANGED dbVars
                                  ELSE SettleRoundTx(r, outcome)
             /\ IF o = "ok" /\ status' = "closed"
                THEN ExitLoop(call)
                ELSE /\ loop' = IF o = "ok" THEN "idle" ELSE "abort"
                     /\ timer' = NoTimer /\ live' = FALSE
                     /\ UNCHANGED <<cmd, call>>
       \/ \E r \in LiveRound :
             /\ status # "closed"
             /\ ~PayoutsStorable(r, outcome)
             /\ o = "ok"
             /\ loop' = "abort"
             /\ timer' = NoTimer /\ live' = FALSE
             /\ UNCHANGED <<dbVars, cmd, call, failed>>
    /\ UNCHANGED <<window, procVars>>

\* A failed settlement after which the loop just exits.
LoopExitsOnly(o) ==
    /\ loop = "abort"
    /\ o = "ok"
    /\ ExitLoop(call)
    /\ UNCHANGED <<dbVars, window, procVars, failed>>

\* abort(settlement_failed): whatever it returns, the loop exits.
LoopAbort(o) ==
    /\ loop = "abort"
    /\ AbortRoom("abort", o)
    /\ ExitLoop(call)
    /\ UNCHANGED <<window, procVars>>

\* A quit that only ends the loops with a betting window.
LoopQuitLiveOnly(o) ==
    /\ proc = "stopping"
    /\ loop = "idle" /\ live
    /\ AbortRoom("abort", o)
    /\ ExitLoop(call)
    /\ UNCHANGED <<window, procVars>>

\* quit: a live window is aborted (shutdown), then the loop exits.
LoopQuit(o) ==
    /\ proc = "stopping"
    /\ loop = "idle"
    /\ \/ live /\ AbortRoom("abort", o)
       \/ ~live /\ o = "ok" /\ UNCHANGED <<dbVars, failed>>
    /\ ExitLoop(call)
    /\ UNCHANGED <<window, procVars>>
-----------------------------------------------------------------------------
(***************************************************************************)
(* Requests that found no loop run the use case themselves.                *)
(***************************************************************************)
Direct(c, kind) ==
    proc # "down" /\ call[c].pc = "direct" /\ call[c].kind = kind

DirectClose(c, o) ==
    /\ Direct(c, "close")
    /\ CloseRoom(call[c].player, o)
    /\ call' = Replied(c)
    /\ UNCHANGED <<window, loopVars, procVars>>

\* PlaceBetUseCase.Execute up to bets.Insert: no lock is taken on the room.
DirectBetRead(c) ==
    /\ Direct(c, "bet")
    /\ \/ \E r \in LiveRound :
            /\ CanBet(call[c].player, r)
            /\ call' = [call EXCEPT ![c] = [@ EXCEPT !.pc = "tx", !.round = r]]
       \/ /\ \A r \in LiveRound : ~CanBet(call[c].player, r)
          /\ call' = Replied(c)
    /\ UNCHANGED <<dbVars, window, loopVars, procVars, failed>>

\* The rest of it: whatever happened to the room in between.
DirectBetCommit(c, o) ==
    /\ proc # "down"
    /\ call[c].pc = "tx"
    /\ CommitBet(call[c].player, call[c].round, call[c].choice,
                 call[c].amount, o)
    /\ call' = Replied(c)
    /\ UNCHANGED <<window, loopVars, procVars>>
-----------------------------------------------------------------------------
(***************************************************************************)
(* Seats, time, and the process.                                           *)
(***************************************************************************)
\* A join that does not look at the room's status.
JoinAnyRoom(p) ==
    /\ proc # "down"
    /\ p \notin seats
    /\ Cardinality(seats) < MaxPlayers
    /\ seats' = seats \cup {p}
    /\ UNCHANGED <<status, currentRound, round, bets, balance, ledger, late,
                   window, loopVars, call, procVars, failed>>

\* JoinRoomUseCase.Execute up to the commit (room row locked).
Join(p) ==
    /\ proc # "down"
    /\ status = "open"
    /\ p \notin seats
    /\ Cardinality(seats) < MaxPlayers
    /\ seats' = seats \cup {p}
    /\ UNCHANGED <<status, currentRound, round, bets, balance, ledger, late,
                   window, loopVars, call, procVars, failed>>

\* One tick of the clock.  A bet that runs past the loop was sent before the
\* round started, so a long window outlasts its context.
Tick ==
    /\ window > 0 \/ timer > 0
    /\ (LongWindow /\ window = 1) => \A c \in Calls : call[c].pc # "tx"
    /\ window' = IF window > 0 THEN window - 1 ELSE window
    /\ timer' = IF timer > 0 THEN timer - 1 ELSE timer
    /\ UNCHANGED <<dbVars, loop, live, cmd, call, procVars, failed>>

\* Engine.Shutdown: no new requests, and every loop is told to quit.
Shutdown ==
    /\ proc = "up"
    /\ boots < MaxBoots
    /\ proc' = "stopping"
    /\ UNCHANGED <<dbVars, window, loopVars, call, boots, failed>>

\* The process exits or crashes: open transactions roll back, memory is gone.
ProcessEnds ==
    /\ proc # "down"
    /\ boots < MaxBoots
    /\ proc' = "down"
    /\ loop' = "none" /\ timer' = NoTimer /\ live' = FALSE /\ cmd' = NoCmd
    /\ call' = [c \in Calls |-> IdleCall]
    /\ UNCHANGED <<dbVars, window, boots, failed>>

\* A process start that recovers nothing.
BootOnly(o) ==
    /\ proc = "down"
    /\ o = "ok"
    /\ proc' = "up"
    /\ boots' = boots + 1
    /\ UNCHANGED <<dbVars, window, loopVars, call, failed>>

\* bootstrap.Build with RecoverRoomsUseCase: every room that is not closed is
\* aborted; a failure is logged and the process serves anyway.
Boot(o) ==
    /\ proc = "down"
    /\ AbortRoom("recover", o)
    /\ proc' = "up"
    /\ boots' = boots + 1
    /\ UNCHANGED <<window, loopVars, call>>

\* The same recovery in a second process, while this one is running.
PeerRecovers ==
    /\ PeerBoot
    /\ proc # "down"
    /\ status # "closed"
    /\ AbortRoomTx
    /\ UNCHANGED <<window, loopVars, call, procVars, failed>>
-----------------------------------------------------------------------------
TxEnds   == {"ok"} \cup FaultKinds
Outcomes == {OutcomeOf(d1, d2) : d1, d2 \in Faces}

\* What the loop does once it has something to do.
LoopNext ==
    \/ \E c \in Calls : LoopBetRead(c)
    \/ \E c \in Calls, o \in TxEnds : LoopStart(c, o) \/ LoopClose(c, o)
    \/ \E o \in TxEnds : LoopBetCommit(o) \/ LoopAbort(o) \/ LoopQuit(o)
    \/ \E o \in TxEnds, outcome \in Outcomes : LoopSettle(o, outcome)

CallNext ==
    \E c \in Calls :
        \/ RequestStart(c) \/ RequestBet(c) \/ RequestClose(c)
        \/ GiveUp(c)
        \/ DirectBetRead(c)
        \/ \E o \in TxEnds : DirectBetCommit(c, o) \/ DirectClose(c, o)

EnvNext ==
    \/ \E p \in Players : Join(p)
    \/ Tick
    \/ Shutdown
    \/ ProcessEnds
    \/ \E o \in TxEnds : Boot(o)
    \/ PeerRecovers

Next == LoopNext \/ CallNext \/ EnvNext

Spec == Init /\ [][Next]_vars

\* The transaction of a direct bet ends: the 15 s context of its request.
TxEndsFor(c) ==
    /\ call[c].pc = "tx"
    /\ GiveUp(c) \/ \E o \in TxEnds : DirectBetCommit(c, o)

\* Progress.  Go's select picks among ready cases at random, so a ready alarm
\* or quit is taken even if commands keep coming (strong fairness); the loop
\* never sleeps on something ready; the clock advances; a stopped process ends
\* and the supervisor restarts it (docker-compose: restart unless-stopped).
Fairness ==
    /\ SF_vars(\E o \in TxEnds, outcome \in Outcomes : LoopSettle(o, outcome))
    /\ SF_vars(\E o \in TxEnds : LoopQuit(o))
    /\ WF_vars(LoopNext)
    /\ WF_vars(Tick)
    /\ \A c \in Calls : WF_vars(TxEndsFor(c))
    /\ WF_vars(proc = "stopping" /\ loop = "none" /\ ProcessEnds)
    /\ WF_vars(\E o \in TxEnds : Boot(o))

FairSpec == Spec /\ Fairness
-----------------------------------------------------------------------------
(***************************************************************************)
(* Properties.                                                             *)
(***************************************************************************)
\* Type invariant; a balance never goes below zero (the players_balance CHECK
\* and Player.Debit).
TypeOK ==
    /\ status \in {"open", "closing", "closed"}
    /\ seats \subseteq Players
    /\ currentRound \in 0..MaxRounds
    /\ round \in [Rounds -> Choices \cup {"none", "betting"}]
    /\ bets \in [Rounds -> [Players -> BetRecords]]
    /\ balance \in [Players -> Nat]
    /\ ledger \in [Rounds -> [Players -> Seq(Int)]]
    /\ late \subseteq Rounds \X Players
    /\ window \in 0..WindowTicks
    /\ proc \in {"up", "stopping", "down"}
    /\ loop \in {"none", "idle", "bet", "abort"}
    /\ timer \in 0..WindowTicks \cup {NoTimer}
    /\ live \in BOOLEAN
    /\ cmd \in CmdRecords
    /\ call \in [Calls -> CallRecords]
    /\ failed \subseteq TxKinds \X FaultKinds
    /\ boots \in 0..MaxBoots

\* The rounds of a room are played one after the other: the rows that exist
\* are 1..current_round, and only the last one can still take bets.  This is
\* what makes GetCurrent (highest number) and rooms.current_round agree.
OneLiveRound ==
    \A r \in Rounds :
        /\ round[r] = "none" <=> r > currentRound
        /\ round[r] = "betting" => r = currentRound

\* What the wallet must have seen of bet b: its stake, then exactly the payout
\* of a won bet, or exactly the stake again if the room was aborted.
ResolvedEntries(b, closed) ==
    CASE b.state = "none" -> <<>>
      [] b.state = "open" /\ closed -> Append(<<-b.amount>>, b.amount)
      [] b.state = "won" -> Entry(<<-b.amount>>, Winnings(b))
      [] OTHER -> <<-b.amount>>

\* The stake of p in round r is where it should be: paid for once and resolved
\* at most once, an open bet in the round still taking bets, a resolved one in a
\* settled round whose outcome decided it.
StakeResolved(r, p) ==
    LET b == bets[r][p] IN
    /\ ledger[r][p] = ResolvedEntries(b, status = "closed")
    /\ b.state = "open" => round[r] = "betting"
    /\ b.state = "won"  => round[r] = b.choice
    /\ b.state = "lost" => round[r] \in Choices \ {b.choice}

\* room.go: "bets already placed are always resolved".  In every state, every
\* bet has been paid for once and resolved at most once, and by the time the
\* room is closed no stake is left: it was won, lost, or refunded.
StakesResolved == \A r \in Rounds, p \in Players : StakeResolved(r, p)

\* The stake of p in round r is in nobody's book: paid for, open, and nothing
\* has been or will be credited for it.
Stranded(r, p) ==
    /\ BookClosed(r)
    /\ bets[r][p].state = "open"
    /\ ledger[r][p] = <<-bets[r][p].amount>>

\* What is left of "bets already placed are always resolved" (room.go) when bets
\* overlap settlements, aborts and another process's recovery.  A bet that was
\* committed while its book was open is won, lost or refunded, exactly once; one
\* that was committed after its book had been closed is never resolved.
OnlyLateBetsStranded ==
    \A r \in Rounds, p \in Players :
        IF <<r, p>> \in late THEN Stranded(r, p) ELSE StakeResolved(r, p)

\* With a window at least as long as a request, a bet past the loop can only be
\* too late for an abort: a settlement never leaves a stake out, because the
\* window in which the bet was accepted outlasts its transaction.
LateMeansAborted ==
    LongWindow => \A b \in late : round[b[1]] = "betting" /\ status = "closed"

\* engine.go, PlaceBet: bets go through the loop "so bets are applied in a single
\* order and none can slip in while the round is being settled".  A bet that the
\* loop commits is never late, unless another process closed the room.
LoopBetsOnTime ==
    [][(~PeerBoot /\ loop = "bet" /\ loop' = "idle") => late' = late]_vars

\* No bet is ever credited twice, not even when a settlement whose commit was
\* not acknowledged is followed by an abort, when another process recovers the
\* room, or when a bet slips past the loop.
NoDoubleCredit ==
    \A r \in Rounds, p \in Players :
        /\ Len(ledger[r][p]) <= 2
        /\ Len(ledger[r][p]) >= 1 => ledger[r][p][1] = -bets[r][p].amount
        /\ Len(ledger[r][p]) = 2 => ledger[r][p][2] > 0

\* f[1] + ... + f[n]
SumTo(f, n) ==
    LET total[i \in 0..n] == IF i = 0 THEN 0 ELSE total[i - 1] + f[i]
    IN  total[n]

\* The sum of p's ledger entries.
Entered(p) ==
    SumTo([r \in Rounds |-> SumTo(ledger[r][p], Len(ledger[r][p]))], MaxRounds)

\* player.go: "The sum of all entries for a player must always equal that
\* player's balance" (the deposit is the first entry).
LedgerReconciles ==
    \A p \in Players : balance[p] = StartBalance + Entered(p)

\* The bets whose reads are done and whose writes are not.
Pending ==
    {<<call[c].round, call[c].player>> : c \in {d \in Calls : call[d].pc = "tx"}}
        \cup (IF loop = "bet" THEN {<<cmd.round, cmd.player>>} ELSE {})

\* Once a room is closed it is not reopened, nobody joins, no round starts or
\* settles, and no new bet is accepted: the only money that still moves is the
\* stake of a bet whose reads came before the close.
ClosedRoomIsFrozen ==
    [][status = "closed" =>
          /\ UNCHANGED <<status, seats, currentRound, round>>
          /\ Pending' \subseteq Pending
          /\ \A r \in Rounds, p \in Players :
                <<r, p>> \notin Pending =>
                    /\ bets'[r][p] = bets[r][p]
                    /\ ledger'[r][p] = ledger[r][p]
          /\ \A p \in Players :
                (\A r \in Rounds : <<r, p>> \notin Pending) =>
                    balance'[p] = balance[p]]_vars

\* GAME_RULES: a bet may be placed until the window closes.  The dice are
\* never rolled while the window is open; Round.Settle does not check it, so
\* this rests on the delay the loop computes when it arms its timer, some time
\* after the window began to run.
SettleOnlyAfterWindow ==
    [][\A r \in Rounds :
          (round[r] = "betting" /\ round'[r] # "betting") => window = 0]_vars

\* The three failures that leave a betting round without an alarm: a start that
\* commits and reports an error, an abort and a recovery that fail.
Unattended ==
    {<<"start", "lost">>, <<"abort", "rollback">>, <<"recover", "rollback">>}

\* A round that takes bets always has an alarm that will settle it, or an abort
\* under way, unless one of the three unattended failures happened: every loop
\* exit, every other failure and every process start leaves no betting round
\* behind.
NoOrphanRound ==
    (failed \cap Unattended = {} /\ proc # "down" /\ status # "closed"
        /\ LiveRound # {}) =>
        /\ loop # "none"
        /\ timer # NoTimer \/ loop = "abort"

TakesBets(r) == round[r] = "betting" /\ status # "closed"

\* Every betting round is eventually settled, or its room closed (its stakes
\* refunded), whatever fails and however often the process restarts, except
\* after one of the three unattended failures.
RoundResolves ==
    \A r \in Rounds :
        TakesBets(r) ~> ~TakesBets(r) \/ failed \cap Unattended # {}

\* A restart cures every failure of the process before it, the unattended ones
\* included: RecoverRooms resolves each betting round it finds.  Only its own
\* failure is not tried again.
RestartResolves ==
    \A r \in Rounds :
        (TakesBets(r) /\ proc = "down")
            ~> ~TakesBets(r) \/ <<"recover", "rollback">> \in failed

\* Engine.Shutdown waits for every loop: whatever a loop is doing, a loop left
\* behind by a start that was refused included, it ends after quit is closed.
ShutdownEndsLoops == proc = "stopping" ~> loop = "none"

\* engine.go on the loop's lifecycle: it "exits when the room closes".
LoopExitsWhenClosed == status = "closed" ~> loop = "none"

\* engine.go on a failed settlement: the table "is aborted and every open
\* stake refunded".
FailedSettlementRefunds == loop = "abort" ~> status = "closed"
-----------------------------------------------------------------------------
(***************************************************************************)
(* The room implements the stake book.  A betting round of a closed room   *)
(* is the code's form of a refunded book: the abort leaves the round row   *)
(* as it was.                                                              *)
(***************************************************************************)
BookOf(r) ==
    CASE round[r] = "none" -> "unopened"
      [] round[r] = "betting" /\ status # "closed" -> "open"
      [] round[r] = "betting" /\ status = "closed" -> "refunded"
      [] OTHER -> "settled"

PaidFor(r, p) == IF Len(ledger[r][p]) = 2 THEN ledger[r][p][2] ELSE 0

Book == INSTANCE StakeBook WITH
    book   <- [r \in Rounds |-> BookOf(r)],
    stake  <- [r \in Rounds |-> [p \in Players |-> bets[r][p].amount]],
    paid   <- [r \in Rounds |-> [p \in Players |-> PaidFor(r, p)]],
    wallet <- balance

\* Whatever the interleaving of requests, loop, failures, restarts and another
\* process's recovery, what the database shows is a run of the stake book: each
\* book is closed once, by a settlement or by a refund of every stake in it, and
\* a stake that comes later stays out of it.
ImplementsStakeBook == Book!Spec
==============================================================================
