-------------------------------- MODULE Wallet --------------------------------
(***************************************************************************)
(* The money side of every use case, transaction by transaction: deposit   *)
(* and withdraw (internal/application/wallet), the debit of a bet, and the *)
(* credits of a settlement or an abort (internal/application/game).        *)
(*                                                                         *)
(* UpdateBalance writes an absolute value computed from an earlier read,   *)
(* so two transactions on one player must not both be between their read   *)
(* and their commit.  What prevents it is SELECT ... FOR UPDATE on the     *)
(* player row (PlayerRepository.GetForUpdate), held until the end of the   *)
(* transaction.  A payout takes several player rows; it first takes the    *)
(* row of its room (RoomRepository.GetForUpdate).                          *)
(***************************************************************************)
EXTENDS Integers

CONSTANTS
    Players,
    Rooms,
    Txs,            \* transactions that may be open at once
    Amounts,        \* amounts moved
    MaxBalance      \* bound: no deposit or payout beyond this balance

ASSUME WalletAssumption ==
    /\ Amounts \subseteq Nat \ {0}
    /\ MaxBalance \in Nat
    /\ "none" \notin Txs

VARIABLES
    balance,    \* players.balance
    entered,    \* the signed sum of a player's transactions rows
    owner,      \* player -> the transaction that holds its row lock, or none
    tx,         \* the open transactions
    roomLock,   \* room -> the transaction that holds its row lock, or none
    seat,       \* where the player is in joining or leaving a room
    table       \* the room it is joining, in or leaving

rowVars  == <<balance, entered, owner>>
seatVars == <<seat, table>>
vars     == <<rowVars, roomLock, tx, seatVars>>

NoTx   == "none"
NoRoom == "none"

IdleTx == [pc |-> "idle", kind |-> "none", amount |-> 0,
           todo |-> {}, held |-> {}, read |-> [p \in Players |-> 0]]

Debits == {"withdraw", "bet"}
Kinds  == Debits \cup {"deposit", "payout"}

TxRecords == [pc : {"idle", "check", "run"}, kind : Kinds \cup {"none"},
              amount : Nat, todo : SUBSET Players, held : SUBSET Players,
              read : [Players -> Nat]]

\* PostgreSQL's answer to FindActiveRoomForPlayer, and Redis's to ActiveRoom.
Seated(p) == seat[p] = "seated"
Bound(p)  == seat[p] # "out"
-----------------------------------------------------------------------------
Init ==
    /\ balance = [p \in Players |-> 0]
    /\ entered = [p \in Players |-> 0]
    /\ owner = [p \in Players |-> NoTx]
    /\ roomLock = [r \in Rooms |-> NoTx]
    /\ tx = [t \in Txs |-> IdleTx]
    /\ seat = [p \in Players |-> "out"]
    /\ table = [p \in Players |-> NoRoom]

Begin(t, pc, kind, amount, rows) ==
    /\ tx[t].pc = "idle"
    /\ tx' = [tx EXCEPT ![t] = [IdleTx EXCEPT !.pc = pc, !.kind = kind,
                                              !.amount = amount, !.todo = rows]]
    /\ UNCHANGED <<rowVars, seatVars>>

\* DepositUseCase.Execute
Deposit(t, p, amount) ==
    Begin(t, "run", "deposit", amount, {p}) /\ UNCHANGED roomLock

\* WithdrawUseCase.Execute: the Redis check comes before the transaction.
Withdraw(t, p, amount) ==
    /\ ~Bound(p)
    /\ Begin(t, "check", "withdraw", amount, {p})
    /\ UNCHANGED roomLock

\* The check of the room tables, the first statement of the transaction.
WithdrawCheck(t) ==
    /\ tx[t].pc = "check"
    /\ \A p \in tx[t].todo : ~Seated(p)
    /\ tx' = [tx EXCEPT ![t].pc = "run"]
    /\ UNCHANGED <<rowVars, roomLock, seatVars>>

\* PlaceBetUseCase.Execute once the bet row is inserted.
Bet(t, p, amount) ==
    /\ Seated(p)
    /\ Begin(t, "run", "bet", amount, {p})
    /\ UNCHANGED roomLock

\* RoomRepository.GetForUpdate without its FOR UPDATE.
RoomRowRead(r) == TRUE

\* RoomRepository.GetForUpdate: taken, and held to the end of the transaction,
\* only when no other transaction holds it.
RoomRowFree(r) == roomLock[r] = NoTx

\* A payout that does not take the row of its room.
PayOutUnlocked(t, r, winners, amount) ==
    /\ winners # {}
    /\ \A p \in winners : Seated(p) /\ table[p] = r
    /\ Begin(t, "run", "payout", amount, winners)
    /\ UNCHANGED roomLock

\* SettleRoundUseCase or AbortRoomUseCase on room r: its row is taken, then the
\* row of every player due a credit, who are all seated in it.
PayOut(t, r, winners, amount) ==
    /\ RoomRowFree(r)
    /\ winners # {}
    /\ \A p \in winners : Seated(p) /\ table[p] = r
    /\ Begin(t, "run", "payout", amount, winners)
    /\ roomLock' = [roomLock EXCEPT ![r] = t]

\* GetForUpdate without its FOR UPDATE.
LockRowUnlocked(t, p) ==
    /\ tx[t].pc = "run" /\ p \in tx[t].todo
    /\ tx[t].kind \in Debits => balance[p] >= tx[t].amount
    /\ owner' = [owner EXCEPT ![p] = t]
    /\ tx' = [tx EXCEPT ![t].todo = @ \ {p}, ![t].held = @ \cup {p},
                        ![t].read[p] = balance[p]]
    /\ UNCHANGED <<balance, entered, roomLock, seatVars>>

\* GetForUpdate, Debit without its balance check.
LockRowOverdraft(t, p) ==
    /\ tx[t].pc = "run" /\ p \in tx[t].todo
    /\ owner[p] = NoTx
    /\ owner' = [owner EXCEPT ![p] = t]
    /\ tx' = [tx EXCEPT ![t].todo = @ \ {p}, ![t].held = @ \cup {p},
                        ![t].read[p] = balance[p]]
    /\ UNCHANGED <<balance, entered, roomLock, seatVars>>

\* GetForUpdate on the next row, then Credit or Debit on what it read.
LockRow(t, p) ==
    /\ tx[t].pc = "run" /\ p \in tx[t].todo
    /\ owner[p] = NoTx
    /\ tx[t].kind \in Debits => balance[p] >= tx[t].amount
    /\ owner' = [owner EXCEPT ![p] = t]
    /\ tx' = [tx EXCEPT ![t].todo = @ \ {p}, ![t].held = @ \cup {p},
                        ![t].read[p] = balance[p]]
    /\ UNCHANGED <<balance, entered, roomLock, seatVars>>

Change(t) == IF tx[t].kind \in Debits THEN -tx[t].amount ELSE tx[t].amount

\* The end of transaction t gives up the rows it holds.
Unlock(t) ==
    /\ owner' = [p \in Players |-> IF owner[p] = t THEN NoTx ELSE owner[p]]
    /\ roomLock' = [r \in Rooms |-> IF roomLock[r] = t THEN NoTx ELSE roomLock[r]]

\* PlayerRepository.UpdateBalance: an absolute value, from the row as read.
UpdatedBalances(t) ==
    [p \in Players |-> IF p \in tx[t].held
                       THEN tx[t].read[p] + Change(t) ELSE balance[p]]

\* TransactionRepository.Insert
InsertedEntries(t) ==
    [p \in Players |-> IF p \in tx[t].held
                       THEN entered[p] + Change(t) ELSE entered[p]]

\* UpdateBalance and the ledger entry for every row, then COMMIT.
Commit(t) ==
    /\ tx[t].pc = "run"
    /\ tx[t].todo = {}
    /\ balance' = UpdatedBalances(t)
    /\ entered' = InsertedEntries(t)
    /\ Unlock(t)
    /\ tx' = [tx EXCEPT ![t] = IdleTx]
    /\ UNCHANGED seatVars

\* An expired context, a lost connection, a crash: WithinTx (or PostgreSQL)
\* rolls back at any point.
Rollback(t) ==
    /\ tx[t].pc # "idle"
    /\ Unlock(t)
    /\ tx' = [tx EXCEPT ![t] = IdleTx]
    /\ UNCHANGED <<balance, entered, seatVars>>

\* ErrWithdrawalBlocked or ErrInsufficientBalance: the use case returns an
\* error and WithinTx rolls back.
Refuse(t) ==
    /\ \E p \in tx[t].todo :
        \/ tx[t].pc = "check" /\ Seated(p)
        \/ /\ tx[t].pc = "run" /\ tx[t].kind \in Debits
           /\ owner[p] = NoTx /\ balance[p] < tx[t].amount
    /\ Rollback(t)
-----------------------------------------------------------------------------
\* JoinRoomUseCase (or CreateRoomUseCase): the Redis binding, of one room at a
\* time; then the commit of the seat, under the row lock of the room.  Its INSERT
\* references the player row, so it waits while another transaction holds that
\* row FOR UPDATE.  Then the end of the room: its commit, under the row lock of
\* the room, and the release of the binding.
MoveSeat(p) ==
    /\ \/ /\ seat[p] = "out"
          /\ seat' = [seat EXCEPT ![p] = "bound"]
          /\ \E r \in Rooms : table' = [table EXCEPT ![p] = r]
       \/ /\ seat[p] = "bound"
          /\ owner[p] = NoTx /\ RoomRowFree(table[p])
          /\ seat' = [seat EXCEPT ![p] = "seated"]
          /\ UNCHANGED table
       \/ /\ seat[p] = "seated"
          /\ RoomRowFree(table[p])
          /\ seat' = [seat EXCEPT ![p] = "left"]
          /\ UNCHANGED table
       \/ /\ seat[p] = "left"
          /\ seat' = [seat EXCEPT ![p] = "out"]
          /\ table' = [table EXCEPT ![p] = NoRoom]
    /\ UNCHANGED <<rowVars, roomLock, tx>>

Fits(p, amount) == balance[p] + amount <= MaxBalance

Next ==
    \/ \E t \in Txs, p \in Players, a \in Amounts :
            \/ Fits(p, a) /\ Deposit(t, p, a)
            \/ Withdraw(t, p, a)
            \/ Bet(t, p, a)
    \/ \E t \in Txs, r \in Rooms, W \in SUBSET Players, a \in Amounts :
            (\A p \in W : Fits(p, a)) /\ PayOut(t, r, W, a)
    \/ \E t \in Txs : WithdrawCheck(t) \/ Commit(t) \/ Refuse(t) \/ Rollback(t)
    \/ \E t \in Txs, p \in Players : LockRow(t, p)
    \/ \E p \in Players : MoveSeat(p)

Spec == Init /\ [][Next]_vars

\* An open transaction goes on; one that waits for a row gets it if the row
\* keeps becoming free (PostgreSQL queues the waiters of a row lock).
Fairness ==
    \A t \in Txs :
        /\ WF_vars(WithdrawCheck(t) \/ Refuse(t) \/ Commit(t))
        /\ SF_vars(Refuse(t) \/ \E p \in Players : LockRow(t, p))

FairSpec == Spec /\ Fairness
-----------------------------------------------------------------------------
\* Type invariant; a committed balance is never negative.
TypeOK ==
    /\ balance \in [Players -> Nat]
    /\ entered \in [Players -> Int]
    /\ owner \in [Players -> Txs \cup {NoTx}]
    /\ tx \in [Txs -> TxRecords]
    /\ roomLock \in [Rooms -> Txs \cup {NoTx}]
    /\ seat \in [Players -> {"out", "bound", "seated", "left"}]
    /\ table \in [Players -> Rooms \cup {NoRoom}]

\* player.go: "The sum of all entries for a player must always equal that
\* player's balance", whatever deposits, withdrawals, bets and payouts of the
\* same player overlap.
LedgerReconciles == \A p \in Players : balance[p] = entered[p]

\* What makes it so: a transaction that has read a balance owns the row, and
\* the row still has the value it read.
ReadsAreCurrent ==
    \A t \in Txs : \A p \in tx[t].held :
        owner[p] = t /\ tx[t].read[p] = balance[p]

\* Two payouts never share a player, although settle_round.go takes the rows of
\* all its winners one by one and in no fixed order: payouts of one room wait for
\* its row, nobody leaves a room whose row is held, and a player is bound to one
\* room at a time (Seating, OneRoomWhileBound).
PayoutsShareNoPlayer ==
    \A t, u \in Txs :
        (t # u /\ tx[t].kind = "payout" /\ tx[u].kind = "payout") =>
            (tx[t].todo \cup tx[t].held) \cap (tx[u].todo \cup tx[u].held) = {}

\* Every transaction ends: no set of them waits for each other's player rows.
TransactionsEnd == \A t \in Txs : tx[t].pc # "idle" ~> tx[t].pc = "idle"

\* withdraw.go: the check in the transaction "closes the race window between
\* 'player joins a room' and 'withdrawal commits'": no withdrawal commits while
\* its player is seated.
NoWithdrawalWhileSeated ==
    [][\A t \in Txs : \A p \in tx[t].held :
          (tx[t].kind = "withdraw" /\ balance'[p] # balance[p]) => ~Seated(p)]_vars
==============================================================================
