----------------------------- MODULE WalletProofs -----------------------------
(***************************************************************************)
(* Proofs about Wallet, for every set of players, every number of open     *)
(* transactions and all amounts.  The inductive invariant is TypeOK, the   *)
(* ledger equation itself, ReadsAreCurrent (what the row lock buys) and    *)
(* EnoughFunds (a debit that has passed its check still can be paid).      *)
(***************************************************************************)
EXTENDS Wallet, TLAPS

\* Names for the two writes of a commit and for tuples of variables, expanded in
\* every proof below.
USE DEF UpdatedBalances, InsertedEntries, rowVars, seatVars

\* Player.Debit checked the balance under the lock: what was read covers the
\* amount until the transaction ends.
EnoughFunds ==
    \A t \in Txs : \A p \in tx[t].held :
        tx[t].kind \in Debits => tx[t].read[p] >= tx[t].amount

WalletInv == TypeOK /\ LedgerReconciles /\ ReadsAreCurrent /\ EnoughFunds

\* The fresh transaction record is well typed.
LEMMA IdleTxType == IdleTx \in TxRecords
  BY DEF IdleTx, TxRecords

\* Starting a transaction (the guard of each use case aside) keeps WalletInv.
LEMMA BeginKeeps ==
    ASSUME WalletInv, NEW t \in Txs, NEW pc \in {"check", "run"},
           NEW kind \in Kinds, NEW a \in Amounts, NEW rows \in SUBSET Players,
           Begin(t, pc, kind, a, rows), roomLock' \in [Rooms -> Txs \cup {NoTx}]
    PROVE  WalletInv'
  <1>1. a \in Nat
    BY WalletAssumption
  <1> DEFINE rec == [IdleTx EXCEPT !.pc = pc, !.kind = kind,
                                   !.amount = a, !.todo = rows]
  <1>2. rec \in TxRecords /\ rec.held = {}
    BY <1>1, IdleTxType DEF IdleTx, TxRecords
  <1>3. tx' = [tx EXCEPT ![t] = rec]
    BY DEF Begin
  <1> HIDE DEF rec
  <1>4. TypeOK'
    BY <1>2, <1>3 DEF WalletInv, TypeOK, Begin
  <1>5. \A u \in Txs : tx'[u] = IF u = t THEN rec ELSE tx[u]
    BY <1>3 DEF WalletInv, TypeOK
  <1>6. \A u \in Txs : \A p \in tx'[u].held : u # t /\ tx'[u] = tx[u]
    BY <1>2, <1>5
  <1>7. balance' = balance /\ entered' = entered /\ owner' = owner
    BY DEF Begin
  <1>8. ReadsAreCurrent'
    BY <1>6, <1>7 DEF WalletInv, ReadsAreCurrent
  <1>9. EnoughFunds'
    BY <1>6 DEF WalletInv, EnoughFunds
  <1>10. LedgerReconciles'
    BY <1>7 DEF WalletInv, LedgerReconciles
  <1> QED
    BY <1>4, <1>8, <1>9, <1>10 DEF WalletInv

\* Ending a transaction without writing keeps WalletInv.
LEMMA RollbackKeeps ==
    ASSUME WalletInv, NEW t \in Txs, Rollback(t)
    PROVE  WalletInv'
  <1>1. \A u \in Txs : tx'[u] = IF u = t THEN IdleTx ELSE tx[u]
    BY DEF WalletInv, TypeOK, Rollback
  <1>2. TypeOK'
    BY IdleTxType DEF WalletInv, TypeOK, Rollback, Unlock, NoTx
  <1>3. IdleTx.held = {}
    BY DEF IdleTx
  <1>4. \A u \in Txs : u # t =>
            \A p \in tx[u].held : owner'[p] = owner[p]
    BY DEF WalletInv, TypeOK, TxRecords, ReadsAreCurrent, Rollback, Unlock
  <1>5. LedgerReconciles' /\ ReadsAreCurrent' /\ EnoughFunds'
    BY <1>1, <1>3, <1>4 DEF WalletInv, LedgerReconciles, ReadsAreCurrent,
                            EnoughFunds, Rollback
  <1> QED
    BY <1>2, <1>5 DEF WalletInv

\* Taking a free row and reading its balance keeps WalletInv.
LEMMA LockRowKeeps ==
    ASSUME WalletInv, NEW t \in Txs, NEW p \in Players, LockRow(t, p)
    PROVE  WalletInv'
  <1> DEFINE rec == [tx[t] EXCEPT !.todo = @ \ {p}, !.held = @ \cup {p},
                                  !.read[p] = balance[p]]
  <1>1. tx[t] \in TxRecords /\ balance[p] \in Nat
    BY DEF WalletInv, TypeOK
  <1>2. rec \in TxRecords
    BY <1>1 DEF TxRecords
  <1>3. /\ rec.held = tx[t].held \cup {p}
        /\ rec.kind = tx[t].kind /\ rec.amount = tx[t].amount
        /\ \A q \in Players : rec.read[q] = IF q = p THEN balance[p] ELSE tx[t].read[q]
    BY <1>1 DEF TxRecords
  <1>4. tx' = [tx EXCEPT ![t] = rec]
    <2>1. tx' = [tx EXCEPT ![t].todo = @ \ {p}, ![t].held = @ \cup {p},
                           ![t].read[p] = balance[p]]
      BY DEF LockRow
    <2> QED
      BY <1>1, <2>1 DEF WalletInv, TypeOK, TxRecords
  <1> HIDE DEF rec
  <1>5. TypeOK'
    <2>1. tx' \in [Txs -> TxRecords]
      BY <1>2, <1>4 DEF WalletInv, TypeOK
    <2>2. owner' \in [Players -> Txs \cup {NoTx}]
      BY DEF WalletInv, TypeOK, LockRow
    <2> QED
      BY <2>1, <2>2 DEF WalletInv, TypeOK, LockRow
  <1>6. \A u \in Txs : tx'[u] = IF u = t THEN rec ELSE tx[u]
    BY <1>4 DEF WalletInv, TypeOK
  <1>7. \A u \in Txs : tx[u].held \subseteq Players
    BY DEF WalletInv, TypeOK, TxRecords
  <1>8. \A q \in Players : owner'[q] = IF q = p THEN t ELSE owner[q]
    BY DEF WalletInv, TypeOK, LockRow
  <1>9. \A u \in Txs : p \notin tx[u].held
    BY WalletAssumption DEF WalletInv, ReadsAreCurrent, LockRow, NoTx
  <1>10. ASSUME NEW u \in Txs, NEW q \in tx'[u].held
         PROVE  /\ owner'[q] = u /\ tx'[u].read[q] = balance'[q]
                /\ tx'[u].kind \in Debits => tx'[u].read[q] >= tx'[u].amount
    <2>1. balance' = balance
      BY DEF LockRow
    <2>2. CASE u = t /\ q = p
      BY <1>1, <1>3, <1>6, <1>8, <2>1, <2>2 DEF LockRow
    <2>3. CASE q # p
      <3>1. q \in tx[u].held /\ q \in Players
        BY <1>3, <1>6, <1>7, <2>3
      <3>2. /\ owner[q] = u /\ tx[u].read[q] = balance[q]
            /\ tx[u].kind \in Debits => tx[u].read[q] >= tx[u].amount
        BY <3>1 DEF WalletInv, ReadsAreCurrent, EnoughFunds
      <3>3. /\ tx'[u].read[q] = tx[u].read[q]
            /\ tx'[u].kind = tx[u].kind /\ tx'[u].amount = tx[u].amount
        BY <1>3, <1>6, <2>3, <3>1
      <3> QED
        BY <1>8, <2>1, <2>3, <3>1, <3>2, <3>3
    <2>4. q = p => u = t
      BY <1>6, <1>9
    <2> QED
      BY <2>2, <2>3, <2>4
  <1>11. ReadsAreCurrent' /\ EnoughFunds'
    BY <1>10 DEF ReadsAreCurrent, EnoughFunds
  <1>12. LedgerReconciles'
    BY DEF WalletInv, LedgerReconciles, LockRow
  <1> QED
    BY <1>5, <1>11, <1>12 DEF WalletInv

\* Writing the balances computed from what was read, with their ledger
\* entries, keeps WalletInv: what was read is still what is stored.
LEMMA CommitKeeps ==
    ASSUME WalletInv, NEW t \in Txs, Commit(t)
    PROVE  WalletInv'
  <1>1. tx[t] \in TxRecords
    BY DEF WalletInv, TypeOK
  <1>2. tx[t].amount \in Nat /\ Change(t) \in Int /\ tx[t].held \subseteq Players
    BY <1>1 DEF TxRecords, Change
  <1>3. \A p \in tx[t].held : /\ tx[t].read[p] = balance[p]
                              /\ balance[p] + Change(t) \in Nat
    <2> SUFFICES ASSUME NEW p \in tx[t].held
                 PROVE  /\ tx[t].read[p] = balance[p]
                        /\ balance[p] + Change(t) \in Nat
      OBVIOUS
    <2>1. tx[t].read[p] = balance[p] /\ balance[p] \in Nat
      BY <1>2 DEF WalletInv, TypeOK, ReadsAreCurrent
    <2>2. tx[t].kind \in Debits => balance[p] >= tx[t].amount
      BY <2>1 DEF WalletInv, EnoughFunds
    <2> QED
      BY <1>2, <2>1, <2>2 DEF Change
  <1>4. \A p \in Players :
            /\ balance'[p] = IF p \in tx[t].held THEN balance[p] + Change(t)
                                                 ELSE balance[p]
            /\ entered'[p] = IF p \in tx[t].held THEN entered[p] + Change(t)
                                                 ELSE entered[p]
    BY <1>3 DEF Commit
  <1>5. balance' \in [Players -> Nat] /\ entered' \in [Players -> Int]
    BY <1>2, <1>3 DEF WalletInv, TypeOK, Commit
  <1>6. TypeOK'
    BY <1>5, IdleTxType DEF WalletInv, TypeOK, Commit, Unlock, NoTx
  <1>7. \A u \in Txs : tx'[u] = IF u = t THEN IdleTx ELSE tx[u]
    BY DEF WalletInv, TypeOK, Commit
  <1>8. IdleTx.held = {}
    BY DEF IdleTx
  <1>9. \A u \in Txs : u # t => \A p \in tx[u].held :
            p \in Players /\ owner'[p] = owner[p] /\ balance'[p] = balance[p]
    BY <1>4 DEF WalletInv, TypeOK, TxRecords, ReadsAreCurrent, Commit, Unlock
  <1>10. ReadsAreCurrent' /\ EnoughFunds'
    BY <1>7, <1>8, <1>9 DEF WalletInv, ReadsAreCurrent, EnoughFunds
  <1>11. LedgerReconciles'
    BY <1>4 DEF WalletInv, LedgerReconciles
  <1> QED
    BY <1>6, <1>10, <1>11 DEF WalletInv

\* WalletInv is inductive.
LEMMA WalletInvInductive == WalletInv /\ [Next]_vars => WalletInv'
  <1> SUFFICES ASSUME WalletInv, [Next]_vars PROVE WalletInv'
    OBVIOUS
  <1>1. ASSUME NEW t \in Txs, NEW p \in Players, NEW a \in Amounts,
               Deposit(t, p, a) \/ Withdraw(t, p, a) \/ Bet(t, p, a)
        PROVE  WalletInv'
    <2>1. roomLock' \in [Rooms -> Txs \cup {NoTx}]
      BY <1>1 DEF Deposit, Withdraw, Bet, WalletInv, TypeOK
    <2> QED
      BY <1>1, <2>1, BeginKeeps DEF Deposit, Withdraw, Bet, Kinds, Debits
  <1>2. ASSUME NEW t \in Txs, NEW r \in Rooms, NEW W \in SUBSET Players,
               NEW a \in Amounts, PayOut(t, r, W, a)
        PROVE  WalletInv'
    <2>1. roomLock' \in [Rooms -> Txs \cup {NoTx}]
      BY <1>2 DEF PayOut, WalletInv, TypeOK
    <2> QED
      BY <1>2, <2>1, BeginKeeps DEF PayOut, Kinds, Debits
  <1>3. ASSUME NEW t \in Txs, WithdrawCheck(t)
        PROVE  WalletInv'
    <2> DEFINE rec == [tx[t] EXCEPT !.pc = "run"]
    <2>1. tx[t] \in TxRecords
      BY DEF WalletInv, TypeOK
    <2>2. /\ rec \in TxRecords /\ rec.held = tx[t].held /\ rec.kind = tx[t].kind
          /\ rec.read = tx[t].read /\ rec.amount = tx[t].amount
      BY <2>1 DEF TxRecords
    <2>3. tx' = [tx EXCEPT ![t] = rec]
      BY <1>3 DEF WithdrawCheck
    <2> HIDE DEF rec
    <2>4. \A u \in Txs : tx'[u] = IF u = t THEN rec ELSE tx[u]
      BY <2>3 DEF WalletInv, TypeOK
    <2>5. TypeOK'
      BY <1>3, <2>2, <2>3 DEF WalletInv, TypeOK, WithdrawCheck
    <2>6. LedgerReconciles' /\ ReadsAreCurrent' /\ EnoughFunds'
      BY <1>3, <2>2, <2>4 DEF WalletInv, LedgerReconciles, ReadsAreCurrent,
                              EnoughFunds, WithdrawCheck
    <2> QED
      BY <2>5, <2>6 DEF WalletInv
  <1>4. ASSUME NEW t \in Txs, Commit(t) \/ Refuse(t) \/ Rollback(t)
        PROVE  WalletInv'
    BY <1>4, CommitKeeps, RollbackKeeps DEF Refuse
  <1>5. ASSUME NEW t \in Txs, NEW p \in Players, LockRow(t, p)
        PROVE  WalletInv'
    BY <1>5, LockRowKeeps
  <1>6. ASSUME NEW p \in Players, MoveSeat(p)
        PROVE  WalletInv'
    BY <1>6 DEF MoveSeat, WalletInv, TypeOK, LedgerReconciles,
                ReadsAreCurrent, EnoughFunds
  <1>7. CASE UNCHANGED vars
    BY <1>7 DEF vars, WalletInv, TypeOK, LedgerReconciles, ReadsAreCurrent,
                EnoughFunds
  <1> QED
    BY <1>1, <1>2, <1>3, <1>4, <1>5, <1>6, <1>7 DEF Next

\* WalletInv holds in every reachable state.
THEOREM WalletInvariant == Spec => []WalletInv
  <1>1. Init => WalletInv
    <2> SUFFICES ASSUME Init PROVE WalletInv
      OBVIOUS
    <2>1. TypeOK
      BY IdleTxType DEF Init, TypeOK, NoTx
    <2>2. \A t \in Txs : tx[t].held = {}
      BY DEF Init, IdleTx
    <2> QED
      BY <2>1, <2>2 DEF Init, WalletInv, LedgerReconciles, ReadsAreCurrent,
                        EnoughFunds
  <1> QED
    BY <1>1, WalletInvInductive, PTL DEF Spec

\* The values stay typed and no committed balance is negative, however many
\* debits and credits of one player overlap.
THEOREM WalletTyped == Spec => []TypeOK
  <1>1. WalletInv => TypeOK
    BY DEF WalletInv
  <1> QED
    BY <1>1, WalletInvariant, PTL

\* player.go: the ledger sums to the balance at every instant: the row lock of
\* GetForUpdate is enough for UpdateBalance to write absolute values.
THEOREM WalletReconciles == Spec => []LedgerReconciles
  <1>1. WalletInv => LedgerReconciles
    BY DEF WalletInv
  <1> QED
    BY <1>1, WalletInvariant, PTL
-----------------------------------------------------------------------------
(***************************************************************************)
(* Two payouts never share a player.                                       *)
(***************************************************************************)
\* Everybody a payout still has to credit, or has locked, sits in the one room
\* whose row the payout holds.
HoldsRoomOf(t, r) ==
    /\ roomLock[r] = t
    /\ \A p \in tx[t].todo \cup tx[t].held : Seated(p) /\ table[p] = r

\* The strengthening of PayoutsShareNoPlayer; an idle transaction holds no row.
PayoutInv ==
    \A t \in Txs :
        /\ tx[t].kind = "payout" => \E r \in Rooms : HoldsRoomOf(t, r)
        /\ tx[t].pc = "idle" => \A r \in Rooms : roomLock[r] # t

LEMMA PayoutStep ==
    ASSUME TypeOK, PayoutInv, [Next]_vars
    PROVE  PayoutInv'
  <1>0. NoTx \notin Txs
    BY WalletAssumption DEF NoTx
  <1>type. /\ tx \in [Txs -> TxRecords] /\ roomLock \in [Rooms -> Txs \cup {NoTx}]
           /\ seat \in [Players -> {"out", "bound", "seated", "left"}]
    BY DEF TypeOK
  <1>rows. \A t \in Txs : /\ tx[t] \in TxRecords
                          /\ tx[t].todo \subseteq Players /\ tx[t].held \subseteq Players
    BY <1>type DEF TxRecords
  <1>1. ASSUME NEW t \in Txs, NEW pc, NEW kind, NEW a, NEW rows,
               Begin(t, pc, kind, a, rows), pc # "idle", roomLock' = roomLock,
               kind # "payout"
        PROVE  PayoutInv'
    <2>1. IdleTx \in TxRecords
      BY IdleTxType
    <2>2. \A u \in Txs : u # t => tx'[u] = tx[u]
      BY <1>1, <1>type DEF Begin
    <2>3. tx'[t].kind = kind /\ tx'[t].pc = pc
      BY <1>1, <1>type, <2>1 DEF Begin, IdleTx
    <2> QED
      BY <1>1, <2>2, <2>3 DEF PayoutInv, HoldsRoomOf, Seated, Begin
  <1>2. ASSUME NEW t \in Txs, NEW r \in Rooms, NEW W \in SUBSET Players,
               NEW a \in Amounts, PayOut(t, r, W, a)
        PROVE  PayoutInv'
    <2>1. IdleTx \in TxRecords
      BY IdleTxType
    <2>2. \A u \in Txs : u # t => tx'[u] = tx[u]
      BY <1>2, <1>type DEF PayOut, Begin
    <2>3. /\ tx'[t].pc = "run" /\ tx'[t].todo = W /\ tx'[t].held = {}
      BY <1>2, <1>type, <2>1 DEF PayOut, Begin, IdleTx
    <2>4. /\ roomLock[r] = NoTx /\ seat' = seat /\ table' = table
          /\ \A q \in Rooms : roomLock'[q] = IF q = r THEN t ELSE roomLock[q]
          /\ \A p \in W : Seated(p) /\ table[p] = r
      BY <1>2, <1>type DEF PayOut, RoomRowFree, Begin
    <2>5. HoldsRoomOf(t, r)'
      BY <2>3, <2>4 DEF HoldsRoomOf, Seated
    <2>6. ASSUME NEW u \in Txs, u # t
          PROVE  /\ tx'[u].kind = "payout" => \E q \in Rooms : HoldsRoomOf(u, q)'
                 /\ tx'[u].pc = "idle" => \A q \in Rooms : roomLock'[q] # u
      BY <1>0, <2>2, <2>4, <2>6 DEF PayoutInv, HoldsRoomOf, Seated
    <2> QED
      BY <2>3, <2>5, <2>6 DEF PayoutInv
  \* A transaction goes on with the rows it had.
  <1>3. ASSUME NEW t \in Txs, UNCHANGED <<roomLock, seatVars>>,
               \A u \in Txs : u # t => tx'[u] = tx[u],
               tx'[t].kind = tx[t].kind, tx'[t].pc # "idle",
               tx'[t].todo \cup tx'[t].held = tx[t].todo \cup tx[t].held
        PROVE  PayoutInv'
    BY <1>3 DEF PayoutInv, HoldsRoomOf, Seated
  <1>4. ASSUME NEW t \in Txs, WithdrawCheck(t) PROVE PayoutInv'
    <2>1. /\ tx'[t].kind = tx[t].kind /\ tx'[t].pc = "run"
          /\ tx'[t].todo = tx[t].todo /\ tx'[t].held = tx[t].held
          /\ \A u \in Txs : u # t => tx'[u] = tx[u]
      BY <1>4, <1>type DEF WithdrawCheck, TxRecords
    <2> QED
      BY <1>3, <1>4, <2>1 DEF WithdrawCheck
  <1>5. ASSUME NEW t \in Txs, NEW p \in Players, LockRow(t, p) PROVE PayoutInv'
    <2>1. /\ tx'[t].kind = tx[t].kind /\ tx'[t].pc = tx[t].pc
          /\ tx'[t].todo = tx[t].todo \ {p} /\ tx'[t].held = tx[t].held \cup {p}
          /\ \A u \in Txs : u # t => tx'[u] = tx[u]
      BY <1>5, <1>type DEF LockRow, TxRecords
    <2>2. /\ tx'[t].todo \cup tx'[t].held = tx[t].todo \cup tx[t].held
          /\ tx'[t].pc # "idle"
      BY <1>5, <2>1 DEF LockRow
    <2> QED
      BY <1>3, <1>5, <2>1, <2>2 DEF LockRow
  <1>6. ASSUME NEW t \in Txs, Unlock(t), tx' = [tx EXCEPT ![t] = IdleTx],
               UNCHANGED seatVars
        PROVE  PayoutInv'
    <2>1. /\ \A u \in Txs : tx'[u] = IF u = t THEN IdleTx ELSE tx[u]
          /\ IdleTx.kind = "none"
      BY <1>6, <1>type DEF IdleTx
    <2>2. \A r \in Rooms : roomLock'[r] = IF roomLock[r] = t THEN NoTx ELSE roomLock[r]
      BY <1>6 DEF Unlock
    <2> QED
      BY <1>0, <1>6, <2>1, <2>2 DEF PayoutInv, HoldsRoomOf, Seated
  <1>7. ASSUME NEW t \in Txs, Commit(t) \/ Refuse(t) \/ Rollback(t) PROVE PayoutInv'
    BY <1>6, <1>7 DEF Commit, Refuse, Rollback
  <1>8. ASSUME NEW p \in Players, MoveSeat(p) PROVE PayoutInv'
    <2>1. tx' = tx /\ roomLock' = roomLock
      BY <1>8 DEF MoveSeat
    <2>2. ASSUME NEW t \in Txs, NEW r \in Rooms, HoldsRoomOf(t, r)
          PROVE  HoldsRoomOf(t, r)'
      <3>1. \A q \in Players : q # p => seat'[q] = seat[q] /\ table'[q] = table[q]
        BY <1>8 DEF MoveSeat, TypeOK
      <3>2. p \notin tx[t].todo \cup tx[t].held
        BY <1>0, <1>8, <2>2 DEF MoveSeat, RoomRowFree, HoldsRoomOf, Seated
      <3> QED
        BY <1>rows, <2>1, <2>2, <3>1, <3>2 DEF HoldsRoomOf, Seated
    <2> QED
      BY <2>1, <2>2 DEF PayoutInv
  <1>9. CASE UNCHANGED vars
    BY <1>9 DEF vars, PayoutInv, HoldsRoomOf, Seated
  <1>10. ASSUME NEW t \in Txs, NEW p \in Players, NEW a \in Amounts,
                Deposit(t, p, a) \/ Withdraw(t, p, a) \/ Bet(t, p, a)
         PROVE  PayoutInv'
    BY <1>1, <1>10 DEF Deposit, Withdraw, Bet
  <1> QED
    BY <1>2, <1>4, <1>5, <1>7, <1>8, <1>9, <1>10 DEF Next

\* settle_round.go and abort_room.go: the row lock of the room keeps two payouts
\* from ever sharing a player, so that taking several player rows in no fixed
\* order cannot deadlock them, for every number of players, rooms and open
\* transactions.
THEOREM PayoutsDisjoint == Spec => []PayoutsShareNoPlayer
  <1>1. Init => PayoutInv
    BY WalletAssumption DEF Init, PayoutInv, IdleTx, NoTx
  <1>2. TypeOK /\ PayoutInv /\ [Next]_vars => PayoutInv'
    BY PayoutStep
  <1>3. PayoutInv => PayoutsShareNoPlayer
    BY DEF PayoutInv, HoldsRoomOf, PayoutsShareNoPlayer
  <1> QED
    BY <1>1, <1>2, <1>3, WalletTyped, PTL DEF Spec
==============================================================================
