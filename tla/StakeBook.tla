------------------------------ MODULE StakeBook ------------------------------
(***************************************************************************)
(* What a table promises about money, without loops, requests, processes   *)
(* or failures.  Each round has a book.  While the book is open a player   *)
(* may put one stake in it, which leaves the wallet at once; the book is   *)
(* then closed exactly once, either settled (every stake earns its payout  *)
(* or nothing) or refunded (every stake goes back), and books are opened   *)
(* one at a time.  A stake that comes when its book is closed leaves the   *)
(* wallet too, and nothing is ever paid for it.                            *)
(***************************************************************************)
EXTENDS DiceRules

CONSTANTS Players, MaxRounds, StartBalance

VARIABLES
    book,       \* round -> unopened, open, settled or refunded
    stake,      \* round -> player -> amount staked, 0 for none
    paid,       \* round -> player -> amount credited
    wallet      \* player -> balance

bookVars == <<book, stake, paid, wallet>>

BookRounds == 1..MaxRounds

Init ==
    /\ book = [r \in BookRounds |-> "unopened"]
    /\ stake = [r \in BookRounds |-> [p \in Players |-> 0]]
    /\ paid = [r \in BookRounds |-> [p \in Players |-> 0]]
    /\ wallet = [p \in Players |-> StartBalance]

\* The next book opens once every earlier one has been settled.
Open(r) ==
    /\ book[r] = "unopened"
    /\ \A q \in BookRounds : q < r => book[q] = "settled"
    /\ book' = [book EXCEPT ![r] = "open"]
    /\ UNCHANGED <<stake, paid, wallet>>

Stake(r, p, amount) ==
    /\ book[r] = "open"
    /\ stake[r][p] = 0
    /\ wallet[p] >= amount
    /\ stake' = [stake EXCEPT ![r][p] = amount]
    /\ wallet' = [wallet EXCEPT ![p] = @ - amount]
    /\ UNCHANGED <<book, paid>>

\* A stake that was accepted while the book was open and comes too late for it.
LateStake(r, p, amount) ==
    /\ book[r] \in {"settled", "refunded"}
    /\ stake[r][p] = 0
    /\ wallet[p] >= amount
    /\ stake' = [stake EXCEPT ![r][p] = amount]
    /\ wallet' = [wallet EXCEPT ![p] = @ - amount]
    /\ UNCHANGED <<book, paid>>

\* Close the book of round r, crediting due[p] to each player.
CloseBook(r, how, due) ==
    /\ book[r] = "open"
    /\ book' = [book EXCEPT ![r] = how]
    /\ paid' = [paid EXCEPT ![r] = due]
    /\ wallet' = [p \in Players |-> wallet[p] + due[p]]
    /\ UNCHANGED stake

Settle(r, winners) ==
    CloseBook(r, "settled",
        [p \in Players |-> IF p \in winners THEN Payout(stake[r][p]) ELSE 0])

Refund(r) == CloseBook(r, "refunded", stake[r])

Next ==
    \E r \in BookRounds :
        \/ Open(r)
        \/ \E p \in Players : \E amount \in 1..wallet[p] :
              Stake(r, p, amount) \/ LateStake(r, p, amount)
        \/ \E winners \in SUBSET Players : Settle(r, winners)
        \/ Refund(r)

Spec == Init /\ [][Next]_bookVars
==============================================================================
