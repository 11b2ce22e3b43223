------------------------------ MODULE DiceAudit ------------------------------
(***************************************************************************)
(* What the table returns on one stake over the 36 equally likely rolls,   *)
(* the reference for payout.go: the multiplier 1.92 is derived there from  *)
(* "18 of 36 rolls are even" and RTP 0.96.  The stakes audited in a state  *)
(* of RoomEngine are the ones Player.Debit would accept there.             *)
(***************************************************************************)
EXTENDS RoomEngine

Rolls == (1..6) \X (1..6)

\* Bet.Settle on one roll: a win returns Payout(stake), a loss nothing.
WinningRolls(choice) == {roll \in Rolls : Matches(choice, OutcomeOf(roll[1], roll[2]))}

WinningCount == [choice \in Choices |-> Cardinality(WinningRolls(choice))]

Returned(stake, choice) == WinningCount[choice] * Payout(stake)
-----------------------------------------------------------------------------
\* Over the 36 rolls the table returns at most 96% of what was wagered, and
\* the truncation keeps less than one cent per winning roll (18 of them), for
\* every stake a player's wallet covers (Player.Debit) and payout.go can
\* multiply without leaving int64.
ReturnToPlayer ==
    \A p \in Players : \A stake \in 1..balance[p], choice \in Choices :
        stake <= MaxSafeStake =>
            LET owed == 96 * 36 * stake
                paid == 100 * Returned(stake, choice)
            IN  paid <= owed /\ owed - paid < 100 * 18

\* "It can never mint money out of nothing" (payout.go): whatever stake
\* a wallet covers (Player.Debit), also one whose product wraps around, a win
\* pays at most 1.92x; and as long as it does not wrap, a winner gets at least
\* the stake back.
NeverMints ==
    \A p \in Players : \A stake \in 1..balance[p] :
        /\ 100 * Payout(stake) <= 192 * stake
        /\ stake <= MaxSafeStake => Payout(stake) >= stake
==============================================================================
