------------------------------ MODULE DiceRules ------------------------------
(***************************************************************************)
(* The pure rules of the game (internal/domain/game: dice.go, bet.go and   *)
(* payout.go): parity of two dice, when a choice wins, and the 1.92x       *)
(* payout in int64 cents.                                                  *)
(*                                                                         *)
(* MaxMoney stands for math.MaxInt64.  The arithmetic wraps around at      *)
(* MaxMoney exactly as Go's int64 does, so a small MaxMoney exhibits the   *)
(* overflow boundary without 64-bit numbers.                               *)
(***************************************************************************)
EXTENDS Integers

CONSTANT MaxMoney

ASSUME MaxMoneyAssumption == MaxMoney \in Nat \ {0}

\* The two sides a player may back (bet.go) and, with the same spelling, the
\* two outcomes of a roll (dice.go).
Choices == {"even", "odd"}

PayoutNumerator   == 192
PayoutDenominator == 100

\* Two's-complement wrap-around of an int64 result.
Int64(x) == ((x + MaxMoney + 1) % (2 * (MaxMoney + 1))) - (MaxMoney + 1)

\* Go's integer division truncates toward zero; TLA+'s \div rounds down.
Quo(a, b) == IF a >= 0 THEN a \div b ELSE -((-a) \div b)

\* A plausible slip: paying the fair 2.00x multiplier, rounded the same way.
PayoutFair(stake) ==
    IF stake <= 0 THEN 0
    ELSE Quo(Int64(stake * 200), PayoutDenominator)

\* A plausible slip: dividing before multiplying, which truncates the stake.
PayoutTruncatedEarly(stake) ==
    IF stake <= 0 THEN 0
    ELSE Int64(Quo(stake, PayoutDenominator) * PayoutNumerator)

\* The gross amount credited to a winning stake.
Payout(stake) ==
    IF stake <= 0 THEN 0
    ELSE Quo(Int64(stake * PayoutNumerator), PayoutDenominator)

\* The largest stake whose payout is computed without wrapping.
MaxSafeStake == MaxMoney \div PayoutNumerator

ValidDie(d) == d \in 1..6

\* "invalid" is the ErrInvalidDie return.
OutcomeOf(die1, die2) ==
    CASE ~(ValidDie(die1) /\ ValidDie(die2)) -> "invalid"
      [] ValidDie(die1) /\ ValidDie(die2) /\ (die1 + die2) % 2 = 0 -> "even"
      [] OTHER -> "odd"

Matches(choice, outcome) == choice = outcome
==============================================================================
