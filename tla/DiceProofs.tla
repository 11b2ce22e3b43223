------------------------------ MODULE DiceProofs ------------------------------
(***************************************************************************)
(* payout.go in int64 arithmetic, for every width of the integers and      *)
(* every stake, and so for every stake a wallet of RoomEngine covers.      *)
(***************************************************************************)
EXTENDS DiceAudit, RoomEngineProofs, FiniteSetTheorems

\* Wrapping around never makes a natural number larger.
LEMMA WrapNeverGrows ==
    ASSUME NEW x \in Nat
    PROVE  Int64(x) \in Int /\ Int64(x) <= x
  <1> DEFINE a == x + MaxMoney + 1
             b == 2 * (MaxMoney + 1)
  <1>1. a \in Nat /\ b \in Nat \ {0}
    BY MaxMoneyAssumption
  <1>2. \A i \in Nat, j \in Nat \ {0} : i % j \in Nat /\ i % j <= i
    OBVIOUS
  <1>3. a % b \in Nat /\ a % b <= a
    <2> HIDE DEF a, b
    <2> QED
      BY <1>1, <1>2
  <1> QED
    BY <1>3, MaxMoneyAssumption DEF Int64

\* It does nothing to a number that fits.
LEMMA WrapKeepsSmall ==
    ASSUME NEW x \in 0..MaxMoney
    PROVE  Int64(x) = x
  <1> DEFINE a == x + MaxMoney + 1
             b == 2 * (MaxMoney + 1)
  <1>1. a \in Nat /\ b \in Nat \ {0} /\ a < b
    BY MaxMoneyAssumption
  <1>2. \A i \in Nat, j \in Nat \ {0} : i < j => i % j = i
    OBVIOUS
  <1>3. a % b = a
    <2> HIDE DEF a, b
    <2> QED
      BY <1>1, <1>2
  <1> QED
    BY <1>3, MaxMoneyAssumption DEF Int64

\* payout.go: a win never pays more than 1.92 times the stake, whether or not
\* the product overflows; and one that does not overflow returns the stake.
THEOREM PayoutBounds ==
    ASSUME NEW s \in Nat \ {0}
    PROVE  /\ Payout(s) \in Int
           /\ 100 * Payout(s) <= 192 * s
           /\ s <= MaxSafeStake => Payout(s) >= s
  <1>1. Int64(192 * s) \in Int /\ Int64(192 * s) <= 192 * s
    BY WrapNeverGrows
  <1>2. Payout(s) = Quo(Int64(192 * s), 100)
    BY DEF Payout, PayoutNumerator, PayoutDenominator
  <1>3. \A y \in Int : Quo(y, 100) \in Int /\ (100 * Quo(y, 100) <= y \/ Quo(y, 100) <= 0)
    BY DEF Quo
  <1>4. Payout(s) \in Int /\ 100 * Payout(s) <= 192 * s
    BY <1>1, <1>2, <1>3
  <1>5. ASSUME s <= MaxSafeStake PROVE Payout(s) >= s
    <2>1. 192 * s \in 0..MaxMoney
      BY <1>5, MaxMoneyAssumption DEF MaxSafeStake, PayoutNumerator
    <2>2. Payout(s) = Quo(192 * s, 100)
      BY <1>2, <2>1, WrapKeepsSmall
    <2> QED
      BY <2>2 DEF Quo
  <1> QED
    BY <1>4, <1>5

\* What a wallet covers is a stake the lemmas speak of.
LEMMA CoveredStake ==
    ASSUME TypeOK, NEW p \in Players, NEW stake \in 1..balance[p]
    PROVE  stake \in Nat \ {0}
  <1>1. balance[p] \in Nat
    BY DEF TypeOK
  <1> QED
    BY <1>1

\* payout.go: "It can never mint money out of nothing": in every state of a
\* room, every stake a wallet covers is paid at most 1.92 times, whether or not
\* its product wraps around, and at least once if it does not.
THEOREM PayoutNeverMints == Spec => []NeverMints
  <1>1. TypeOK => NeverMints
    BY CoveredStake, PayoutBounds DEF NeverMints
  <1> QED
    BY <1>1, RoomTyped, PTL

-----------------------------------------------------------------------------
(***************************************************************************)
(* The return to the player over all 36 rolls.                             *)
(***************************************************************************)
\* A roll wins for a side exactly when the sum of its faces has that parity.
LEMMA ParityDecides ==
    ASSUME NEW roll \in Rolls
    PROVE  /\ roll \in WinningRolls("even") <=> (roll[1] + roll[2]) % 2 = 0
           /\ roll \in WinningRolls("odd") <=> (roll[1] + roll[2]) % 2 # 0
  <1>1. ValidDie(roll[1]) /\ ValidDie(roll[2])
    BY DEF Rolls, ValidDie
  <1>2. OutcomeOf(roll[1], roll[2]) =
            IF (roll[1] + roll[2]) % 2 = 0 THEN "even" ELSE "odd"
    BY <1>1 DEF OutcomeOf
  <1> QED
    BY <1>2 DEF WinningRolls, Matches

\* Turning the first die upside down takes the even rolls to the odd ones.
LEMMA UpsideDown ==
    ExistsBijection(WinningRolls("even"), WinningRolls("odd"))
  <1> DEFINE E == WinningRolls("even")
             O == WinningRolls("odd")
             flip == [roll \in E |-> <<7 - roll[1], roll[2]>>]
  <1>1. E \subseteq Rolls /\ O \subseteq Rolls
    BY DEF WinningRolls
  <1>2. \A roll \in Rolls : /\ <<7 - roll[1], roll[2]>> \in Rolls
                           /\ roll[1] \in 1..6 /\ roll[2] \in 1..6
                           /\ roll = <<roll[1], roll[2]>>
    BY DEF Rolls
  <1>3. \A d \in 1..6, e \in 1..6 : ((7 - d) + e) % 2 = 0 <=> (d + e) % 2 # 0
    OBVIOUS
  <1>4. ASSUME NEW roll \in Rolls
        PROVE  /\ roll \in E => <<7 - roll[1], roll[2]>> \in O
               /\ roll \in O => <<7 - roll[1], roll[2]>> \in E
    <2> DEFINE other == <<7 - roll[1], roll[2]>>
    <2>1. other \in Rolls /\ other[1] = 7 - roll[1] /\ other[2] = roll[2]
      BY <1>2
    <2>2. (other[1] + other[2]) % 2 = 0 <=> (roll[1] + roll[2]) % 2 # 0
      BY <1>2, <1>3, <2>1
    <2> HIDE DEF other
    <2>3. (roll \in E => other \in O) /\ (roll \in O => other \in E)
      BY <2>1, <2>2, ParityDecides
    <2> QED
      BY <2>3 DEF other
  <1>5. flip \in [E -> O]
    BY <1>1, <1>4
  <1>6. \A a, b \in E : flip[a] = flip[b] => a = b
    <2> SUFFICES ASSUME NEW a \in E, NEW b \in E, flip[a] = flip[b] PROVE a = b
      OBVIOUS
    <2>1. 7 - a[1] = 7 - b[1] /\ a[2] = b[2]
      OBVIOUS
    <2> QED
      BY <1>1, <1>2, <2>1
  <1>7. \A t \in O : \E a \in E : flip[a] = t
    <2> SUFFICES ASSUME NEW t \in O PROVE \E a \in E : flip[a] = t
      OBVIOUS
    <2>1. <<7 - t[1], t[2]>> \in E
      BY <1>1, <1>4
    <2>2. flip[<<7 - t[1], t[2]>>] = <<7 - (7 - t[1]), t[2]>>
      BY <2>1
    <2>3. <<7 - (7 - t[1]), t[2]>> = t
      <3>1. t[1] \in 1..6 /\ t = <<t[1], t[2]>>
        BY <1>1, <1>2
      <3>2. \A d \in 1..6 : 7 - (7 - d) = d
        OBVIOUS
      <3> QED
        BY <3>1, <3>2, Zenon
    <2> QED
      BY <2>1, <2>2, <2>3
  <1> HIDE DEF flip
  <1>8. flip \in Bijection(E, O)
    BY <1>5, <1>6, <1>7 DEF Bijection, Injection, Surjection, IsInjective
  <1> QED
    BY <1>8 DEF ExistsBijection

\* payout.go: "Exactly 18 of them sum to an even number and 18 to an odd number".
LEMMA EighteenEach ==
    ASSUME NEW c \in Choices
    PROVE  Cardinality(WinningRolls(c)) = 18
  <1> DEFINE E == WinningRolls("even")
             O == WinningRolls("odd")
  <1>1. IsFiniteSet(1..6) /\ Cardinality(1..6) = 6
    <2>1. 1 \in Int /\ 6 \in Int /\ ~(1 > 6) /\ 6 - 1 + 1 = 6
      OBVIOUS
    <2>2. /\ IsFiniteSet(1..6)
          /\ Cardinality(1..6) = IF 1 > 6 THEN 0 ELSE 6 - 1 + 1
      BY <2>1, FS_Interval, Zenon
    <2> QED
      BY <2>1, <2>2
  <1>2. IsFiniteSet(Rolls) /\ Cardinality(Rolls) = 36
    BY <1>1, FS_Product DEF Rolls
  <1>3. E \cup O = Rolls /\ E \cap O = {}
    <2>1. E \subseteq Rolls /\ O \subseteq Rolls
      BY DEF WinningRolls
    <2> QED
      BY <2>1, ParityDecides
  <1>4. IsFiniteSet(E) /\ IsFiniteSet(O)
    BY <1>2, <1>3, FS_Subset
  <1>5. Cardinality(E) = Cardinality(O)
    BY <1>4, UpsideDown, FS_Bijection
  <1>6. Cardinality(E) \in Nat /\ Cardinality(O) \in Nat
    BY <1>4, FS_CardinalityType
  <1>7. Cardinality(E) + Cardinality(O) = 36
    BY <1>2, <1>3, <1>4, <1>6, FS_Union, FS_EmptySet
  <1>8. Cardinality(E) = 18 /\ Cardinality(O) = 18
    BY <1>5, <1>6, <1>7
  <1> QED
    BY <1>8 DEF Choices

\* A stake that does not overflow is paid 1.92 times, less than a cent short.
LEMMA PayoutExact ==
    ASSUME NEW s \in Nat \ {0}, s <= MaxSafeStake
    PROVE  /\ Payout(s) \in Nat
           /\ 100 * Payout(s) <= 192 * s
           /\ 192 * s < 100 * Payout(s) + 100
  <1>1. 192 * s \in 0..MaxMoney
    BY MaxMoneyAssumption DEF MaxSafeStake, PayoutNumerator
  <1>2. Payout(s) = Quo(192 * s, 100)
    BY <1>1, WrapKeepsSmall DEF Payout, PayoutNumerator, PayoutDenominator
  <1> QED
    BY <1>2 DEF Quo

\* payout.go: over all 36 rolls a table that does not overflow returns at most
\* 96% of what was wagered, and less than a cent per winning roll below it, for
\* every stake a wallet covers in any state of the room, and both sides.
THEOREM TableReturns96Percent == Spec => []ReturnToPlayer
  <1>1. ASSUME TypeOK, NEW p \in Players, NEW stake \in 1..balance[p],
               NEW choice \in Choices, stake <= MaxSafeStake
        PROVE  /\ 100 * Returned(stake, choice) <= 96 * 36 * stake
               /\ 96 * 36 * stake - 100 * Returned(stake, choice) < 100 * 18
    <2>1. stake \in Nat \ {0}
      BY <1>1, CoveredStake
    <2>2. Returned(stake, choice) = 18 * Payout(stake)
      BY EighteenEach DEF Returned, WinningCount
    <2> QED
      BY <1>1, <2>1, <2>2, PayoutExact
  <1>2. TypeOK => ReturnToPlayer
    BY <1>1 DEF ReturnToPlayer
  <1> QED
    BY <1>2, RoomTyped, PTL
==============================================================================
