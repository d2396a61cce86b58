------------------------ MODULE BidOnAddressesProofs ------------------------
(***************************************************************************)
(* Theorems on the market of BidOnAddresses, for every number of users,    *)
(* oracles, conditions and collateral tokens and every width of integers:  *)
(* that the collateral the contract holds covers all that may still be     *)
(* withdrawn rests on most of the others.                                  *)
(***************************************************************************)
EXTENDS BidOnAddresses, MarketProofs

\* What TypeOK says of who owns oracles and conditions.
OwnersOK ==
  /\ \A o \in Oracle : oracleOwnersMap[o] # Null <=> o \in 1 .. maxOracleId
  /\ gracePeriodEnds \in [Oracle -> {0} \union GraceTimes]
  /\ maxConditionId \in 0 .. MaxCondition
  /\ conditionOwners \in [Condition -> Account]
  /\ \A c \in Condition : conditionOwners[c] # Null <=> c <= maxConditionId

\* No token of a condition that is not registered yet was minted.
UnregisteredEmpty == \A c \in Condition : c > maxConditionId => totalBalances[c] = 0

\* Before an oracle finishes nobody is paid, and nobody is marked as paid.
UnfinishedUnpaid ==
  \A t \in Collateral, o \in Oracle : ~oracleFinishedMap[o] =>
    /\ paid[t][o]["first"] = 0
    /\ \A u \in Account : lastCollateralBalanceFirstRoundMap[perOracleId[t][o]][u] = 0

\* The part of an oracle's donations that u's tokens of condition c stand for,
\* as a fixed-point number.
Weight(o, c, u) ==
  IF totalBalances[c] = 0 \/ payoutDenominatorMap[o] = 0 THEN 0
  ELSE Mul(Divu(balances[c][u], totalBalances[c]), RewardShare(o, c))

\* What the tokens that u redeemed were paid at most: their part of all the
\* donations that u was paid from.
SettledMark(t, o, c, u) ==
  IF userUsedRedeemMap[u][c]
  THEN Weight(o, c, u) * lastCollateralBalanceFirstRoundMap[perOracleId[t][o]][u]
  ELSE 0

\* The sum over all conditions and all accounts.
DoubleSum(f) == SumOver([c \in Condition |-> SumOver(f[c], Account)], Condition)

Settled(t, o) == [c \in Condition |-> [u \in Account |-> SettledMark(t, o, c, u)]]

\* Oracle o gave no score to a counter of donations, the supply of which grows.
NoCounterScored(o) == \A id \in CounterIds : payoutNumeratorsMap[o][id] = 0

\* What was paid is accounted for by tokens that were redeemed, and these can
\* no longer be given away: whoever holds other tokens was paid nothing for
\* them, nor was anybody before.
PaidIsSettled(t, o) ==
  NoCounterScored(o) => paid[t][o]["first"] * FixedOne <= DoubleSum(Settled(t, o))

\* The inductive invariant.
Inv ==
  /\ MarketInv
  /\ OwnersOK
  /\ TotalsAreSums
  /\ UnregisteredEmpty
  /\ UnfinishedUnpaid
  /\ \A t \in Collateral, o \in Oracle : PaidIsSettled(t, o)

-----------------------------------------------------------------------------
(***************************************************************************)
(* Sums over conditions and accounts                                       *)
(***************************************************************************)

\* The sums of naturals are naturals, and compare as their terms do.
LEMMA DoubleMonotone ==
  ASSUME NEW f, NEW f2,
         \A c \in Condition, u \in Account :
           f[c][u] \in Nat /\ f2[c][u] \in Nat /\ f[c][u] <= f2[c][u]
  PROVE  /\ DoubleSum(f) \in Nat
         /\ DoubleSum(f2) \in Nat
         /\ DoubleSum(f) <= DoubleSum(f2)
<1> DEFINE g == [c \in Condition |-> SumOver(f[c], Account)]
           g2 == [c \in Condition |-> SumOver(f2[c], Account)]
<1>1. ASSUME NEW c \in Condition
      PROVE  /\ SumOver(f[c], Account) \in Nat
             /\ SumOver(f2[c], Account) \in Nat
             /\ SumOver(f[c], Account) <= SumOver(f2[c], Account)
  BY FiniteSets, SumType, SumMonotone
<1>2. \A c \in Condition : g[c] \in Nat /\ g2[c] \in Nat /\ g[c] <= g2[c]
  BY <1>1
<1> HIDE DEF g, g2
<1>3. /\ SumOver(g, Condition) \in Nat
      /\ SumOver(g2, Condition) \in Nat
      /\ SumOver(g, Condition) <= SumOver(g2, Condition)
  BY <1>2, FiniteSets, SumType, SumMonotone
<1>4. QED
  BY <1>3 DEF DoubleSum, g, g2

\* The sums of the sums of terms.
LEMMA DoubleAdd ==
  ASSUME NEW f, NEW f2, NEW h,
         \A c \in Condition, u \in Account :
           f[c][u] \in Nat /\ f2[c][u] \in Nat /\ h[c][u] = f[c][u] + f2[c][u]
  PROVE  DoubleSum(h) = DoubleSum(f) + DoubleSum(f2)
<1> DEFINE g == [c \in Condition |-> SumOver(f[c], Account)]
           g2 == [c \in Condition |-> SumOver(f2[c], Account)]
           k == [c \in Condition |-> SumOver(h[c], Account)]
<1>1. ASSUME NEW c \in Condition
      PROVE  /\ SumOver(f[c], Account) \in Nat
             /\ SumOver(f2[c], Account) \in Nat
             /\ SumOver(h[c], Account) = SumOver(f[c], Account) + SumOver(f2[c], Account)
  <2>1. SumOver(f[c], Account) \in Nat /\ SumOver(f2[c], Account) \in Nat
    BY FiniteSets, SumType
  <2>2. \A u \in Account : f[c][u] \in Int /\ f2[c][u] \in Int
    OBVIOUS
  <2>3. SumOver(h[c], Account) = SumOver(f[c], Account) + SumOver(f2[c], Account)
    BY <2>2, FiniteSets, SumAdd
  <2>4. QED
    BY <2>1, <2>3
<1>2. \A c \in Condition : g[c] \in Int /\ g2[c] \in Int /\ k[c] = g[c] + g2[c]
  BY <1>1
<1> HIDE DEF g, g2, k
<1>3. SumOver(k, Condition) = SumOver(g, Condition) + SumOver(g2, Condition)
  BY <1>2, FiniteSets, SumAdd
<1>4. QED
  BY <1>3 DEF DoubleSum, g, g2, k

\* A common factor.
LEMMA DoubleScale ==
  ASSUME NEW f, NEW h, NEW k \in Nat,
         \A c \in Condition, u \in Account : f[c][u] \in Nat /\ h[c][u] = f[c][u] * k
  PROVE  DoubleSum(h) = DoubleSum(f) * k
<1> DEFINE g == [c \in Condition |-> SumOver(f[c], Account)]
           g2 == [c \in Condition |-> SumOver(h[c], Account)]
<1>1. ASSUME NEW c \in Condition
      PROVE  /\ SumOver(f[c], Account) \in Nat
             /\ SumOver(h[c], Account) = SumOver(f[c], Account) * k
  <2>1. k \in Int /\ \A u \in Account : f[c][u] \in Int /\ h[c][u] = f[c][u] * k
    OBVIOUS
  <2>2. SumOver(h[c], Account) = SumOver(f[c], Account) * k
    BY <2>1, FiniteSets, SumScale
  <2>3. QED
    BY <2>2, FiniteSets, SumType
<1>2. \A c \in Condition : g[c] \in Int /\ g2[c] = g[c] * k
  BY <1>1
<1> HIDE DEF g, g2
<1>3. SumOver(g2, Condition) = SumOver(g, Condition) * k
  BY <1>2, FiniteSets, SumScale
<1>4. QED
  BY <1>3 DEF DoubleSum, g, g2

\* No term is greater than the sum.
LEMMA DoubleTerm ==
  ASSUME NEW f, \A c \in Condition, u \in Account : f[c][u] \in Nat,
         NEW d \in Condition, NEW a \in Account
  PROVE  f[d][a] <= DoubleSum(f)
<1> DEFINE g == [c \in Condition |-> SumOver(f[c], Account)]
<1>1. \A c \in Condition : SumOver(f[c], Account) \in Nat
  BY FiniteSets, SumType
<1>2. f[d][a] <= SumOver(f[d], Account)
  BY FiniteSets, SumTerm
<1>3. \A c \in Condition : g[c] \in Nat
  BY <1>1
<1>4. g[d] = SumOver(f[d], Account)
  OBVIOUS
<1> HIDE DEF g
<1>5. g[d] <= SumOver(g, Condition) /\ SumOver(g, Condition) \in Nat
  BY <1>3, FiniteSets, SumTerm, SumType
<1>6. f[d][a] <= SumOver(g, Condition)
  BY <1>2, <1>3, <1>4, <1>5
<1>7. QED
  BY <1>6 DEF DoubleSum, g

-----------------------------------------------------------------------------
(***************************************************************************)
(* Weights                                                                 *)
(***************************************************************************)

\* The share of a holder and that of a token, for a market whose result is
\* known.
LEMMA SharesNat ==
  ASSUME MarketTypeOK, NEW o \in Oracle, NEW c \in TokenId, NEW u \in Account,
         totalBalances[c] # 0, payoutDenominatorMap[o] # 0
  PROVE  /\ Divu(balances[c][u], totalBalances[c]) \in Nat
         /\ RewardShare(o, c) \in Nat
<1>1. FixedOne \in Nat \ {0}
  BY LockAssumption
<1>2. balances[c][u] \in Nat /\ totalBalances[c] \in Nat \ {0}
  BY CounterTokens DEF MarketTypeOK, TokenTypeOK, Uint
<1>3. payoutNumeratorsMap[o][c] \in Nat /\ payoutDenominatorMap[o] \in Nat \ {0}
  BY DEF MarketTypeOK, ResultTypeOK, Uint
<1>4. \A n \in Nat : n * FixedOne \in Nat
  BY <1>1
<1>5. QED
  BY <1>2, <1>3, <1>4, QuotientNat DEF Divu, RewardShare

\* Weights are natural numbers.
LEMMA WeightOnlyNat ==
  ASSUME MarketTypeOK, NEW o \in Oracle, NEW c \in TokenId, NEW u \in Account
  PROVE  Weight(o, c, u) \in Nat
<1>1. CASE totalBalances[c] = 0 \/ payoutDenominatorMap[o] = 0
  BY <1>1 DEF Weight
<1>2. CASE totalBalances[c] # 0 /\ payoutDenominatorMap[o] # 0
  <2> DEFINE own == Divu(balances[c][u], totalBalances[c])
             share == RewardShare(o, c)
  <2>1. own \in Nat /\ share \in Nat /\ FixedOne \in Nat \ {0}
    BY <1>2, SharesNat, LockAssumption
  <2>2. Weight(o, c, u) = Mul(own, share)
    BY <1>2 DEF Weight
  <2> HIDE DEF own, share
  <2>3. own * share \in Nat
    BY <2>1
  <2>4. QED
    BY <2>1, <2>2, <2>3, QuotientNat DEF Mul
<1>3. QED
  BY <1>1, <1>2

\* A counter of donations that was given no score stands for no donations.
LEMMA CounterWeightless ==
  ASSUME MarketTypeOK, NEW o \in Oracle, NoCounterScored(o), NEW id \in CounterIds,
         NEW u \in Account
  PROVE  Weight(o, id, u) = 0
<1>1. CASE totalBalances[id] = 0 \/ payoutDenominatorMap[o] = 0
  BY <1>1 DEF Weight
<1>2. CASE totalBalances[id] # 0 /\ payoutDenominatorMap[o] # 0
  <2> DEFINE own == Divu(balances[id][u], totalBalances[id])
             denominator == payoutDenominatorMap[o]
  <2>1. own \in Nat /\ FixedOne \in Nat \ {0}
    BY <1>2, CounterTokens, SharesNat, LockAssumption
  <2>2. denominator \in Nat \ {0}
    BY <1>2 DEF MarketTypeOK, ResultTypeOK, Uint
  <2>3. RewardShare(o, id) = Divu(0, denominator)
    BY DEF NoCounterScored, RewardShare
  <2>4. Weight(o, id, u) = Mul(own, RewardShare(o, id))
    BY <1>2 DEF Weight
  <2> HIDE DEF own, denominator
  <2>5. Divu(0, denominator) = 0
    BY <2>1, <2>2 DEF Divu
  <2>6. Mul(own, 0) = 0
    BY <2>1 DEF Mul
  <2>7. QED
    BY <2>3, <2>4, <2>5, <2>6
<1>3. QED
  BY <1>1, <1>2

\* Weights are natural numbers, and so are the marks.
LEMMA WeightNat ==
  ASSUME MarketTypeOK, NEW t \in Collateral, NEW o \in Oracle, NEW c \in Condition,
         NEW u \in Account
  PROVE  /\ Weight(o, c, u) \in Nat
         /\ lastCollateralBalanceFirstRoundMap[perOracleId[t][o]][u] \in Nat
         /\ SettledMark(t, o, c, u) \in Nat
<1>1. Weight(o, c, u) \in Nat
  BY CounterTokens, WeightOnlyNat
<1>2. lastCollateralBalanceFirstRoundMap[perOracleId[t][o]][u] \in Nat
  BY CounterTokens DEF MarketTypeOK, LockTypeOK, Uint
<1>3. SettledMark(t, o, c, u) \in Nat
  <2> DEFINE w == Weight(o, c, u)
             last == lastCollateralBalanceFirstRoundMap[perOracleId[t][o]][u]
  <2>1. w \in Nat /\ last \in Nat
    BY <1>1, <1>2
  <2>2. SettledMark(t, o, c, u) = IF userUsedRedeemMap[u][c] THEN w * last ELSE 0
    BY DEF SettledMark
  <2> HIDE DEF w, last
  <2>3. QED
    BY <2>1, <2>2
<1>4. QED
  BY <1>1, <1>2, <1>3

\* The same, of this state and of the next.
LEMMA MarksNat ==
  /\ MarketTypeOK =>
       \A t \in Collateral, o \in Oracle, c \in Condition, u \in Account :
         Weight(o, c, u) \in Nat /\ SettledMark(t, o, c, u) \in Nat
  /\ (MarketTypeOK =>
       \A t \in Collateral, o \in Oracle, c \in Condition, u \in Account :
         Weight(o, c, u) \in Nat /\ SettledMark(t, o, c, u) \in Nat)'
<1>1. MarketTypeOK =>
        \A t \in Collateral, o \in Oracle, c \in Condition, u \in Account :
          Weight(o, c, u) \in Nat /\ SettledMark(t, o, c, u) \in Nat
  BY WeightNat
<1>2. (MarketTypeOK =>
        \A t \in Collateral, o \in Oracle, c \in Condition, u \in Account :
          Weight(o, c, u) \in Nat /\ SettledMark(t, o, c, u) \in Nat)'
  BY <1>1, PTL
<1>3. QED
  BY <1>1, <1>2

\* More tokens weigh no less.
LEMMA WeightGrows ==
  ASSUME MarketTypeOK, MarketTypeOK', NEW o \in Oracle, NEW c \in Condition,
         NEW u \in Account, balances[c][u] <= balances'[c][u],
         totalBalances'[c] = totalBalances[c],
         payoutNumeratorsMap'[o] = payoutNumeratorsMap[o],
         payoutDenominatorMap'[o] = payoutDenominatorMap[o]
  PROVE  Weight(o, c, u) <= Weight(o, c, u)'
<1>1. CASE totalBalances[c] = 0 \/ payoutDenominatorMap[o] = 0
  BY <1>1 DEF Weight
<1>2. CASE totalBalances[c] # 0 /\ payoutDenominatorMap[o] # 0
  <2> DEFINE total == totalBalances[c]
             b == balances[c][u]
             b2 == balances'[c][u]
             own == Divu(b, total)
             own2 == Divu(b2, total)
             share == RewardShare(o, c)
  <2>1. /\ b \in Nat
        /\ b2 \in Nat
        /\ b <= b2
        /\ total \in Nat \ {0}
        /\ FixedOne \in Nat \ {0}
    BY <1>2, CounterTokens, LockAssumption DEF MarketTypeOK, TokenTypeOK, Uint
  <2>2. own \in Nat /\ share \in Nat
    BY <1>2, CounterTokens, SharesNat
  <2>3. Weight(o, c, u) = Mul(own, share)
    BY <1>2 DEF Weight
  <2>4. Weight(o, c, u)' = Mul(own2, share)
    BY <1>2 DEF Weight, RewardShare
  <2> HIDE DEF b, b2, total, share
  <2>5. /\ b * FixedOne \in Nat
        /\ b2 * FixedOne \in Nat
        /\ b * FixedOne <= b2 * FixedOne
    BY <2>1, ProductMonotone
  <2>6. own <= own2 /\ own2 \in Nat
    BY <2>1, <2>5, QuotientMonotone, QuotientNat DEF Divu
  <2> HIDE DEF own, own2
  <2>7. own * share \in Nat /\ own2 * share \in Nat /\ own * share <= own2 * share
    BY <2>2, <2>6, ProductMonotone
  <2>8. Mul(own, share) <= Mul(own2, share)
    BY <2>1, <2>7, QuotientMonotone DEF Mul
  <2>9. QED
    BY <2>3, <2>4, <2>8
<1>3. QED
  BY <1>1, <1>2

-----------------------------------------------------------------------------
(***************************************************************************)
(* Steps that pay nobody                                                   *)
(***************************************************************************)

\* Tokens, locks and marks that do not change settle what they settled.
LEMMA SameMark ==
  ASSUME MarketTypeOK, NEW t \in Collateral, NEW o \in Oracle, NEW c \in Condition,
         NEW u \in Account, balances'[c] = balances[c],
         totalBalances'[c] = totalBalances[c],
         userUsedRedeemMap' = userUsedRedeemMap,
         lastCollateralBalanceFirstRoundMap' = lastCollateralBalanceFirstRoundMap,
         payoutNumeratorsMap'[o] = payoutNumeratorsMap[o],
         payoutDenominatorMap'[o] = payoutDenominatorMap[o]
  PROVE  SettledMark(t, o, c, u) <= SettledMark(t, o, c, u)'
<1>1. SettledMark(t, o, c, u)' = SettledMark(t, o, c, u)
  BY DEF SettledMark, Weight, RewardShare
<1>2. SettledMark(t, o, c, u) \in Nat
  BY WeightNat
<1>3. QED
  BY <1>1, <1>2

\* Where no redeemed token weighs less than before, payments stay settled.
LEMMA PaidStaysSettled ==
  ASSUME MarketTypeOK, MarketTypeOK', NEW t \in Collateral, NEW o \in Oracle,
         PaidIsSettled(t, o), paid'[t][o] = paid[t][o],
         paid[t][o]["first"] = 0 \/ payoutNumeratorsMap'[o] = payoutNumeratorsMap[o],
         \A c \in Condition, u \in Account :
           SettledMark(t, o, c, u) <= SettledMark(t, o, c, u)'
  PROVE  PaidIsSettled(t, o)'
<1> SUFFICES ASSUME NoCounterScored(o)'
             PROVE  (paid[t][o]["first"] * FixedOne <= DoubleSum(Settled(t, o)))'
  BY DEF PaidIsSettled
<1> DEFINE f == Settled(t, o)
           f2 == Settled(t, o)'
<1>1. ASSUME NEW c \in Condition, NEW u \in Account
      PROVE  f[c][u] \in Nat /\ f2[c][u] \in Nat /\ f[c][u] <= f2[c][u]
  <2>1. SettledMark(t, o, c, u) \in Nat /\ SettledMark(t, o, c, u)' \in Nat
    BY MarksNat
  <2>2. QED
    BY <2>1 DEF Settled
<1>2. \/ paid[t][o]["first"] = 0
      \/ paid[t][o]["first"] * FixedOne <= DoubleSum(f)
  BY DEF PaidIsSettled, NoCounterScored
<1>3. /\ paid[t][o]["first"] * FixedOne \in Nat
      /\ paid[t][o]["first"] = 0 => paid[t][o]["first"] * FixedOne = 0
  <2>1. paid[t][o]["first"] \in Nat /\ FixedOne \in Nat
    BY LockAssumption DEF MarketTypeOK, CollateralTypeOK
  <2>2. QED
    BY <2>1
<1> HIDE DEF f, f2
<1>4. DoubleSum(f) \in Nat /\ DoubleSum(f2) \in Nat /\ DoubleSum(f) <= DoubleSum(f2)
  BY <1>1, DoubleMonotone
<1>5. paid[t][o]["first"] * FixedOne <= DoubleSum(f2)
  BY <1>2, <1>3, <1>4
<1>6. QED
  BY <1>5 DEF f2, DoubleSum

\* A step that pays nobody, finishes an oracle at most, leaves results that are
\* final, and every redeemed token its weight.
LEMMA UnpaidStep ==
  ASSUME Inv, MarketInv', OwnersOK', TotalsAreSums', UnregisteredEmpty',
         UNCHANGED <<lastCollateralBalanceFirstRoundMap, paid>>,
         ResultsFrozen,
         \A t \in Collateral, o \in Oracle, c \in Condition, u \in Account :
           SettledMark(t, o, c, u) <= SettledMark(t, o, c, u)'
  PROVE  Inv'
<1>1. UnfinishedUnpaid'
  BY DEF Inv, UnfinishedUnpaid, ResultsFrozen
<1>2. ASSUME NEW t \in Collateral, NEW o \in Oracle PROVE PaidIsSettled(t, o)'
  <2>1. MarketTypeOK /\ MarketTypeOK' /\ PaidIsSettled(t, o)
    BY DEF Inv, MarketInv
  <2>2. paid[t][o]["first"] = 0 \/ payoutNumeratorsMap'[o] = payoutNumeratorsMap[o]
    BY DEF Inv, UnfinishedUnpaid, ResultsFrozen
  <2>3. QED
    BY <2>1, <2>2, PaidStaysSettled
<1>3. QED
  BY <1>1, <1>2 DEF Inv

-----------------------------------------------------------------------------
(***************************************************************************)
(* Tokens                                                                  *)
(***************************************************************************)

\* What TotalsAreSums says, of any balances and totals.
SumsOf(b, totals) == \A id \in TokenId : totals[id] = SumOver(b[id], Account)

\* A mint adds as much to the sum of the balances as to the total.
LEMMA MintKeepsSums ==
  ASSUME NEW b \in TokenMap, NEW totals \in [TokenId -> Uint], SumsOf(b, totals),
         NEW to \in Account, NEW id \in TokenId, NEW value \in Nat,
         totals[id] + value <= MaxUint
  PROVE  /\ SumsOf(MintedBalances(b, to, id, value), MintedTotals(totals, id, value))
         /\ \A i \in TokenId, a \in Account :
              MintedBalances(b, to, id, value)[i][a] >= b[i][a]
<1> DEFINE minted == MintedBalances(b, to, id, value)
           mintedTotals == MintedTotals(totals, id, value)
<1>1. totals[id] = SumOver(b[id], Account)
  BY DEF SumsOf
<1>2. /\ SumOver(minted[id], Account) = SumOver(b[id], Account) + value
      /\ minted[id][to] = b[id][to] + value
      /\ \A a \in Account : a # to => minted[id][a] = b[id][a]
  BY <1>1, MintAddsToSum
<1>3. /\ mintedTotals[id] = totals[id] + value
      /\ \A i \in TokenId : i # id => mintedTotals[i] = totals[i] /\ minted[i] = b[i]
  BY MintType
<1>4. \A i \in TokenId, a \in Account : b[i][a] \in Int
  BY DEF TokenMap, Uint
<1> HIDE DEF minted, mintedTotals
<1>5. SumsOf(minted, mintedTotals)
  BY <1>1, <1>2, <1>3 DEF SumsOf
<1>6. \A i \in TokenId, a \in Account : minted[i][a] >= b[i][a]
  BY <1>2, <1>3, <1>4
<1>7. QED
  BY <1>5, <1>6 DEF minted, mintedTotals

\* The steps of a market create oracles for users and leave conditions alone.
LEMMA OwnersStep ==
  ASSUME Inv, BidNext
  PROVE  OwnersOK'
<1>1. OwnersOK /\ maxOracleId \in Nat /\ oracleOwnersMap \in [Oracle -> Account]
  BY LockAssumption
  DEF Inv, MarketInv, MarketTypeOK, LockTypeOK, OwnersOK, Oracle
<1>2. UNCHANGED conditionVars
  BY MarketKeepsConditions DEF Inv
<1>3. ASSUME UNCHANGED oracleVars PROVE OwnersOK'
  BY <1>1, <1>2, <1>3 DEF OwnersOK, oracleVars, conditionVars
<1>4. \A sender \in Users : sender # Null
  BY TokenAssumption
<1>5. CASE LockNext
  <2>1. ASSUME NEW sender \in Users, CreateOracle(sender) PROVE OwnersOK'
    <3>1. \A o \in Oracle : o \in Int
      BY DEF Oracle
    <3>2. QED
      BY <1>1, <1>2, <1>4, <2>1, <3>1 DEF OwnersOK, CreateOracle, conditionVars, Oracle
  <2>2. ASSUME NEW sender \in Users, NEW operator, NEW approved,
               ApproveAll(sender, operator, approved)
        PROVE  OwnersOK'
    BY <1>3, <2>2 DEF ApproveAll
  <2>3. ASSUME NEW sender \in Users, NEW o \in Oracle, NEW owner \in Users,
               ChangeOracleOwner(sender, owner, o)
        PROVE  OwnersOK'
    BY <1>1, <1>2, <1>4, <2>3 DEF OwnersOK, ChangeOracleOwner, IsOracle, conditionVars
  <2>4. ASSUME NEW sender \in Users, NEW o \in Oracle, NEW time \in GraceTimes,
               UpdateGracePeriodEnds(sender, o, time)
        PROVE  OwnersOK'
    BY <1>1, <1>2, <2>4 DEF OwnersOK, UpdateGracePeriodEnds, conditionVars
  <2>5. \A t, o, amount, from, to : Donate(t, o, amount, from, to) => UNCHANGED oracleVars
    BY DEF Donate
  <2>6. \A t, o : GatherDeFiProfit(t, o) => UNCHANGED oracleVars
    BY <2>5 DEF GatherDeFiProfit
  <2>7. \A t, from, amount : ReceiveCollateral(t, from, amount) => UNCHANGED oracleVars
    BY DEF ReceiveCollateral
  <2>8. Tick => UNCHANGED oracleVars
    BY DEF Tick
  <2>9. QED
    BY <1>3, <1>5, <2>1, <2>2, <2>3, <2>4, <2>5, <2>6, <2>7, <2>8 DEF LockNext
<1>6. ASSUME NEW sender \in Users, NEW o \in Oracle, NEW c \in TokenId,
             NEW n, ReportNumerator(sender, o, c, n)
      PROVE  OwnersOK'
  BY <1>3, <1>6 DEF ReportNumerator, lockVars
<1>7. ASSUME NEW sender \in Users, NEW o \in Oracle, NEW c1 \in TokenId,
             NEW c2 \in TokenId, NEW n1, NEW n2,
             ReportNumeratorsBatch(sender, o, c1, n1, c2, n2)
      PROVE  OwnersOK'
  BY <1>3, <1>7 DEF ReportNumeratorsBatch, lockVars
<1>8. ASSUME NEW sender \in Users, NEW o \in Oracle, FinishOracle(sender, o)
      PROVE  OwnersOK'
  BY <1>3, <1>8 DEF FinishOracle, lockVars
<1>9. ASSUME NEW sender \in Users, NEW o \in Oracle, NEW t \in Collateral,
             NEW c \in TokenId, Withdraw(sender, t, o, c)
      PROVE  OwnersOK'
  BY <1>3, <1>9 DEF Withdraw, WithdrawCollateral
<1>10. QED
  BY <1>5, <1>6, <1>7, <1>8, <1>9, ReportedAssumption DEF BidNext

-----------------------------------------------------------------------------
(***************************************************************************)
(* Every transaction keeps the invariant                                   *)
(***************************************************************************)

\* The types that the invariant gives.
LEMMA InvTypes ==
  ASSUME Inv
  PROVE  /\ MarketInv
         /\ MarketTypeOK
         /\ balances \in TokenMap
         /\ totalBalances \in [TokenId -> Uint]
         /\ SumsOf(balances, totalBalances)
         /\ maxConditionId \in 0 .. MaxCondition
BY DEF Inv, MarketInv, MarketTypeOK, TokenTypeOK, TokenMap, TotalsAreSums, SumsOf, OwnersOK

\* A step of a market that changes no holdings, results or payments.
LEMMA QuietStep ==
  ASSUME Inv, BidNext, MarketQuiet
  PROVE  Inv'
<1>1. MarketInv' /\ OwnersOK' /\ MarketTypeOK
  BY MarketSteps, OwnersStep, InvTypes
<1>2. UNCHANGED <<balances, totalBalances, conditionVars, userUsedRedeemMap,
                  lastCollateralBalanceFirstRoundMap, paid, payoutNumeratorsMap,
                  payoutDenominatorMap>>
  BY DEF MarketQuiet, roundVars
<1>3. TotalsAreSums' /\ UnregisteredEmpty'
  BY <1>2 DEF Inv, TotalsAreSums, UnregisteredEmpty, conditionVars
<1>4. ASSUME NEW t \in Collateral, NEW o \in Oracle, NEW c \in Condition, NEW u \in Account
      PROVE  SettledMark(t, o, c, u) <= SettledMark(t, o, c, u)'
  BY <1>1, <1>2, SameMark
<1>5. ResultsFrozen
  BY DEF MarketQuiet, ResultsFrozen
<1>6. QED
  BY <1>1, <1>2, <1>3, <1>4, <1>5, UnpaidStep

\* A donation: two counters are minted.
LEMMA DonatesStep ==
  ASSUME Inv, BidNext, MarketDonates
  PROVE  Inv' /\ \A i \in TokenId, u \in Account : balances'[i][u] >= balances[i][u]
<1>1. /\ MarketInv' /\ OwnersOK' /\ MarketTypeOK
      /\ balances \in TokenMap
      /\ totalBalances \in [TokenId -> Uint]
      /\ SumsOf(balances, totalBalances)
  BY MarketSteps, OwnersStep, InvTypes
<1>2. PICK t \in Collateral, o \in Oracle, amount \in Nat, from \in Account,
           to \in Account : Donate(t, o, amount, from, to)
  BY DEF MarketDonates
<1> DEFINE id == perOracleId[t][o]
           all == donatedId[t]
           b1 == MintedBalances(balances, to, id, amount)
           totals1 == MintedTotals(totalBalances, id, amount)
<1>3. /\ totalBalances[id] + amount <= MaxUint
      /\ totalBalances[all] + amount <= MaxUint
      /\ balances' = MintedBalances(b1, to, all, amount)
      /\ totalBalances' = MintedTotals(totals1, all, amount)
      /\ UNCHANGED <<conditionVars, userUsedRedeemMap, roundVars, paid, resultVars>>
  BY <1>2 DEF Donate, CanMint, MarketDonates
<1>4. id \in TokenId /\ all \in TokenId /\ id # all
  BY CounterTokens, LockAssumption
<1> HIDE DEF id, all
<1>5. /\ b1 \in TokenMap
      /\ totals1 \in [TokenId -> Uint]
      /\ SumsOf(b1, totals1)
      /\ totals1[all] = totalBalances[all]
      /\ \A i \in TokenId, u \in Account : b1[i][u] >= balances[i][u]
  BY <1>1, <1>3, <1>4, MintType, MintKeepsSums
<1> HIDE DEF b1, totals1
<1>6. /\ SumsOf(balances', totalBalances')
      /\ \A i \in TokenId, u \in Account : balances'[i][u] >= b1[i][u]
  BY <1>3, <1>4, <1>5, MintKeepsSums
<1>7. TotalsAreSums'
  BY <1>6 DEF SumsOf, TotalsAreSums
<1>8. \A c \in Condition : balances'[c] = balances[c] /\ totalBalances'[c] = totalBalances[c]
  BY <1>1, MarketKeepsConditions DEF Inv
<1>9. UnregisteredEmpty'
  BY <1>3, <1>8 DEF Inv, UnregisteredEmpty, conditionVars
<1>10. ASSUME NEW t2 \in Collateral, NEW o2 \in Oracle, NEW c \in Condition, NEW u \in Account
       PROVE  SettledMark(t2, o2, c, u) <= SettledMark(t2, o2, c, u)'
  BY <1>1, <1>3, <1>8, SameMark DEF roundVars, resultVars
<1>11. Inv'
  BY <1>1, <1>3, <1>7, <1>9, <1>10, UnpaidStep DEF roundVars, resultVars, ResultsFrozen
<1>12. ASSUME NEW i \in TokenId, NEW u \in Account
       PROVE  balances'[i][u] >= balances[i][u]
  <2>1. balances[i][u] \in Int /\ b1[i][u] \in Int /\ balances'[i][u] \in Int
    BY <1>1, <1>5, <1>11, InvTypes DEF TokenMap, Uint, MarketInv, MarketTypeOK, TokenTypeOK
  <2>2. QED
    BY <1>5, <1>6, <2>1
<1>13. QED
  BY <1>11, <1>12

\* A report: nobody was paid yet by the oracle whose result changes.
LEMMA ReportsStep ==
  ASSUME Inv, BidNext, MarketReports
  PROVE  Inv'
<1>1. MarketInv' /\ OwnersOK' /\ MarketTypeOK
  BY MarketSteps, OwnersStep, InvTypes
<1>2. PICK o \in Oracle :
        /\ ~oracleFinishedMap[o]
        /\ \A p \in Oracle : p # o =>
             /\ payoutNumeratorsMap'[p] = payoutNumeratorsMap[p]
             /\ payoutDenominatorMap'[p] = payoutDenominatorMap[p]
  BY DEF MarketReports
<1>3. UNCHANGED <<balances, totalBalances, conditionVars, userUsedRedeemMap,
                  lastCollateralBalanceFirstRoundMap, paid, oracleFinishedMap>>
  BY DEF MarketReports, lockVars, tokenVars, roundVars, collateralVars
<1>4. TotalsAreSums' /\ UnregisteredEmpty'
  BY <1>3 DEF Inv, TotalsAreSums, UnregisteredEmpty, conditionVars
<1>5. ASSUME NEW t \in Collateral, NEW p \in Oracle, NEW c \in Condition, NEW u \in Account
      PROVE  SettledMark(t, p, c, u) <= SettledMark(t, p, c, u)'
  <2>1. CASE p # o
    BY <1>1, <1>2, <1>3, <2>1, SameMark
  <2>2. CASE p = o
    <3>1. lastCollateralBalanceFirstRoundMap[perOracleId[t][p]][u] = 0
      BY <1>2, <2>2 DEF Inv, UnfinishedUnpaid
    <3>2. Weight(p, c, u) \in Nat /\ Weight(p, c, u)' \in Nat
      BY <1>1, MarksNat DEF MarketInv
    <3>3. SettledMark(t, p, c, u) = 0
      BY <3>1, <3>2 DEF SettledMark
    <3>4. SettledMark(t, p, c, u)' = 0
      BY <1>3, <3>1, <3>2 DEF SettledMark
    <3>5. QED
      BY <3>3, <3>4
  <2>3. QED
    BY <2>1, <2>2
<1>6. ResultsFrozen
  BY MarketKeepsResults, InvTypes
<1>7. QED
  BY <1>1, <1>3, <1>4, <1>5, <1>6, UnpaidStep

\* What is owed is at most the holder's part of the donations that came since
\* the holder was paid last: every division rounds down.
LEMMA OwingCovered ==
  ASSUME MarketInv, NEW t \in Collateral, NEW o \in Oracle, NEW c \in TokenId,
         NEW u \in Account, totalBalances[c] # 0, payoutDenominatorMap[o] # 0
  PROVE  /\ totalBalances[perOracleId[t][o]] \in Nat
         /\ lastCollateralBalanceFirstRoundMap[perOracleId[t][o]][u]
              <= totalBalances[perOracleId[t][o]]
         /\ FirstRoundOwing(t, o, c, u) * FixedOne
              <= Weight(o, c, u) * (totalBalances[perOracleId[t][o]]
                   - lastCollateralBalanceFirstRoundMap[perOracleId[t][o]][u])
<1> DEFINE w == Weight(o, c, u)
           d == totalBalances[perOracleId[t][o]]
           last == lastCollateralBalanceFirstRoundMap[perOracleId[t][o]][u]
           owing == FirstRoundOwing(t, o, c, u)
<1>1. MarketTypeOK /\ FixedOne \in Nat \ {0}
  BY LockAssumption DEF MarketInv
<1>2. w \in Nat
  BY <1>1, WeightOnlyNat
<1>3. d \in Uint /\ last \in Uint
  BY <1>1, CounterTokens DEF MarketTypeOK, TokenTypeOK, LockTypeOK
<1>4. last <= d
  BY DEF MarketInv, NoCounterWrap
<1>5. owing = Mulu(w, (d - last) % (MaxUint + 1))
  BY DEF FirstRoundOwing, CollateralOwing, OwingDenominator, NewDividends, LastBalance,
         Weight
<1> HIDE DEF w, d, last, owing
<1>6. d - last \in Uint /\ d \in Nat /\ d - last \in Nat
  BY <1>3, <1>4, TokenAssumption DEF Uint
<1>7. owing = (w * (d - last)) \div FixedOne
  BY <1>5, <1>6, RemainderSame DEF Mulu
<1>8. w * (d - last) \in Nat
  BY <1>2, <1>6
<1>9. owing * FixedOne <= w * (d - last)
  BY <1>1, <1>7, <1>8, QuotientBound
<1>10. QED
  BY <1>4, <1>6, <1>9 DEF w, d, last, owing

\* A product grows with its factor by what the factor grows.
LEMMA ProductDifference ==
  ASSUME NEW w \in Nat, NEW m \in Nat, NEW n \in Nat, m <= n
  PROVE  /\ w * m \in Nat
         /\ w * n \in Nat
         /\ w * (n - m) \in Nat
         /\ w * m <= w * n
         /\ w * m + w * (n - m) = w * n
<1>1. n - m \in Nat
  OBVIOUS
<1>2. w * m \in Nat /\ w * n \in Nat /\ w * (n - m) \in Nat
  BY <1>1
<1>3. w * m + w * (n - m) = w * n
  OBVIOUS
<1>4. QED
  BY <1>2, <1>3

\* A withdrawal redeems tokens that stand for at least what is paid for them.
LEMMA WithdrawsStep ==
  ASSUME Inv, BidNext, MarketWithdraws
  PROVE  Inv'
<1>1. /\ MarketInv /\ MarketInv' /\ OwnersOK' /\ MarketTypeOK /\ MarketTypeOK'
      /\ totalBalances \in [TokenId -> Uint]
  BY MarketSteps, OwnersStep, InvTypes DEF MarketInv
<1>2. PICK sender \in Users, t \in Collateral, o \in Oracle, c \in TokenId :
        Withdraw(sender, t, o, c)
  BY DEF MarketWithdraws
<1> DEFINE id == perOracleId[t][o]
           owing == FirstRoundOwing(t, o, c, sender)
           first == lastCollateralBalanceFirstRoundMap
<1>3. /\ oracleFinishedMap[o]
      /\ payoutDenominatorMap[o] # 0
      /\ totalBalances[c] # 0
      /\ owing \in Nat
      /\ userUsedRedeemMap' = [userUsedRedeemMap EXCEPT ![sender][c] = TRUE]
      /\ first' = Recorded(first, id, sender, owing)
      /\ paid' = [paid EXCEPT ![t][o]["first"] = @ + owing]
      /\ UNCHANGED <<tokenVars, conditionVars, resultVars>>
  BY <1>1, <1>2, WithdrawInFirstRound
<1>4. /\ sender \in Account
      /\ c \in TokenId
      /\ FixedOne \in Nat \ {0}
      /\ \A t2 \in Collateral, o2 \in Oracle : perOracleId[t2][o2] \in CounterIds
      /\ \A t2 \in Collateral, o2 \in Oracle :
           t2 # t \/ o2 # o => perOracleId[t2][o2] # id
  BY CounterTokens, LockAssumption DEF Account
<1>5. /\ first \in [CounterIds -> [Account -> Uint]]
      /\ userUsedRedeemMap \in [Account -> [TokenId -> BOOLEAN]]
      /\ paid \in [Collateral -> [Oracle -> [{"first", "second"} -> Nat]]]
  BY <1>1 DEF MarketTypeOK, LockTypeOK, CollateralTypeOK
<1> HIDE DEF owing
<1>6. ASSUME NEW t2 \in Collateral, NEW o2 \in Oracle, t2 # t \/ o2 # o
      PROVE  /\ paid'[t2][o2] = paid[t2][o2]
             /\ \A u \in Account :
                  first'[perOracleId[t2][o2]][u] = first[perOracleId[t2][o2]][u]
  <2>1. paid'[t2][o2] = paid[t2][o2]
    BY <1>3, <1>5, <1>6
  <2>2. perOracleId[t2][o2] # id /\ perOracleId[t2][o2] \in CounterIds
    BY <1>4, <1>6
  <2> HIDE DEF id
  <2>3. QED
    BY <1>3, <1>5, <2>1, <2>2 DEF Recorded
<1>7. \A u \in Account : first'[id][u] = IF u = sender /\ owing # 0 THEN totalBalances[id]
                                         ELSE first[id][u]
  <2>1. id \in CounterIds
    BY <1>4
  <2> HIDE DEF id
  <2>2. QED
    BY <1>3, <1>4, <1>5, <2>1 DEF Recorded
<1>8. \A p \in Oracle, d \in Condition, u \in Account : Weight(p, d, u)' = Weight(p, d, u)
  BY <1>3 DEF Weight, RewardShare, tokenVars, resultVars
<1>9. /\ \A d \in Condition, u \in Account :
            userUsedRedeemMap[u][d] => userUsedRedeemMap'[u][d]
      /\ userUsedRedeemMap'[sender][c]
  BY <1>3, <1>4, <1>5, CounterTokens
<1>10. ASSUME NEW t2 \in Collateral, NEW o2 \in Oracle, NEW d \in Condition,
              NEW u \in Account
       PROVE  SettledMark(t2, o2, d, u) <= SettledMark(t2, o2, d, u)'
  <2> DEFINE w == Weight(o2, d, u)
             last == first[perOracleId[t2][o2]][u]
             last2 == first'[perOracleId[t2][o2]][u]
  <2>1. w \in Nat /\ last \in Nat /\ SettledMark(t2, o2, d, u)' \in Nat
    BY <1>1, WeightNat, MarksNat
  <2>2. last2 \in Nat /\ last <= last2
    <3>1. CASE t2 # t \/ o2 # o
      BY <1>6, <2>1, <3>1
    <3>2. CASE t2 = t /\ o2 = o
      <4>1. first[id][u] <= totalBalances[id] /\ totalBalances[id] \in Nat
        BY <1>1, <1>4, CounterTokens DEF MarketInv, NoCounterWrap, Uint
      <4>2. QED
        BY <1>7, <2>1, <3>2, <4>1
    <3>3. QED
      BY <3>1, <3>2
  <2>3. SettledMark(t2, o2, d, u) = IF userUsedRedeemMap[u][d] THEN w * last ELSE 0
    BY DEF SettledMark
  <2>4. SettledMark(t2, o2, d, u)' = IF userUsedRedeemMap'[u][d] THEN w * last2 ELSE 0
    BY <1>8 DEF SettledMark
  <2>5. userUsedRedeemMap[u][d] => userUsedRedeemMap'[u][d]
    BY <1>9
  <2> HIDE DEF w, last, last2
  <2>6. w * last <= w * last2
    BY <2>1, <2>2, ProductDifference
  <2>7. QED
    BY <2>1, <2>3, <2>4, <2>5, <2>6
<1>11. UnfinishedUnpaid'
  <2>1. ASSUME NEW t2 \in Collateral, NEW o2 \in Oracle, ~oracleFinishedMap'[o2]
        PROVE  /\ paid'[t2][o2]["first"] = 0
               /\ \A u \in Account : first'[perOracleId[t2][o2]][u] = 0
    <3>1. ~oracleFinishedMap[o2] /\ o2 # o
      BY <1>3, <2>1 DEF resultVars
    <3>2. /\ paid[t2][o2]["first"] = 0
          /\ \A u \in Account : first[perOracleId[t2][o2]][u] = 0
      BY <3>1 DEF Inv, UnfinishedUnpaid
    <3>3. QED
      BY <1>6, <3>1, <3>2
  <2>2. QED
    BY <2>1 DEF UnfinishedUnpaid
<1>12. ASSUME NEW t2 \in Collateral, NEW o2 \in Oracle
       PROVE  PaidIsSettled(t2, o2)'
  <2>1. PaidIsSettled(t2, o2)
    BY DEF Inv
  <2>2. CASE paid'[t2][o2] = paid[t2][o2]
    BY <1>1, <1>3, <1>10, <2>1, <2>2, PaidStaysSettled DEF resultVars
  <2>3. CASE t2 = t /\ o2 = o /\ owing # 0 /\ NoCounterScored(o)
    <3> DEFINE w == Weight(o, c, sender)
               total == totalBalances[id]
               last == first[id][sender]
               gain == w * (total - last)
               f == Settled(t, o)
               f2 == Settled(t, o)'
               delta == [d \in Condition |-> [u \in Account |->
                           IF d = c /\ u = sender THEN gain ELSE 0]]
               sum == [d \in Condition |-> [u \in Account |-> f[d][u] + delta[d][u]]]
    <3>1. /\ total \in Nat
          /\ last <= total
          /\ owing * FixedOne <= gain
      BY <1>1, <1>3, <1>4, OwingCovered DEF owing
    <3>2. c \in Condition
      <4>1. CASE c \in CounterIds
        <5>1. w = 0
          BY <1>1, <1>4, <2>3, <4>1, CounterWeightless
        <5>2. last \in Nat
          BY <1>1, <1>4, CounterTokens DEF MarketTypeOK, LockTypeOK, Uint
        <5> HIDE DEF w, total, last
        <5>3. gain = 0
          BY <3>1, <5>1, <5>2
        <5>4. owing = 0
          BY <1>3, <1>4, <3>1, <5>3
        <5>5. QED
          BY <2>3, <5>4
      <4>2. QED
        BY <1>4, <4>1 DEF TokenId
    <3>3. w \in Nat /\ last \in Nat
      BY <1>1, <1>4, <3>2, WeightNat
    <3>4. /\ w * last \in Nat
          /\ gain \in Nat
          /\ w * last + gain = w * total
      <4> HIDE DEF w, last, total
      <4>1. QED
        BY <3>1, <3>3, ProductDifference
    <3>5. \A d \in Condition, u \in Account :
            /\ f[d][u] = SettledMark(t, o, d, u)
            /\ f2[d][u] = SettledMark(t, o, d, u)'
            /\ f[d][u] \in Nat
            /\ f2[d][u] \in Nat
            /\ f[d][u] <= f2[d][u]
      BY <1>1, <1>10, MarksNat DEF Settled
    <3>6. f[c][sender] \in {0, w * last} /\ f2[c][sender] = w * total
      <4>1. SettledMark(t, o, c, sender) \in {0, w * last}
        BY DEF SettledMark
      <4>2. SettledMark(t, o, c, sender)' = w * total
        BY <1>4, <1>7, <1>8, <1>9, <2>3, <3>2 DEF SettledMark
      <4> HIDE DEF f, f2
      <4>3. QED
        BY <1>4, <3>5, <3>2, <4>1, <4>2
    <3> HIDE DEF f, f2, w, total, last, gain
    <3>7. \A d \in Condition, u \in Account :
            /\ delta[d][u] \in Nat
            /\ sum[d][u] = f[d][u] + delta[d][u]
            /\ delta[d][u] = IF d = c /\ u = sender THEN gain ELSE 0
      BY <3>4
    <3> HIDE DEF delta, sum
    <3>8. \A d \in Condition, u \in Account :
            sum[d][u] \in Nat /\ f2[d][u] \in Nat /\ sum[d][u] <= f2[d][u]
      <4>1. ASSUME NEW d \in Condition, NEW u \in Account, d # c \/ u # sender
            PROVE  sum[d][u] <= f2[d][u]
        BY <3>5, <3>7, <4>1
      <4>2. sum[c][sender] <= f2[c][sender]
        BY <1>4, <3>4, <3>5, <3>6, <3>7, <3>2
      <4>3. QED
        BY <3>5, <3>7, <4>1, <4>2
    <3>9. DoubleSum(sum) = DoubleSum(f) + DoubleSum(delta)
      BY <3>5, <3>7, DoubleAdd
    <3>10. DoubleSum(sum) <= DoubleSum(f2) /\ DoubleSum(f2) \in Nat
      BY <3>8, DoubleMonotone
    <3>11. gain <= DoubleSum(delta)
      <4>1. delta[c][sender] = gain
        BY <1>4, <3>7, <3>2
      <4>2. delta[c][sender] <= DoubleSum(delta)
        BY <1>4, <3>7, <3>2, DoubleTerm
      <4>3. QED
        BY <4>1, <4>2
    <3>12. DoubleSum(f) \in Nat /\ DoubleSum(delta) \in Nat
      <4>1. \A d \in Condition, u \in Account : f[d][u] <= f[d][u] /\ delta[d][u] <= delta[d][u]
        BY <3>5, <3>7
      <4>2. QED
        BY <3>5, <3>7, <4>1, DoubleMonotone
    <3>13. paid[t][o]["first"] * FixedOne <= DoubleSum(f)
      BY <2>1, <2>3 DEF PaidIsSettled, f
    <3>14. paid'[t][o]["first"] = paid[t][o]["first"] + owing /\ paid[t][o]["first"] \in Nat
      BY <1>3, <1>5
    <3> DEFINE before == paid[t][o]["first"]
    <3>15. (before + owing) * FixedOne = before * FixedOne + owing * FixedOne
      BY <1>3, <1>4, <3>14
    <3>16. before * FixedOne \in Nat /\ owing * FixedOne \in Nat
      BY <1>3, <1>4, <3>14
    <3> HIDE DEF before
    <3>17. (before + owing) * FixedOne <= DoubleSum(f2)
      BY <3>1, <3>4, <3>9, <3>10, <3>11, <3>12, <3>13, <3>15, <3>16 DEF before
    <3>18. paid'[t][o]["first"] * FixedOne <= DoubleSum(f2)
      BY <3>14, <3>17 DEF before
    <3>19. QED
      BY <2>3, <3>18 DEF PaidIsSettled, f2, DoubleSum
  <2>4. CASE t2 = t /\ o2 = o /\ owing = 0
    <3>1. paid'[t][o] = paid[t][o]
      BY <1>3, <1>5, <2>4
    <3>2. QED
      BY <2>2, <2>4, <3>1
  <2>5. CASE ~NoCounterScored(o2)
    BY <1>3, <2>5 DEF PaidIsSettled, NoCounterScored, resultVars
  <2>6. QED
    BY <1>6, <2>2, <2>3, <2>4, <2>5
<1>13. TotalsAreSums' /\ UnregisteredEmpty'
  BY <1>3 DEF Inv, TotalsAreSums, UnregisteredEmpty, tokenVars, conditionVars
<1>14. QED
  BY <1>1, <1>11, <1>12, <1>13 DEF Inv

\* A registration gives tokens of a condition that had none.
LEMMA RegisterStep ==
  ASSUME Inv, NEW customer \in Customers, NEW o \in Oracle, RegisterCustomer(customer, o)
  PROVE  /\ Inv'
         /\ ResultsFrozen
         /\ \A d \in TokenId, u \in Account : balances'[d][u] >= balances[d][u]
<1> DEFINE c == maxConditionId + 1
           value == InitialCustomerBalance
<1>1. /\ MarketInv /\ MarketTypeOK
      /\ balances \in TokenMap
      /\ totalBalances \in [TokenId -> Uint]
      /\ SumsOf(balances, totalBalances)
      /\ maxConditionId \in 0 .. MaxCondition
  BY InvTypes
<1>2. /\ c \in Condition
      /\ customer # Null
      /\ totalBalances[c] + value <= MaxUint
      /\ maxConditionId' = c
      /\ conditionOwners' = [conditionOwners EXCEPT ![c] = customer]
      /\ balances' = MintedBalances(balances, customer, c, value)
      /\ totalBalances' = MintedTotals(totalBalances, c, value)
      /\ UNCHANGED <<operatorApprovals, oracleVars, userUsedRedeemMap, roundVars,
                     blockTimestamp, collateralVars, resultVars>>
  BY DEF RegisterCustomer, CanMint
<1>3. /\ customer \in Account
      /\ c \in TokenId
      /\ value \in Nat
      /\ c = maxConditionId + 1
      /\ maxConditionId \in Nat
      /\ \A d \in Condition : d \in Nat
  BY <1>1, <1>2, LockAssumption, BidOnAddressesAssumption, CounterTokens
  DEF Uint, Condition
<1> HIDE DEF c
<1>4. /\ balances' \in TokenMap
      /\ totalBalances' \in [TokenId -> Uint]
      /\ \A i \in TokenId : i # c => totalBalances'[i] = totalBalances[i]
                                     /\ balances'[i] = balances[i]
  BY <1>1, <1>2, <1>3, MintType
<1>5. /\ SumsOf(balances', totalBalances')
      /\ \A i \in TokenId, u \in Account : balances'[i][u] >= balances[i][u]
  BY <1>1, <1>2, <1>3, MintKeepsSums
<1>6. MarketTypeOK'
  BY <1>1, <1>2, <1>4
  DEF MarketTypeOK, TokenTypeOK, TokenMap, LockTypeOK, CollateralTypeOK, ResultTypeOK,
      oracleVars, roundVars, collateralVars, resultVars
<1>7. MarketInv'
  <2>1. \A id \in CounterIds : totalBalances'[id] = totalBalances[id]
    BY <1>2, <1>4, CounterTokens
  <2>2. UNCHANGED <<roundVars, paid, payoutNumeratorsMap, payoutDenominatorMap>>
    BY <1>2 DEF collateralVars, resultVars
  <2>3. QED
    BY <1>1, <1>6, <2>1, <2>2, MarketFrame
<1>8. OwnersOK'
  <2>1. c \in 0 .. MaxCondition
    BY <1>2 DEF Condition
  <2>2. \A d \in Condition : conditionOwners'[d] # Null <=> d <= c
    BY <1>2, <1>3 DEF Inv, OwnersOK
  <2>3. conditionOwners' \in [Condition -> Account]
    BY <1>2, <1>3 DEF Inv, OwnersOK
  <2>4. QED
    BY <1>2, <2>1, <2>2, <2>3 DEF Inv, OwnersOK, oracleVars
<1>9. TotalsAreSums'
  BY <1>5 DEF SumsOf, TotalsAreSums
<1>10. UnregisteredEmpty'
  BY <1>2, <1>3, <1>4, CounterTokens DEF Inv, UnregisteredEmpty
<1>11. ASSUME NEW t \in Collateral, NEW p \in Oracle, NEW d \in Condition,
              NEW u \in Account
       PROVE  SettledMark(t, p, d, u) <= SettledMark(t, p, d, u)'
  <2>1. CASE d # c
    BY <1>1, <1>2, <1>4, <2>1, CounterTokens, SameMark DEF roundVars, resultVars
  <2>2. CASE d = c
    <3>1. totalBalances[d] = 0
      BY <1>2, <1>3, <2>2 DEF Inv, UnregisteredEmpty
    <3>2. /\ lastCollateralBalanceFirstRoundMap[perOracleId[t][p]][u] \in Nat
          /\ SettledMark(t, p, d, u)' \in Nat
      BY <1>1, <1>6, WeightNat, MarksNat
    <3>3. SettledMark(t, p, d, u) = 0
      BY <3>1, <3>2 DEF SettledMark, Weight
    <3>4. QED
      BY <3>2, <3>3
  <2>3. QED
    BY <2>1, <2>2
<1>12. ResultsFrozen
  BY <1>2 DEF ResultsFrozen, resultVars
<1>13. Inv'
  BY <1>2, <1>7, <1>8, <1>9, <1>10, <1>11, <1>12, UnpaidStep
  DEF roundVars, collateralVars, resultVars
<1>14. QED
  BY <1>5, <1>12, <1>13

\* A transfer, of one item or of several, takes no token that was redeemed.
LEMMA TransferStep ==
  ASSUME Inv, balances' \in TokenMap,
         \A i \in TokenId : SumOver(balances'[i], Account) = SumOver(balances[i], Account),
         \A d \in TokenId, u \in Account :
           userUsedRedeemMap[u][d] => balances'[d][u] >= balances[d][u],
         UNCHANGED <<totalBalances, operatorApprovals, oracleVars, conditionVars,
                     userUsedRedeemMap, roundVars, blockTimestamp, collateralVars,
                     resultVars>>
  PROVE  Inv' /\ ResultsFrozen
<1>1. /\ MarketInv /\ MarketTypeOK
      /\ balances \in TokenMap
  BY InvTypes
<1>2. MarketTypeOK'
  BY <1>1
  DEF MarketTypeOK, TokenTypeOK, TokenMap, LockTypeOK, CollateralTypeOK, ResultTypeOK,
      oracleVars, roundVars, collateralVars, resultVars
<1>3. MarketInv'
  BY <1>1, <1>2, MarketFrame DEF collateralVars, resultVars
<1>4. OwnersOK' /\ UnregisteredEmpty' /\ TotalsAreSums'
  BY DEF Inv, OwnersOK, UnregisteredEmpty, TotalsAreSums, oracleVars, conditionVars
<1>5. ASSUME NEW t \in Collateral, NEW o \in Oracle, NEW c \in Condition, NEW u \in Account
      PROVE  SettledMark(t, o, c, u) <= SettledMark(t, o, c, u)'
  <2> DEFINE last == lastCollateralBalanceFirstRoundMap[perOracleId[t][o]][u]
             w == Weight(o, c, u)
             w2 == Weight(o, c, u)'
  <2>1. last \in Nat /\ w \in Nat /\ w2 \in Nat
    BY <1>1, <1>2, WeightNat, MarksNat
  <2>2. CASE ~userUsedRedeemMap[u][c]
    BY <2>2 DEF SettledMark
  <2>3. CASE userUsedRedeemMap[u][c]
    <3>1. balances[c][u] \in Int /\ balances'[c][u] \in Int
      BY <1>1, CounterTokens DEF TokenMap, Uint
    <3>2. balances[c][u] <= balances'[c][u]
      BY <2>3, <3>1, CounterTokens
    <3>3. w <= w2
      BY <1>1, <1>2, <3>2, WeightGrows DEF resultVars
    <3>4. SettledMark(t, o, c, u) = w * last /\ SettledMark(t, o, c, u)' = w2 * last
      BY <2>3 DEF SettledMark, roundVars
    <3> HIDE DEF w, w2, last
    <3>5. QED
      BY <2>1, <3>3, <3>4, ProductMonotone
  <2>4. QED
    BY <2>2, <2>3
<1>6. ResultsFrozen
  BY DEF ResultsFrozen, resultVars
<1>7. Inv'
  BY <1>3, <1>4, <1>5, <1>6, UnpaidStep DEF roundVars, collateralVars, resultVars
<1>8. QED
  BY <1>6, <1>7

\* A transfer of one token or of two.
LEMMA TransfersStep ==
  ASSUME Inv, NEW sender \in Users, NEW from \in Users, NEW to \in Users \union {This},
         NEW item1 \in Items, NEW item2 \in Items,
         \/ Transfer(sender, from, to, item1)
         \/ BatchTransfer(sender, from, to, item1, item2)
  PROVE  /\ Inv'
         /\ ResultsFrozen
         /\ \A d \in TokenId, u \in Account :
              userUsedRedeemMap[u][d] => balances'[d][u] >= balances[d][u]
<1> DEFINE b1 == MovedBalances(balances, from, to, item1.id, item1.value)
           b2 == MovedBalances(b1, from, to, item2.id, item2.value)
<1>1. /\ from \in Account
      /\ to \in Account
      /\ item1.id \in TokenId /\ item1.value \in Nat
      /\ item2.id \in TokenId /\ item2.value \in Nat
  BY LockAssumption DEF Account, Items
<1>2. balances \in TokenMap
  BY InvTypes
<1>3. /\ CanMove(balances, from, to, item1.id, item1.value)
      /\ TransferAllowed(item1.id, from)
      /\ UNCHANGED <<totalBalances, operatorApprovals, oracleVars, conditionVars,
                     userUsedRedeemMap, roundVars, blockTimestamp, collateralVars,
                     resultVars>>
      /\ \/ balances' = b1
         \/ /\ CanMove(b1, from, to, item2.id, item2.value)
            /\ TransferAllowed(item2.id, from)
            /\ balances' = b2
  BY DEF Transfer, SafeTransferFrom, BatchTransfer, SafeBatchTransferFrom, CanTransfer
<1>4. /\ b1 \in TokenMap
      /\ \A i \in TokenId : SumOver(b1[i], Account) = SumOver(balances[i], Account)
      /\ \A i \in TokenId, a \in Account :
           i # item1.id \/ a # from => b1[i][a] >= balances[i][a]
  BY <1>1, <1>2, <1>3, MovedBalancesType, MoveKeepsSums
<1>5. \A d \in TokenId, u \in Account :
        userUsedRedeemMap[u][d] => b1[d][u] >= balances[d][u]
  BY <1>3, <1>4, CounterTokens DEF TransferAllowed
<1> HIDE DEF b1
<1>6. CASE balances' = b1
  BY <1>3, <1>4, <1>5, <1>6, TransferStep
<1>7. CASE balances' = b2 /\ CanMove(b1, from, to, item2.id, item2.value)
           /\ TransferAllowed(item2.id, from)
  <2>1. /\ b2 \in TokenMap
        /\ \A i \in TokenId : SumOver(b2[i], Account) = SumOver(b1[i], Account)
        /\ \A i \in TokenId, a \in Account :
             i # item2.id \/ a # from => b2[i][a] >= b1[i][a]
    BY <1>1, <1>4, <1>7, MovedBalancesType, MoveKeepsSums
  <2> HIDE DEF b2
  <2>2. \A i \in TokenId, a \in Account :
          balances[i][a] \in Int /\ b1[i][a] \in Int /\ b2[i][a] \in Int
    BY <1>2, <1>4, <2>1 DEF TokenMap, Uint
  <2>3. \A d \in TokenId, u \in Account :
          userUsedRedeemMap[u][d] => b2[d][u] >= b1[d][u]
    BY <1>7, <2>1, CounterTokens DEF TransferAllowed
  <2>4. \A d \in TokenId, u \in Account :
          userUsedRedeemMap[u][d] => b2[d][u] >= balances[d][u]
    <3>1. ASSUME NEW d \in TokenId, NEW u \in Account, userUsedRedeemMap[u][d]
          PROVE  b2[d][u] >= balances[d][u]
      BY <1>5, <2>2, <2>3, <3>1, CounterTokens
    <3>2. QED
      BY <3>1
  <2>5. \A i \in TokenId : SumOver(b2[i], Account) = SumOver(balances[i], Account)
    BY <1>4, <2>1
  <2>6. QED
    BY <1>3, <1>7, <2>1, <2>4, <2>5, TransferStep
<1>8. QED
  BY <1>3, <1>6, <1>7

\* The market starts in its invariant.
LEMMA InitInv == Init => Inv
<1> SUFFICES ASSUME Init PROVE Inv
  OBVIOUS
<1>1. MarketInv /\ MarketTypeOK
  BY MarketInit DEF Init, MarketInv
<1> USE DEF Init, BidInit, LockInit, TokenInit
<1>2. OwnersOK
  <2>1. 0 \in 0 .. MaxCondition /\ Null \in Account
    BY TokenAssumption DEF Account
  <2>2. \A c \in Condition : ~(c <= 0)
    BY DEF Condition
  <2>3. \A o \in Oracle : o \notin 1 .. 0
    OBVIOUS
  <2>4. QED
    BY <2>1, <2>2, <2>3 DEF OwnersOK
<1>3. TotalsAreSums
  <2>1. ASSUME NEW id \in TokenId PROVE SumOver(balances[id], Account) = 0
    BY FiniteSets, SumZero
  <2>2. QED
    BY <2>1 DEF TotalsAreSums
<1>4. UnregisteredEmpty /\ UnfinishedUnpaid
  BY CounterTokens DEF UnregisteredEmpty, UnfinishedUnpaid
<1>5. ASSUME NEW t \in Collateral, NEW o \in Oracle PROVE PaidIsSettled(t, o)
  <2> DEFINE f == Settled(t, o)
  <2>1. \A c \in Condition, u \in Account : f[c][u] \in Nat /\ f[c][u] <= f[c][u]
    BY <1>1, WeightNat DEF Settled
  <2> HIDE DEF f
  <2>2. DoubleSum(f) \in Nat
    BY <2>1, DoubleMonotone
  <2>3. paid[t][o]["first"] * FixedOne = 0
    BY LockAssumption
  <2>4. QED
    BY <2>2, <2>3 DEF PaidIsSettled, f
<1>6. QED
  BY <1>1, <1>2, <1>3, <1>4, <1>5 DEF Inv

\* Every transaction keeps the invariant, results that are final, and the
\* tokens that were redeemed.
LEMMA NextSteps ==
  ASSUME Inv, [Next]_bidVars
  PROVE  /\ Inv'
         /\ ResultsFrozen
         /\ \A u \in Account, c \in TokenId :
              userUsedRedeemMap[u][c] => balances'[c][u] >= balances[c][u]
<1>1. \A u \in Account, c \in TokenId : balances[c][u] >= balances[c][u]
  BY InvTypes, CounterTokens DEF TokenMap, Uint
<1>2. CASE UNCHANGED bidVars
  <2> USE <1>2 DEF bidVars, lockVars, resultVars, collateralVars, tokenVars
  <2>1. Inv'
    BY InvTypes, TransferStep, <1>1
  <2>2. QED
    BY <1>1, <2>1 DEF ResultsFrozen
<1>3. CASE BidNext
  <2>1. MarketQuiet \/ MarketDonates \/ MarketReports \/ MarketWithdraws
    BY <1>3, MarketSteps, InvTypes
  <2>2. Inv'
    BY <1>3, <2>1, QuietStep, DonatesStep, ReportsStep, WithdrawsStep
  <2>3. ResultsFrozen
    BY <1>3, InvTypes, MarketKeepsResults
  <2>4. MarketDonates \/ UNCHANGED balances
    BY <2>1 DEF MarketQuiet, MarketReports, MarketWithdraws, Withdraw, WithdrawCollateral,
                lockVars, tokenVars
  <2>5. \A c \in TokenId, u \in Account : balances'[c][u] >= balances[c][u]
    BY <1>1, <1>3, <2>4, DonatesStep
  <2>6. QED
    BY <2>2, <2>3, <2>5
<1>4. ASSUME NEW customer \in Customers, NEW o \in Oracle, RegisterCustomer(customer, o)
      PROVE  /\ Inv'
             /\ ResultsFrozen
             /\ \A d \in TokenId, u \in Account : balances'[d][u] >= balances[d][u]
  BY <1>4, RegisterStep
<1>5. ASSUME NEW sender \in Users, NEW from \in Users, NEW to \in Users \union {This},
             NEW item1 \in Items, NEW item2 \in Items,
             \/ Transfer(sender, from, to, item1)
             \/ BatchTransfer(sender, from, to, item1, item2)
      PROVE  /\ Inv'
             /\ ResultsFrozen
             /\ \A d \in TokenId, u \in Account :
                  userUsedRedeemMap[u][d] => balances'[d][u] >= balances[d][u]
  BY <1>5, TransfersStep
<1>6. QED
  BY <1>2, <1>3, <1>4, <1>5 DEF Next

-----------------------------------------------------------------------------
(***************************************************************************)
(* Entitlements                                                            *)
(***************************************************************************)

\* The parts of a whole, rounded down, are together no more than one.
LEMMA PartsOfOne ==
  ASSUME NEW S, IsFiniteSet(S), NEW f, \A x \in S : f[x] \in Nat,
         SumOver(f, S) # 0, NEW g, \A x \in S : g[x] = Divu(f[x], SumOver(f, S))
  PROVE  /\ \A x \in S : g[x] \in Nat
         /\ SumOver(g, S) \in Nat
         /\ SumOver(g, S) <= FixedOne
<1> DEFINE total == SumOver(f, S)
           h == [x \in S |-> g[x] * total]
           h2 == [x \in S |-> f[x] * FixedOne]
<1>1. total \in Nat \ {0} /\ FixedOne \in Nat \ {0} /\ total \in Int /\ FixedOne \in Int
  BY SumType, LockAssumption
<1> HIDE DEF total
<1>2. ASSUME NEW x \in S
      PROVE  /\ f[x] * FixedOne \in Nat
             /\ g[x] \in Nat
             /\ g[x] * total \in Nat
             /\ g[x] * total <= f[x] * FixedOne
  <2>1. f[x] * FixedOne \in Nat
    BY <1>1
  <2>2. g[x] = (f[x] * FixedOne) \div total
    BY DEF Divu, total
  <2>3. g[x] \in Nat /\ g[x] * total <= f[x] * FixedOne
    BY <1>1, <2>1, <2>2, QuotientBound
  <2>4. QED
    BY <1>1, <2>1, <2>3
<1>3. \A x \in S : /\ h[x] = g[x] * total
                   /\ h2[x] = f[x] * FixedOne
                   /\ h[x] \in Int
                   /\ h2[x] \in Int
                   /\ h[x] <= h2[x]
  BY <1>2
<1> HIDE DEF h, h2
<1>4. SumOver(h, S) <= SumOver(h2, S)
  BY <1>3, SumMonotone
<1>5. SumOver(h, S) = SumOver(g, S) * total
  BY <1>1, <1>2, <1>3, SumScale
<1>6. SumOver(h2, S) = total * FixedOne
  <2>1. \A x \in S : f[x] \in Int
    OBVIOUS
  <2>2. SumOver(h2, S) = SumOver(f, S) * FixedOne
    BY <1>1, <1>3, <2>1, SumScale
  <2>3. QED
    BY <2>2 DEF total
<1>7. SumOver(g, S) \in Nat
  BY <1>2, SumType
<1>8. total * FixedOne = FixedOne * total
  BY <1>1
<1>9. SumOver(g, S) * total <= FixedOne * total
  BY <1>4, <1>5, <1>6, <1>8
<1>10. SumOver(g, S) <= FixedOne
  BY <1>1, <1>7, <1>9, FactorCancel
<1>11. QED
  BY <1>2, <1>7, <1>10

\* The parts of a share are together no more than the share.
LEMMA PartsOfShare ==
  ASSUME NEW S, IsFiniteSet(S), NEW f, \A x \in S : f[x] \in Nat,
         SumOver(f, S) <= FixedOne, NEW share \in Nat,
         NEW g, \A x \in S : g[x] = Mul(f[x], share)
  PROVE  SumOver(g, S) \in Nat /\ SumOver(g, S) <= share
<1> DEFINE h == [x \in S |-> g[x] * FixedOne]
           h2 == [x \in S |-> f[x] * share]
<1>1. FixedOne \in Nat \ {0} /\ FixedOne \in Int /\ share \in Int
  BY LockAssumption
<1>2. ASSUME NEW x \in S
      PROVE  /\ f[x] * share \in Nat
             /\ g[x] \in Nat
             /\ g[x] * FixedOne \in Nat
             /\ g[x] * FixedOne <= f[x] * share
  <2>1. f[x] * share \in Nat
    OBVIOUS
  <2>2. g[x] = (f[x] * share) \div FixedOne
    BY DEF Mul
  <2>3. g[x] \in Nat /\ g[x] * FixedOne <= f[x] * share
    BY <1>1, <2>1, <2>2, QuotientBound
  <2>4. QED
    BY <1>1, <2>1, <2>3
<1>3. \A x \in S : /\ h[x] = g[x] * FixedOne
                   /\ h2[x] = f[x] * share
                   /\ h[x] \in Int
                   /\ h2[x] \in Int
                   /\ h[x] <= h2[x]
  BY <1>2
<1> HIDE DEF h, h2
<1>4. SumOver(h, S) <= SumOver(h2, S)
  BY <1>3, SumMonotone
<1>5. SumOver(h, S) = SumOver(g, S) * FixedOne
  BY <1>1, <1>2, <1>3, SumScale
<1>6. SumOver(h2, S) = SumOver(f, S) * share
  BY <1>1, <1>3, SumScale
<1>7. SumOver(g, S) \in Nat /\ SumOver(f, S) \in Nat
  BY <1>2, SumType
<1>8. /\ SumOver(f, S) * share \in Nat
      /\ FixedOne * share \in Nat
      /\ SumOver(f, S) * share <= FixedOne * share
  BY <1>1, <1>7, ProductMonotone
<1>9. FixedOne * share = share * FixedOne /\ SumOver(g, S) * FixedOne \in Nat
  BY <1>1, <1>7
<1>10. SumOver(g, S) * FixedOne <= share * FixedOne
  BY <1>4, <1>5, <1>6, <1>8, <1>9
<1>11. SumOver(g, S) <= share
  BY <1>1, <1>7, <1>10, FactorCancel
<1>12. QED
  BY <1>7, <1>11

Weights(o) == [c \in Condition |-> [u \in Account |-> Weight(o, c, u)]]

\* A sum over all tokens to which no counter of donations contributes.
LEMMA SumOverConditions ==
  ASSUME NEW f, \A id \in TokenId : f[id] \in Int, \A id \in CounterIds : f[id] = 0
  PROVE  SumOver(f, TokenId) = SumOver(f, Condition)
<1>1. Condition \in SUBSET TokenId
  BY CounterTokens
<1>2. \A id \in TokenId : f[id] = IF id \in Condition THEN f[id] ELSE 0
  BY DEF TokenId
<1>3. QED
  BY <1>1, <1>2, FiniteSets, SumPart

\* All tokens of all conditions together stand for no more than what was
\* donated.
LEMMA WeightsOfOne ==
  ASSUME Inv, NEW o \in Oracle, NoCounterScored(o)
  PROVE  DoubleSum(Weights(o)) \in Nat /\ DoubleSum(Weights(o)) <= FixedOne
<1> DEFINE sums == [c \in Condition |-> SumOver(Weights(o)[c], Account)]
           shares == [c \in Condition |-> RewardShare(o, c)]
           numerators == payoutNumeratorsMap[o]
<1>1. MarketTypeOK /\ FixedOne \in Nat
  BY InvTypes, LockAssumption
<1>2. \A c \in Condition, u \in Account :
        Weights(o)[c][u] = Weight(o, c, u) /\ Weights(o)[c][u] \in Nat
  BY <1>1, CounterTokens, WeightOnlyNat DEF Weights
<1>3. \A c \in TokenId : numerators[c] \in Nat
  BY <1>1 DEF MarketTypeOK, ResultTypeOK, Uint
<1>4. payoutDenominatorMap[o] = SumOver(numerators, Condition)
  <2>1. payoutDenominatorMap[o] = SumOver(numerators, TokenId)
    BY InvTypes DEF MarketInv, DenominatorIsSum
  <2>2. \A id \in CounterIds : numerators[id] = 0
    BY DEF NoCounterScored
  <2> HIDE DEF numerators
  <2>3. SumOver(numerators, TokenId) = SumOver(numerators, Condition)
    BY <1>3, <2>2, SumOverConditions
  <2>4. QED
    BY <2>1, <2>3
<1>5. CASE payoutDenominatorMap[o] = 0
  <2>1. \A c \in Condition, u \in Account : Weights(o)[c][u] = 0
    BY <1>2, <1>5 DEF Weight
  <2>2. \A c \in Condition : sums[c] = 0
    BY <2>1, FiniteSets, SumZero
  <2> HIDE DEF sums
  <2>3. SumOver(sums, Condition) = 0
    BY <2>2, FiniteSets, SumZero
  <2>4. QED
    BY <1>1, <2>3 DEF DoubleSum, sums
<1>6. CASE payoutDenominatorMap[o] # 0
  <2>1. \A c \in Condition : shares[c] = Divu(numerators[c], SumOver(numerators, Condition))
    BY <1>4 DEF RewardShare
  <2>2. \A c \in Condition : shares[c] = RewardShare(o, c)
    OBVIOUS
  <2> HIDE DEF numerators, shares
  <2>3. /\ \A c \in Condition : shares[c] \in Nat
        /\ SumOver(shares, Condition) \in Nat
        /\ SumOver(shares, Condition) <= FixedOne
    BY <1>3, <1>4, <1>6, <2>1, CounterTokens, FiniteSets, PartsOfOne
  <2>4. ASSUME NEW c \in Condition
        PROVE  sums[c] \in Nat /\ sums[c] <= shares[c]
    <3> DEFINE w == Weights(o)[c]
    <3>1. sums[c] = SumOver(w, Account)
      OBVIOUS
    <3>2. CASE totalBalances[c] = 0
      <4>1. \A u \in Account : w[u] = 0
        BY <1>2, <3>2 DEF Weight
      <4> HIDE DEF w
      <4>2. SumOver(w, Account) = 0
        BY <4>1, FiniteSets, SumZero
      <4>3. QED
        BY <2>3, <3>1, <4>2
    <3>3. CASE totalBalances[c] # 0
      <4> DEFINE b == balances[c]
                 own == [u \in Account |-> Divu(b[u], SumOver(b, Account))]
      <4>1. \A u \in Account : b[u] \in Nat
        BY <1>1, CounterTokens DEF MarketTypeOK, TokenTypeOK, Uint
      <4>2. totalBalances[c] = SumOver(b, Account)
        BY CounterTokens DEF Inv, TotalsAreSums
      <4>3. \A u \in Account : own[u] = Divu(b[u], SumOver(b, Account))
        OBVIOUS
      <4>4. \A u \in Account : w[u] = Mul(own[u], shares[c])
        BY <1>2, <1>6, <2>2, <3>3, <4>2 DEF Weight
      <4> HIDE DEF b, own, w
      <4>5. /\ \A u \in Account : own[u] \in Nat
            /\ SumOver(own, Account) <= FixedOne
        BY <3>3, <4>1, <4>2, <4>3, FiniteSets, PartsOfOne
      <4>6. shares[c] \in Nat
        BY <2>3
      <4>7. SumOver(w, Account) \in Nat /\ SumOver(w, Account) <= shares[c]
        BY <4>4, <4>5, <4>6, FiniteSets, PartsOfShare
      <4>8. QED
        BY <3>1, <4>7
    <3>4. QED
      BY <3>2, <3>3
  <2> HIDE DEF sums
  <2>5. SumOver(sums, Condition) <= SumOver(shares, Condition)
    BY <2>3, <2>4, FiniteSets, SumMonotone
  <2>6. SumOver(sums, Condition) \in Nat
    BY <2>4, FiniteSets, SumType
  <2>7. SumOver(sums, Condition) <= FixedOne
    BY <1>1, <2>3, <2>5, <2>6
  <2>8. QED
    BY <2>6, <2>7 DEF DoubleSum, sums
<1>7. QED
  BY <1>5, <1>6

\* What was paid to the holder of a token and what is owed now are together no
\* more than the token's part of all the donations.
LEMMA OwedAndSettled ==
  ASSUME MarketInv, NEW t \in Collateral, NEW o \in Oracle, NEW c \in Condition,
         NEW u \in Account
  PROVE  /\ Owing(t, o, c, u) \in Nat
         /\ Owing(t, o, c, u) * FixedOne + SettledMark(t, o, c, u)
              <= Weight(o, c, u) * totalBalances[perOracleId[t][o]]
<1> DEFINE w == Weight(o, c, u)
           d == totalBalances[perOracleId[t][o]]
           last == lastCollateralBalanceFirstRoundMap[perOracleId[t][o]][u]
           owing == Owing(t, o, c, u)
           mark == SettledMark(t, o, c, u)
<1>1. MarketTypeOK /\ FixedOne \in Nat
  BY LockAssumption DEF MarketInv
<1>2. w \in Nat /\ last \in Nat /\ mark \in Nat
  BY <1>1, WeightNat
<1>3. d \in Nat
  BY <1>1, CounterTokens DEF MarketTypeOK, TokenTypeOK, Uint
<1>4. CASE totalBalances[c] = 0 \/ payoutDenominatorMap[o] = 0
  <2>1. w = 0 /\ owing = 0
    BY <1>4 DEF Weight, Owing
  <2>2. mark = 0
    BY <1>2, <2>1 DEF SettledMark
  <2>3. QED
    BY <1>1, <1>3, <2>1, <2>2
<1>5. CASE totalBalances[c] # 0 /\ payoutDenominatorMap[o] # 0
  <2>1. owing = FirstRoundOwing(t, o, c, u)
    BY <1>5 DEF Owing, FirstRoundOwing
  <2>2. owing \in Nat
    <3>1. OwingDenominator(o, c, TRUE) # 0 /\ TRUE \in BOOLEAN
      BY <1>5 DEF OwingDenominator
    <3>2. QED
      BY <1>1, <1>5, <2>1, <3>1, CounterTokens, OwingNat DEF FirstRoundOwing
  <2>3. last <= d /\ owing * FixedOne <= w * (d - last)
    BY <1>5, <2>1, CounterTokens, OwingCovered
  <2>4. mark \in {0, w * last}
    BY DEF SettledMark
  <2> HIDE DEF w, d, last, owing, mark
  <2>5. w * last \in Nat /\ w * (d - last) \in Nat /\ w * last + w * (d - last) = w * d
    BY <1>2, <1>3, <2>3, ProductDifference
  <2>6. owing * FixedOne \in Nat
    BY <1>1, <2>2
  <2>7. owing * FixedOne + mark <= w * d
    BY <2>3, <2>4, <2>5, <2>6
  <2>8. QED
    BY <2>2, <2>7 DEF owing, mark, w, d
<1>6. QED
  BY <1>4, <1>5

\* Nothing is owed for a counter of donations that was given no score.
LEMMA CounterOwedNothing ==
  ASSUME MarketInv, NEW t \in Collateral, NEW o \in Oracle, NoCounterScored(o),
         NEW id \in CounterIds, NEW u \in Account
  PROVE  Owing(t, o, id, u) = 0
<1> DEFINE d == totalBalances[perOracleId[t][o]]
           last == lastCollateralBalanceFirstRoundMap[perOracleId[t][o]][u]
           owing == FirstRoundOwing(t, o, id, u)
<1>1. MarketTypeOK /\ id \in TokenId /\ FixedOne \in Nat \ {0}
  BY CounterTokens, LockAssumption DEF MarketInv
<1>2. CASE totalBalances[id] = 0 \/ payoutDenominatorMap[o] = 0
  BY <1>2 DEF Owing
<1>3. CASE totalBalances[id] # 0 /\ payoutDenominatorMap[o] # 0
  <2>1. Owing(t, o, id, u) = owing /\ owing \in Nat
    <3>1. OwingDenominator(o, id, TRUE) # 0 /\ TRUE \in BOOLEAN
      BY <1>3 DEF OwingDenominator
    <3>2. QED
      BY <1>1, <1>3, <3>1, OwingNat DEF Owing, FirstRoundOwing
  <2>2. d \in Nat /\ last \in Nat /\ owing * FixedOne <= Weight(o, id, u) * (d - last)
    BY <1>1, <1>3, OwingCovered, CounterTokens DEF MarketTypeOK, LockTypeOK, Uint
  <2>3. Weight(o, id, u) = 0
    BY <1>1, CounterWeightless
  <2> HIDE DEF owing, d, last
  <2>4. Weight(o, id, u) * (d - last) = 0
    BY <2>2, <2>3
  <2>5. owing = 0
    BY <1>1, <2>1, <2>2, <2>4
  <2>6. QED
    BY <2>1, <2>5
<1>4. QED
  BY <1>2, <1>3

\* What all users may withdraw from an oracle is owed to holders of conditions.
LEMMA EntitlementOfConditions ==
  ASSUME MarketInv, NEW t \in Collateral, NEW o \in Oracle, NoCounterScored(o)
  PROVE  /\ Entitlement(t, o) \in Nat
         /\ Entitlement(t, o)
              = SumOver([c \in Condition |->
                           SumOver([u \in Account |-> Owing(t, o, c, u)], Account)],
                        Condition)
<1> DEFINE owed(c) == [u \in Account |-> Owing(t, o, c, u)]
           all == [c \in TokenId |-> SumOver([u \in Account |-> Owing(t, o, c, u)], Account)]
           some == [c \in Condition |->
                      SumOver([u \in Account |-> Owing(t, o, c, u)], Account)]
<1>1. \A c \in Condition : some[c] \in Nat /\ all[c] = some[c]
  <2>1. ASSUME NEW c \in Condition PROVE SumOver(owed(c), Account) \in Nat
    <3>1. \A u \in Account : owed(c)[u] \in Nat
      BY OwedAndSettled
    <3> HIDE DEF owed
    <3>2. QED
      BY <3>1, FiniteSets, SumType
  <2>2. QED
    BY <2>1, CounterTokens
<1>2. \A id \in CounterIds : all[id] = 0
  <2>1. ASSUME NEW id \in CounterIds PROVE SumOver(owed(id), Account) = 0
    <3>1. \A u \in Account : owed(id)[u] = 0
      BY CounterOwedNothing
    <3> HIDE DEF owed
    <3>2. QED
      BY <3>1, FiniteSets, SumZero
  <2>2. QED
    BY <2>1, CounterTokens
<1>3. Entitlement(t, o) = SumOver(all, TokenId)
  BY DEF Entitlement
<1> HIDE DEF all, some
<1>4. SumOver(all, TokenId) = SumOver(all, Condition)
  BY <1>1, <1>2, SumOverConditions DEF TokenId
<1>5. SumOver(all, Condition) = SumOver(some, Condition)
  BY <1>1, FiniteSets, SumSame
<1>6. SumOver(some, Condition) \in Nat
  BY <1>1, FiniteSets, SumType
<1>7. QED
  BY <1>3, <1>4, <1>5, <1>6 DEF some

\* All that was withdrawn from an oracle and all that may still be withdrawn is
\* together no more than what its counter counts.
LEMMA EntitlementBounded ==
  ASSUME Inv, NEW t \in Collateral, NEW o \in Oracle, NoCounterScored(o)
  PROVE  /\ Entitlement(t, o) \in Nat
         /\ paid[t][o]["first"] + Entitlement(t, o) <= totalBalances[perOracleId[t][o]]
<1> DEFINE d == totalBalances[perOracleId[t][o]]
           one == FixedOne
           before == paid[t][o]["first"]
           settled == Settled(t, o)
           weights == Weights(o)
           owed == [c \in Condition |-> [u \in Account |-> Owing(t, o, c, u)]]
           owedOnes == [c \in Condition |-> [u \in Account |-> owed[c][u] * one]]
           both == [c \in Condition |-> [u \in Account |->
                      owedOnes[c][u] + settled[c][u]]]
           parts == [c \in Condition |-> [u \in Account |-> weights[c][u] * d]]
<1>1. /\ MarketInv
      /\ MarketTypeOK
      /\ one \in Nat \ {0}
      /\ before \in Nat
      /\ d \in Nat
  BY InvTypes, LockAssumption, CounterTokens
  DEF MarketTypeOK, TokenTypeOK, CollateralTypeOK, Uint
<1>2. ASSUME NEW c \in Condition, NEW u \in Account
      PROVE  /\ owed[c][u] \in Nat
             /\ settled[c][u] \in Nat
             /\ weights[c][u] \in Nat
             /\ owed[c][u] * one + settled[c][u] <= weights[c][u] * d
  BY <1>1, OwedAndSettled, WeightNat, CounterTokens DEF Settled, Weights
<1>3. DoubleSum(weights) \in Nat /\ DoubleSum(weights) <= one
  BY WeightsOfOne
<1>4. before * one <= DoubleSum(settled)
  BY DEF Inv, PaidIsSettled
<1>5. Entitlement(t, o) \in Nat
  BY <1>1, EntitlementOfConditions
<1>6. Entitlement(t, o) = DoubleSum(owed)
  <2>1. DoubleSum(owed)
          = SumOver([c \in Condition |->
                       SumOver([u \in Account |-> Owing(t, o, c, u)], Account)], Condition)
    BY DEF DoubleSum
  <2>2. QED
    BY <1>1, <2>1, EntitlementOfConditions
<1> HIDE DEF d, one, before, settled, weights, owed
<1>7. \A c \in Condition, u \in Account :
        /\ owedOnes[c][u] = owed[c][u] * one
        /\ both[c][u] = owedOnes[c][u] + settled[c][u]
        /\ parts[c][u] = weights[c][u] * d
  OBVIOUS
<1>8. ASSUME NEW c \in Condition, NEW u \in Account
      PROVE  /\ owedOnes[c][u] \in Nat
             /\ both[c][u] \in Nat
             /\ parts[c][u] \in Nat
             /\ both[c][u] <= parts[c][u]
  <2>1. owed[c][u] * one \in Nat /\ weights[c][u] * d \in Nat
    BY <1>1, <1>2
  <2>2. QED
    BY <1>2, <1>7, <2>1
<1> HIDE DEF owedOnes, both, parts
<1>9. DoubleSum(owedOnes) = DoubleSum(owed) * one
  BY <1>1, <1>2, <1>7, DoubleScale
<1>10. DoubleSum(both) = DoubleSum(owedOnes) + DoubleSum(settled)
  BY <1>2, <1>7, <1>8, DoubleAdd
<1>11. DoubleSum(parts) = DoubleSum(weights) * d
  BY <1>1, <1>2, <1>7, DoubleScale
<1>12. DoubleSum(both) <= DoubleSum(parts)
  BY <1>8, DoubleMonotone
<1>13. DoubleSum(owed) \in Nat /\ DoubleSum(settled) \in Nat
  <2>1. \A c \in Condition, u \in Account :
          owed[c][u] <= owed[c][u] /\ settled[c][u] <= settled[c][u]
    BY <1>2
  <2>2. QED
    BY <1>2, <2>1, DoubleMonotone
<1>14. DoubleSum(weights) * d <= one * d
  BY <1>1, <1>3, ProductMonotone
<1> DEFINE rest == DoubleSum(owed)
<1>15. /\ (before + rest) * one = before * one + rest * one
       /\ one * d = d * one
       /\ before * one \in Nat
       /\ rest * one \in Nat
       /\ d * one \in Nat
       /\ before + rest \in Nat
  <2> HIDE DEF rest
  <2>1. rest \in Nat
    BY <1>13 DEF rest
  <2>2. QED
    BY <1>1, <2>1
<1>16. before * one + rest * one <= d * one
  <2>1. DoubleSum(weights) * d \in Nat
    BY <1>1, <1>3
  <2>2. QED
    BY <1>4, <1>9, <1>10, <1>11, <1>12, <1>13, <1>14, <1>15, <2>1
<1>17. before + rest <= d
  <2> HIDE DEF rest
  <2>1. (before + rest) * one <= d * one
    BY <1>15, <1>16
  <2>2. QED
    BY <1>1, <1>15, <2>1, FactorCancel
<1>18. QED
  BY <1>5, <1>6, <1>17 DEF before, d

\* The counters of the oracles add up to the counter of the collateral, so that
\* what was received and not paid covers what may still be withdrawn.
LEMMA InvFunded == Inv => WithdrawalsFunded
<1> SUFFICES ASSUME Inv, NEW t \in Collateral, ConditionsScored, DonationsReceived(t)
             PROVE  SumOver([o \in Oracle |-> Entitlement(t, o)], Oracle) <= held[t][This]
  BY DEF WithdrawalsFunded
<1> DEFINE due == [o \in Oracle |-> Entitlement(t, o)]
           gone == [o \in Oracle |-> paid[t][o]["first"] + paid[t][o]["second"]]
           both == [o \in Oracle |-> gone[o] + due[o]]
           counted == [o \in Oracle |-> totalBalances[perOracleId[t][o]]]
<1>1. MarketInv /\ MarketTypeOK
  BY InvTypes
<1>2. ASSUME NEW o \in Oracle
      PROVE  /\ due[o] \in Nat
             /\ gone[o] \in Nat
             /\ counted[o] \in Nat
             /\ both[o] = gone[o] + due[o]
             /\ both[o] <= counted[o]
  <2>1. NoCounterScored(o)
    BY DEF ConditionsScored, NoCounterScored
  <2>2. /\ Entitlement(t, o) \in Nat
        /\ paid[t][o]["first"] + Entitlement(t, o) <= totalBalances[perOracleId[t][o]]
    BY <2>1, EntitlementBounded
  <2>3. paid[t][o]["first"] \in Nat /\ paid[t][o]["second"] = 0
    BY <1>1 DEF MarketInv, NothingInSecondRound, MarketTypeOK, CollateralTypeOK
  <2>4. totalBalances[perOracleId[t][o]] \in Nat
    BY <1>1, CounterTokens DEF MarketTypeOK, TokenTypeOK, Uint
  <2>5. QED
    BY <2>2, <2>3, <2>4
<1>3. totalBalances[donatedId[t]] = SumOver(counted, Oracle)
  BY <1>1 DEF MarketInv, PerOracleSum
<1>4. totalBalances[donatedId[t]] <= held[t][This] + SumOver(gone, Oracle)
  BY DEF DonationsReceived
<1>5. held[t][This] \in Nat
  BY <1>1 DEF MarketTypeOK, CollateralTypeOK, Account
<1> HIDE DEF due, gone, both, counted
<1>6. /\ SumOver(due, Oracle) \in Nat
      /\ SumOver(gone, Oracle) \in Nat
      /\ SumOver(counted, Oracle) \in Nat
  BY <1>2, FiniteSets, SumType
<1>7. SumOver(both, Oracle) = SumOver(gone, Oracle) + SumOver(due, Oracle)
  BY <1>2, FiniteSets, SumAdd
<1>8. SumOver(both, Oracle) <= SumOver(counted, Oracle)
  <2>1. \A o \in Oracle : both[o] \in Int /\ counted[o] \in Int /\ both[o] <= counted[o]
    BY <1>2
  <2>2. QED
    BY <2>1, FiniteSets, SumMonotone
<1>9. SumOver(due, Oracle) <= held[t][This]
  BY <1>3, <1>4, <1>5, <1>6, <1>7, <1>8
<1>10. QED
  BY <1>9 DEF due

-----------------------------------------------------------------------------
(***************************************************************************)
(* Theorems                                                                *)
(***************************************************************************)

\* The inductive invariant: what every sequence of transactions keeps.
THEOREM Invariance == Spec => []Inv
<1>1. Inv /\ [Next]_bidVars => Inv'
  BY NextSteps
<1>2. QED
  BY <1>1, InitInv, PTL DEF Spec

\* Numbers never leave the width of uint256, and owners, locks and marks refer
\* to what exists, in every state of the contract.
THEOREM TypeCorrect == Spec => []TypeOK
<1>1. Inv => TypeOK
  BY DEF Inv, MarketInv, MarketTypeOK, OwnersOK, TypeOK
<1>2. QED
  BY <1>1, Invariance, PTL

\* The total supply of every token is the sum of its balances, so that the
\* unchecked addition to a balance in _doMint never wraps around.
THEOREM TotalsMatchBalances == Spec => []TotalsAreSums
<1>1. Inv => TotalsAreSums
  BY DEF Inv
<1>2. QED
  BY <1>1, Invariance, PTL

\* Nobody is marked as paid up to more than was donated: the unchecked
\* subtraction in _collateralOwingBase never wraps around.
THEOREM MarksBehindCounters == Spec => []NoCounterWrap
<1>1. Inv => NoCounterWrap
  BY DEF Inv, MarketInv
<1>2. QED
  BY <1>1, Invariance, PTL

\* The two counters that a donation mints never disagree.
THEOREM DonationsAddUp == Spec => []PerOracleSum
<1>1. Inv => PerOracleSum
  BY DEF Inv, MarketInv
<1>2. QED
  BY <1>1, Invariance, PTL

\* The denominator is the sum of the numerators, whatever is reported, in
\* whatever batches and how often.
THEOREM ReportsAddUp == Spec => []DenominatorIsSum
<1>1. Inv => DenominatorIsSum
  BY DEF Inv, MarketInv
<1>2. QED
  BY <1>1, Invariance, PTL

\* Whatever is donated, traded and withdrawn, and in whatever order: where
\* oracles scored conditions and donations brought what they count, the
\* collateral held covers all that all users may still withdraw.
THEOREM WithdrawalsCovered == Spec => []WithdrawalsFunded
BY InvFunded, Invariance, PTL

\* Grace periods end without a second round: nothing is ever paid in it, as
\* the code counts what the first round paid in the second round only.
THEOREM SecondRoundPaysNothing == Spec => []NothingInSecondRound
<1>1. Inv => NothingInSecondRound
  BY DEF Inv, MarketInv
<1>2. QED
  BY <1>1, Invariance, PTL

\* What a user redeemed stays with the user, whatever operators or batches are
\* used to move it.
THEOREM RedeemedStay == Spec => RedeemedTokensStay
<1>1. Inv /\ [Next]_bidVars =>
        \A u \in Account, c \in TokenId :
          userUsedRedeemMap[u][c] => balances'[c][u] >= balances[c][u]
  BY NextSteps
<1>2. QED
  BY <1>1, Invariance, PTL DEF Spec, RedeemedTokensStay

\* The result of an oracle that has finished is final.
THEOREM ResultsFinal == Spec => FinishedResultsFrozen
<1>1. Inv /\ [Next]_bidVars => ResultsFrozen
  BY NextSteps
<1>2. QED
  BY <1>1, Invariance, PTL DEF Spec, FinishedResultsFrozen

=============================================================================
