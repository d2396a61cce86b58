-------------------------- MODULE BaseSalaryProofs --------------------------
(***************************************************************************)
(* What every salary contract keeps true, proved for every value of the    *)
(* constants: what transfers, registrations and recreations do to the      *)
(* storage of chains, and the inductive invariant that the theorems of     *)
(* SalaryProofs and SalaryWithDAOProofs rest on.                           *)
(***************************************************************************)
EXTENDS BaseSalary, MarketProofs

StorageType ==
  [balances : TokenMap,
   maxConditionId : 0 .. MaxCondition,
   owners : [Condition -> Account],
   receivers : [Condition -> Account],
   created : [Condition -> 0 .. blockTimestamp],
   lastSalary : [Condition -> 0 .. blockTimestamp],
   first : [Condition -> 0 .. MaxCondition],
   firstToLast : [Condition -> 0 .. MaxCondition]]

\* What ChainRoots and SalaryRate say, of any storage s, made inductive: the
\* map from first to last conditions is the identity on what exists (nothing
\* ever updates it), and what does not exist yet was never minted.  A receiver
\* that makes no calls while it is paid was minted exactly the seconds paid.
ChainOK(s, c) ==
  IF c <= s.maxConditionId
  THEN /\ s.first[c] \in 1 .. c
       /\ s.first[s.first[c]] = s.first[c]
       /\ s.receivers[c] = s.receivers[s.first[c]]
       /\ s.owners[c] = s.receivers[c]
       /\ s.firstToLast[c] = c
  ELSE /\ s.first[c] = 0
       /\ s.receivers[c] = Null
       /\ s.firstToLast[c] = 0

RateOK(s, c, totals) ==
  IF c <= s.maxConditionId /\ s.first[c] = c
  THEN /\ totals[c] >= s.lastSalary[c] - s.created[c]
       /\ s.receivers[c] \notin Reentrant => totals[c] = s.lastSalary[c] - s.created[c]
  ELSE totals[c] = 0

\* While a mintSalary waits for the hook of its receiver, the tokens that its
\* date will stand for have been minted: the hook returns to a date that is no
\* later than them.
PaidUpTo(s, c, totals) ==
  /\ c <= s.maxConditionId
  /\ s.first[c] = c
  /\ s.receivers[c] \in Reentrant
  /\ totals[c] >= blockTimestamp - s.created[c]

SuspendedOK ==
  /\ suspended \in Seq(Condition)
  /\ \A i \in 1 .. Len(suspended) : PaidUpTo(Storage, suspended[i], totalBalances)

\* The tokens of condition c in all accounts, and those of all conditions in
\* the chain of f.
Holdings(s, c) == SumOver(s.balances[c], Account)
Supply(s, f) ==
  SumOver([c \in Condition |-> IF s.first[c] = f THEN Holdings(s, c) ELSE 0], Condition)

\* Nobody holds tokens of a condition that does not exist yet: a recreation
\* overwrites what its receiver has of the new condition.
EmptyBeyond(s) == \A c \in Condition : c > s.maxConditionId => Holdings(s, c) = 0

StorageOK(s) ==
  /\ s \in StorageType
  /\ EmptyBeyond(s)
  /\ \A c \in Condition : ChainOK(s, c)
  /\ \A c \in Condition : RateOK(s, c, totalBalances)

\* From s to t no chain has gained or lost tokens.
SameSupply(s, t) == \A f \in Condition : Supply(t, f) = Supply(s, f)

\* From s to t nothing that exists has changed hands, chains or age.
Keeps(s, t) ==
  /\ s.maxConditionId <= t.maxConditionId
  /\ \A c \in Condition : c <= s.maxConditionId =>
       /\ t.receivers[c] = s.receivers[c]
       /\ t.owners[c] = s.owners[c]
       /\ t.first[c] = s.first[c]
       /\ t.created[c] = s.created[c]

-----------------------------------------------------------------------------
(***************************************************************************)
(* Holdings and supplies                                                   *)
(***************************************************************************)

\* Balances, and what they add up to, are natural numbers.
LEMMA HoldingsNat ==
  ASSUME NEW s \in StorageType, NEW c \in Condition
  PROVE  /\ \A a \in Account : s.balances[c][a] \in Nat
         /\ Holdings(s, c) \in Nat
         /\ \A a \in Account : s.balances[c][a] <= Holdings(s, c)
<1>1. \A a \in Account : s.balances[c][a] \in Nat
  BY CounterTokens DEF StorageType, TokenMap, Uint
<1>2. QED
  BY <1>1, FiniteSets, SumType, SumTerm DEF Holdings

\* So are the supplies, none of which is less than the holdings of a condition
\* in the chain.
LEMMA SupplyNat ==
  ASSUME NEW s \in StorageType, NEW f
  PROVE  /\ Supply(s, f) \in Nat
         /\ \A c \in Condition : s.first[c] = f => Holdings(s, c) <= Supply(s, f)
<1> DEFINE g == [c \in Condition |-> IF s.first[c] = f THEN Holdings(s, c) ELSE 0]
<1>1. \A c \in Condition : g[c] \in Nat
  BY HoldingsNat
<1>2. \A c \in Condition : s.first[c] = f => g[c] = Holdings(s, c)
  OBVIOUS
<1> HIDE DEF g
<1>3. SumOver(g, Condition) \in Nat /\ \A c \in Condition : g[c] <= SumOver(g, Condition)
  BY <1>1, FiniteSets, SumType, SumTerm
<1>4. QED
  BY <1>2, <1>3 DEF Supply, g

\* The supply of a chain is made of the holdings of its conditions.
LEMMA SupplyTerms ==
  ASSUME NEW s, NEW t, NEW f,
         \A c \in Condition : (IF t.first[c] = f THEN Holdings(t, c) ELSE 0)
                                = (IF s.first[c] = f THEN Holdings(s, c) ELSE 0)
  PROVE  Supply(t, f) = Supply(s, f)
<1>1. [c \in Condition |-> IF t.first[c] = f THEN Holdings(t, c) ELSE 0]
        = [c \in Condition |-> IF s.first[c] = f THEN Holdings(s, c) ELSE 0]
  OBVIOUS
<1>2. QED
  BY <1>1 DEF Supply

\* When a new condition joins the chain of c and takes over what the receiver
\* has of c, the supply of the chain stays as it is, and so do the others.
LEMMA JoinKeepsSupply ==
  ASSUME NEW s \in StorageType, NEW r \in StorageType,
         NEW c \in Condition, NEW new \in Condition, c # new, NEW customer \in Account,
         s.first[c] = c, s.first[new] = 0, Holdings(s, new) = 0,
         r.first[new] = c,
         \A d \in Condition : d # new => r.first[d] = s.first[d],
         r.balances[c][customer] = 0,
         \A a \in Account : a # customer => r.balances[c][a] = s.balances[c][a],
         r.balances[new][customer] = s.balances[c][customer],
         \A a \in Account : a # customer => r.balances[new][a] = s.balances[new][a],
         \A d \in Condition : d # c /\ d # new => r.balances[d] = s.balances[d]
  PROVE  SameSupply(s, r)
<1> DEFINE x == s.balances[c][customer]
<1>1. /\ \A a \in Account : s.balances[c][a] \in Nat
      /\ \A a \in Account : s.balances[new][a] \in Nat
      /\ s.balances[new][customer] <= Holdings(s, new)
      /\ x \in Nat
      /\ Holdings(s, c) \in Nat
  BY HoldingsNat
<1>2. s.balances[new][customer] = 0
  BY <1>1
<1> DEFINE own == s.balances[c]
           own2 == r.balances[c]
           next == s.balances[new]
           next2 == r.balances[new]
<1>3. /\ \A a \in Account : own[a] \in Int
      /\ own2[customer] = 0
      /\ \A a \in Account : a # customer => own2[a] = own[a]
  BY <1>1
<1>4. /\ \A a \in Account : next[a] \in Int
      /\ next2[customer] = x
      /\ x \in Int
      /\ \A a \in Account : a # customer => next2[a] = next[a]
  BY <1>1
<1> HIDE DEF own, own2, next, next2
<1>5. Holdings(r, c) = Holdings(s, c) - x
  <2>1. SumOver(own2, Account) = SumOver(own, Account) - own[customer] + own2[customer]
    BY <1>3, FiniteSets, SumChange
  <2>2. /\ Holdings(r, c) = SumOver(own2, Account)
        /\ Holdings(s, c) = SumOver(own, Account)
        /\ own[customer] = x
    BY DEF Holdings, own, own2
  <2> HIDE DEF x
  <2>3. QED
    BY <1>1, <1>3, <2>1, <2>2
<1>6. Holdings(r, new) = x
  <2>1. SumOver(next2, Account) = SumOver(next, Account) - next[customer] + next2[customer]
    BY <1>4, FiniteSets, SumChange
  <2>2. /\ Holdings(r, new) = SumOver(next2, Account)
        /\ SumOver(next, Account) = 0
        /\ next[customer] = 0
    BY <1>2 DEF Holdings, next, next2
  <2> HIDE DEF x
  <2>3. QED
    BY <1>4, <2>1, <2>2
<1> HIDE DEF x
<1>7. ASSUME NEW d \in Condition, d # c, d # new
      PROVE  Holdings(r, d) = Holdings(s, d)
  <2>1. r.balances[d] = s.balances[d]
    BY <1>7
  <2>2. QED
    BY <2>1 DEF Holdings
<1>8. c # 0
  BY DEF Condition
<1>9. ASSUME NEW f \in Condition, f # c
      PROVE  Supply(r, f) = Supply(s, f)
  <2>1. f # 0
    BY DEF Condition
  <2>2. ASSUME NEW d \in Condition
        PROVE  (IF r.first[d] = f THEN Holdings(r, d) ELSE 0)
                 = (IF s.first[d] = f THEN Holdings(s, d) ELSE 0)
    <3>1. CASE d = c
      BY <1>9, <3>1
    <3>2. CASE d = new
      BY <1>9, <2>1, <3>2
    <3>3. CASE d # c /\ d # new
      <4>1. r.first[d] = s.first[d] /\ Holdings(r, d) = Holdings(s, d)
        BY <1>7, <3>3
      <4>2. QED
        BY <4>1
    <3>4. QED
      BY <3>1, <3>2, <3>3
  <2>3. QED
    BY <2>2, SupplyTerms
<1>10. Supply(r, c) = Supply(s, c)
  <2> DEFINE g == [d \in Condition |-> IF s.first[d] = c THEN Holdings(s, d) ELSE 0]
             h == [d \in Condition |-> IF r.first[d] = c THEN Holdings(r, d) ELSE 0]
             mid == [g EXCEPT ![c] = h[c]]
  <2>1. /\ \A d \in Condition : g[d] \in Int
        /\ \A d \in Condition : h[d] \in Int
        /\ \A d \in Condition : d # c /\ d # new => h[d] = g[d]
        /\ g[c] = Holdings(s, c)
        /\ h[c] = Holdings(s, c) - x
        /\ g[new] = 0
        /\ h[new] = x
    <3>1. \A d \in Condition : Holdings(s, d) \in Int /\ Holdings(r, d) \in Int
      BY HoldingsNat
    <3>2. QED
      BY <1>5, <1>6, <1>7, <1>8, <3>1
  <2>2. /\ mid[c] = h[c]
        /\ \A d \in Condition : d # c => mid[d] = g[d]
        /\ g \in [Condition -> Int]
    BY <2>1
  <2>3. Supply(s, c) = SumOver(g, Condition) /\ Supply(r, c) = SumOver(h, Condition)
    BY DEF Supply
  <2> HIDE DEF g, h, mid
  <2>4. SumOver(mid, Condition) = SumOver(g, Condition) - g[c] + mid[c]
    BY <2>1, <2>2, FiniteSets, SumChange
  <2>5. \A d \in Condition : mid[d] \in Int
    BY <2>1, <2>2
  <2>6. \A d \in Condition : d # new => h[d] = mid[d]
    BY <2>1, <2>2
  <2>7. SumOver(h, Condition) = SumOver(mid, Condition) - mid[new] + h[new]
    BY <2>1, <2>5, <2>6, FiniteSets, SumChange
  <2>8. SumOver(g, Condition) \in Int
    BY <2>1, FiniteSets, SumType
  <2>9. mid[new] = 0 /\ mid[c] = Holdings(s, c) - x
    BY <2>1, <2>2
  <2>10. QED
    BY <1>1, <2>1, <2>3, <2>4, <2>7, <2>8, <2>9
<1>11. QED
  BY <1>9, <1>10 DEF SameSupply

-----------------------------------------------------------------------------
(***************************************************************************)
(* Operations on the storage                                               *)
(***************************************************************************)

\* Creating a condition touches the entries of the new condition only.
LEMMA WithConditionEntries ==
  ASSUME NEW s \in StorageType, NEW customer \in Account,
         s.maxConditionId < MaxCondition, blockTimestamp \in Nat \ {0}
  PROVE  LET w == WithCondition(s, customer)
             new == s.maxConditionId + 1
         IN /\ new \in Condition
            /\ w \in StorageType
            /\ w.maxConditionId = new
            /\ w.balances = s.balances
            /\ w.lastSalary = s.lastSalary
            /\ w.owners = [s.owners EXCEPT ![new] = customer]
            /\ w.receivers = [s.receivers EXCEPT ![new] = customer]
            /\ w.created = [s.created EXCEPT ![new] = blockTimestamp]
            /\ w.first = [s.first EXCEPT ![new] = new]
            /\ w.firstToLast = [s.firstToLast EXCEPT ![new] = new]
<1> DEFINE new == s.maxConditionId + 1
<1>1. new \in Condition /\ new \in 0 .. MaxCondition
  BY TokenAssumption DEF StorageType, Condition
<1>2. QED
  BY <1>1 DEF StorageType, WithCondition

\* Registering a customer starts a chain whose salary begins now.
LEMMA RegisteredOK ==
  ASSUME NEW s, StorageOK(s), NEW customer \in Account,
         s.maxConditionId < MaxCondition, blockTimestamp \in Nat \ {0}
  PROVE  /\ StorageOK(Registered(s, customer))
         /\ Keeps(s, Registered(s, customer))
         /\ SameSupply(s, Registered(s, customer))
<1> DEFINE w == WithCondition(s, customer)
           new == s.maxConditionId + 1
           r == Registered(s, customer)
<1>1. s \in StorageType /\ new \in Condition /\ w \in StorageType
  BY WithConditionEntries DEF StorageOK
<1>2. /\ w.maxConditionId = new
      /\ w.balances = s.balances
      /\ w.lastSalary = s.lastSalary
      /\ w.owners = [s.owners EXCEPT ![new] = customer]
      /\ w.receivers = [s.receivers EXCEPT ![new] = customer]
      /\ w.created = [s.created EXCEPT ![new] = blockTimestamp]
      /\ w.first = [s.first EXCEPT ![new] = new]
      /\ w.firstToLast = [s.firstToLast EXCEPT ![new] = new]
  BY WithConditionEntries DEF StorageOK
<1>3. r = [w EXCEPT !.lastSalary[new] = blockTimestamp]
  BY <1>2 DEF Registered
<1>4. blockTimestamp \in 0 .. blockTimestamp
  OBVIOUS
<1> HIDE DEF w, r, new
<1>5. r \in StorageType
  BY <1>1, <1>3, <1>4 DEF StorageType
<1>6. /\ r.maxConditionId = w.maxConditionId
      /\ r.balances = w.balances
      /\ r.lastSalary = [w.lastSalary EXCEPT ![new] = blockTimestamp]
      /\ r.owners = w.owners
      /\ r.receivers = w.receivers
      /\ r.created = w.created
      /\ r.first = w.first
      /\ r.firstToLast = w.firstToLast
  BY <1>1, <1>3 DEF StorageType
<1>7. /\ r.lastSalary[new] = blockTimestamp
      /\ r.created[new] = blockTimestamp
      /\ r.owners[new] = customer
      /\ r.receivers[new] = customer
      /\ r.first[new] = new
      /\ r.firstToLast[new] = new
  BY <1>1, <1>2, <1>6 DEF StorageType
<1>8. ASSUME NEW c \in Condition, c # new
      PROVE  /\ r.lastSalary[c] = s.lastSalary[c]
             /\ r.created[c] = s.created[c]
             /\ r.owners[c] = s.owners[c]
             /\ r.receivers[c] = s.receivers[c]
             /\ r.first[c] = s.first[c]
             /\ r.firstToLast[c] = s.firstToLast[c]
  BY <1>1, <1>2, <1>6, <1>8 DEF StorageType
<1>9. new = s.maxConditionId + 1 /\ s.maxConditionId \in Nat /\ r.maxConditionId = new
  BY <1>1, <1>2, <1>6 DEF StorageType, new
<1>10. ASSUME NEW c \in Condition
       PROVE  ChainOK(r, c) /\ RateOK(r, c, totalBalances)
  <2>1. ChainOK(s, c) /\ RateOK(s, c, totalBalances) /\ c \in Nat \ {0}
    BY DEF StorageOK, Condition
  <2>2. CASE c = new
    BY <1>4, <1>7, <1>9, <2>1, <2>2 DEF ChainOK, RateOK
  <2>3. CASE c > new
    BY <1>8, <1>9, <2>1, <2>3 DEF ChainOK, RateOK
  <2>4. CASE c < new
    <3>1. s.first[c] \in Condition /\ s.first[c] # new
      BY <1>9, <2>1, <2>4, TokenAssumption DEF ChainOK, Condition
    <3>2. QED
      BY <1>8, <1>9, <2>1, <2>4, <3>1 DEF ChainOK, RateOK
  <2>5. QED
    BY <1>9, <2>1, <2>2, <2>3, <2>4
<1>11. Keeps(s, r)
  BY <1>8, <1>9 DEF Keeps
<1>12. \A c \in Condition : Holdings(r, c) = Holdings(s, c)
  BY <1>2, <1>6 DEF Holdings
<1>13. EmptyBeyond(r) /\ Holdings(s, new) = 0 /\ s.first[new] = 0
  <2>1. \A c \in Condition : c \in Nat \ {0}
    BY DEF Condition
  <2>2. EmptyBeyond(s) /\ ChainOK(s, new)
    BY <1>1 DEF StorageOK
  <2>3. QED
    BY <1>1, <1>9, <1>12, <2>1, <2>2 DEF EmptyBeyond, ChainOK
<1>14. SameSupply(s, r)
  <2>1. ASSUME NEW f \in Condition PROVE Supply(r, f) = Supply(s, f)
    <3>1. f # 0
      BY DEF Condition
    <3>2. \A c \in Condition : (IF r.first[c] = f THEN Holdings(r, c) ELSE 0)
                                 = (IF s.first[c] = f THEN Holdings(s, c) ELSE 0)
      BY <1>8, <1>12, <1>13, <3>1
    <3>3. QED
      BY <3>2, SupplyTerms
  <2>2. QED
    BY <2>1 DEF SameSupply
<1>15. QED
  BY <1>5, <1>10, <1>11, <1>13, <1>14 DEF StorageOK, r

\* Recreating the first condition of a chain adds a condition to the chain,
\* of which no token was ever minted.
LEMMA RecreatedOK ==
  ASSUME NEW s, StorageOK(s), NEW c, CanRecreate(s, c),
         blockTimestamp \in Nat \ {0}
  PROVE  /\ StorageOK(Recreated(s, c))
         /\ Keeps(s, Recreated(s, c))
         /\ SameSupply(s, Recreated(s, c))
<1> DEFINE customer == s.receivers[c]
           w == WithCondition(s, customer)
           new == s.maxConditionId + 1
           r == Recreated(s, c)
<1>1. s \in StorageType /\ c \in Condition /\ customer \in Account
  BY DEF StorageOK, CanRecreate, StorageType
<1>2. s.maxConditionId < MaxCondition /\ s.first[c] = c /\ ChainOK(s, c)
  BY <1>1 DEF CanRecreate, IsFirst, StorageOK
<1>3. /\ c \in Nat \ {0}
      /\ s.maxConditionId \in Nat
      /\ c <= s.maxConditionId
      /\ s.firstToLast[c] = c
      /\ s.owners[c] = customer
      /\ new \in Condition
      /\ new # c
  <2>1. c \in Nat \ {0} /\ s.maxConditionId \in Nat
    BY <1>1 DEF Condition, StorageType
  <2>2. c <= s.maxConditionId /\ s.firstToLast[c] = c /\ s.owners[c] = customer
    BY <1>2, <2>1 DEF ChainOK
  <2>3. new \in Condition /\ new # c
    BY <1>2, <2>1, <2>2, TokenAssumption DEF Condition
  <2>4. QED
    BY <2>1, <2>2, <2>3
<1>4. /\ w \in StorageType
      /\ w.maxConditionId = new
      /\ w.balances = s.balances
      /\ w.lastSalary = s.lastSalary
      /\ w.owners = [s.owners EXCEPT ![new] = customer]
      /\ w.receivers = [s.receivers EXCEPT ![new] = customer]
      /\ w.created = [s.created EXCEPT ![new] = blockTimestamp]
      /\ w.first = [s.first EXCEPT ![new] = new]
      /\ w.firstToLast = [s.firstToLast EXCEPT ![new] = new]
  BY <1>1, <1>2, WithConditionEntries
<1>5. r = [w EXCEPT !.first[new] = c,
                    !.balances[new][customer] = s.balances[c][customer],
                    !.balances[c][customer] = 0,
                    !.lastSalary[new] = s.lastSalary[c]]
  BY <1>3 DEF Recreated
<1>6. /\ s.balances[c][customer] \in Uint
      /\ 0 \in Uint
      /\ s.lastSalary[c] \in 0 .. blockTimestamp
      /\ c \in 0 .. MaxCondition
      /\ c \in TokenId
      /\ new \in TokenId
  <2>1. c \in TokenId /\ new \in TokenId
    BY <1>1, <1>3 DEF TokenId
  <2>2. s.balances[c][customer] \in Uint /\ s.lastSalary[c] \in 0 .. blockTimestamp
    BY <1>1, <2>1 DEF StorageType, TokenMap
  <2>3. 0 \in Uint /\ c \in 0 .. MaxCondition
    BY <1>1, TokenAssumption DEF Uint, Condition
  <2>4. QED
    BY <2>1, <2>2, <2>3
<1>7. w \in StorageType /\ customer \in Account /\ new \in Condition
  BY <1>1, <1>3, <1>4
<1> HIDE DEF w, r, customer, new
<1>8. r \in StorageType
  BY <1>5, <1>6, <1>7 DEF StorageType, TokenMap
<1>9. /\ r.maxConditionId = w.maxConditionId
      /\ r.lastSalary = [w.lastSalary EXCEPT ![new] = s.lastSalary[c]]
      /\ r.owners = w.owners
      /\ r.receivers = w.receivers
      /\ r.created = w.created
      /\ r.first = [w.first EXCEPT ![new] = c]
      /\ r.firstToLast = w.firstToLast
      /\ r.balances = [w.balances EXCEPT ![new][customer] = s.balances[c][customer],
                                         ![c][customer] = 0]
  BY <1>5, <1>7 DEF StorageType
<1>10. /\ r.owners[new] = customer
       /\ r.receivers[new] = customer
       /\ r.first[new] = c
       /\ r.firstToLast[new] = new
  BY <1>1, <1>4, <1>7, <1>9 DEF StorageType
<1>11. ASSUME NEW d \in Condition, d # new
       PROVE  /\ r.lastSalary[d] = s.lastSalary[d]
              /\ r.created[d] = s.created[d]
              /\ r.owners[d] = s.owners[d]
              /\ r.receivers[d] = s.receivers[d]
              /\ r.first[d] = s.first[d]
              /\ r.firstToLast[d] = s.firstToLast[d]
  BY <1>1, <1>4, <1>9, <1>11 DEF StorageType
<1>12. new = s.maxConditionId + 1 /\ r.maxConditionId = new
  BY <1>4, <1>9 DEF new
<1>13. ASSUME NEW d \in Condition
       PROVE  ChainOK(r, d) /\ RateOK(r, d, totalBalances)
  <2>1. ChainOK(s, d) /\ RateOK(s, d, totalBalances) /\ d \in Nat \ {0}
    BY DEF StorageOK, Condition
  <2>2. CASE d = new
    <3>1. r.first[c] = c /\ r.receivers[c] = customer
      BY <1>1, <1>2, <1>3, <1>11 DEF customer
    <3>2. QED
      BY <1>2, <1>3, <1>10, <1>12, <2>1, <2>2, <3>1 DEF ChainOK, RateOK
  <2>3. CASE d > new
    BY <1>3, <1>11, <1>12, <2>1, <2>3 DEF ChainOK, RateOK
  <2>4. CASE d < new
    <3>1. s.first[d] \in Condition /\ s.first[d] # new
      BY <1>3, <1>12, <2>1, <2>4, TokenAssumption DEF ChainOK, Condition
    <3>2. QED
      BY <1>3, <1>11, <1>12, <2>1, <2>4, <3>1 DEF ChainOK, RateOK
  <2>5. QED
    BY <1>3, <1>12, <2>1, <2>2, <2>3, <2>4
<1>14. Keeps(s, r)
  BY <1>3, <1>11, <1>12 DEF Keeps
<1>15. /\ r.balances[c][customer] = 0
       /\ \A a \in Account : a # customer => r.balances[c][a] = s.balances[c][a]
       /\ r.balances[new][customer] = s.balances[c][customer]
       /\ \A a \in Account : a # customer => r.balances[new][a] = s.balances[new][a]
       /\ \A d \in Condition : d # c /\ d # new => r.balances[d] = s.balances[d]
  <2>1. s.balances \in TokenMap
    BY <1>1 DEF StorageType
  <2>2. r.balances = [s.balances EXCEPT ![new][customer] = s.balances[c][customer],
                                        ![c][customer] = 0]
    BY <1>4, <1>9
  <2>3. /\ c \in TokenId /\ new \in TokenId /\ c # new
        /\ customer \in Account
    BY <1>1, <1>3, <1>6, <1>7, CounterTokens
  <2>4. s.balances[c] \in [Account -> Uint] /\ s.balances[new] \in [Account -> Uint]
    BY <2>1, <2>3 DEF TokenMap
  <2>5. DOMAIN s.balances = TokenId
    BY <2>1 DEF TokenMap
  <2>6. \A d \in Condition : d \in TokenId
    BY CounterTokens
  <2> HIDE DEF r, new, customer
  <2>7. /\ r.balances[c] = [s.balances[c] EXCEPT ![customer] = 0]
        /\ r.balances[new] = [s.balances[new] EXCEPT ![customer] = s.balances[c][customer]]
        /\ \A d \in Condition : d # c /\ d # new => r.balances[d] = s.balances[d]
    BY <2>2, <2>3, <2>5, <2>6
  <2>8. QED
    BY <2>3, <2>4, <2>7
<1>16. s.first[new] = 0 /\ Holdings(s, new) = 0
  <2>1. EmptyBeyond(s) /\ ChainOK(s, new)
    BY <1>7 DEF StorageOK
  <2>2. QED
    BY <1>3, <1>7, <1>12, <2>1 DEF EmptyBeyond, ChainOK
<1>17. r.first[new] = c /\ \A d \in Condition : d # new => r.first[d] = s.first[d]
  BY <1>10, <1>11
<1>18. SameSupply(s, r)
  <2>1. c # new /\ s.first[c] = c
    BY <1>2, <1>3
  <2>2. QED
    BY <1>1, <1>7, <1>8, <1>15, <1>16, <1>17, <2>1, JoinKeepsSupply
<1>19. EmptyBeyond(r)
  <2>1. ASSUME NEW d \in Condition, d > r.maxConditionId
        PROVE  Holdings(r, d) = 0
    <3>1. d # c /\ d # new /\ d > s.maxConditionId
      BY <1>3, <1>12, <2>1 DEF Condition
    <3>2. Holdings(s, d) = 0
      BY <3>1 DEF StorageOK, EmptyBeyond
    <3>3. QED
      BY <1>15, <3>1, <3>2 DEF Holdings
  <2>2. QED
    BY <2>1 DEF EmptyBeyond
<1>20. QED
  BY <1>8, <1>13, <1>14, <1>18, <1>19 DEF StorageOK, r

-----------------------------------------------------------------------------

\* Replacing the balances only, by others with the same sums.
LEMMA SetBalancesOK ==
  ASSUME NEW s, StorageOK(s), NEW b \in TokenMap,
         \A c \in Condition : SumOver(b[c], Account) = SumOver(s.balances[c], Account)
  PROVE  LET t == [s EXCEPT !.balances = b]
         IN /\ StorageOK(t)
            /\ Keeps(s, t)
            /\ SameSupply(s, t)
            /\ \A c : CanRecreate(s, c) => CanRecreate(t, c)
<1> DEFINE t == [s EXCEPT !.balances = b]
<1>1. s \in StorageType
  BY DEF StorageOK
<1>2. /\ t \in StorageType
      /\ t.balances = b
      /\ t.maxConditionId = s.maxConditionId
      /\ t.owners = s.owners
      /\ t.receivers = s.receivers
      /\ t.created = s.created
      /\ t.lastSalary = s.lastSalary
      /\ t.first = s.first
      /\ t.firstToLast = s.firstToLast
  BY <1>1 DEF StorageType
<1> HIDE DEF t
<1>3. \A c \in Condition : ChainOK(t, c) /\ RateOK(t, c, totalBalances)
  BY <1>2 DEF StorageOK, ChainOK, RateOK
<1>4. Keeps(s, t)
  BY <1>1, <1>2 DEF Keeps, StorageType
<1>5. \A c : CanRecreate(s, c) => CanRecreate(t, c)
  BY <1>2 DEF CanRecreate, IsFirst
<1>6. \A c \in Condition : Holdings(t, c) = Holdings(s, c)
  BY <1>2 DEF Holdings
<1>7. SameSupply(s, t)
  <2>1. \A f \in Condition : Supply(t, f) = Supply(s, f)
    BY <1>2, <1>6, SupplyTerms
  <2>2. QED
    BY <2>1 DEF SameSupply
<1>8. EmptyBeyond(t)
  BY <1>2, <1>6 DEF StorageOK, EmptyBeyond
<1>9. QED
  BY <1>2, <1>3, <1>4, <1>5, <1>7, <1>8 DEF StorageOK, t

\* What exists keeps its owner over several operations.
LEMMA KeepsTransitive ==
  ASSUME NEW s \in StorageType, NEW t \in StorageType, NEW u \in StorageType,
         Keeps(s, t), Keeps(t, u)
  PROVE  Keeps(s, u)
<1>1. \A x \in StorageType : x.maxConditionId \in Int
  <2>1. \A x \in StorageType : x.maxConditionId \in 0 .. MaxCondition
    BY DEF StorageType
  <2>2. QED
    BY <2>1
<1>2. s.maxConditionId \in Int /\ t.maxConditionId \in Int /\ u.maxConditionId \in Int
  BY <1>1
<1>3. s.maxConditionId <= u.maxConditionId
  BY <1>2 DEF Keeps
<1>4. ASSUME NEW c \in Condition, c <= s.maxConditionId
      PROVE  /\ u.receivers[c] = s.receivers[c]
             /\ u.owners[c] = s.owners[c]
             /\ u.first[c] = s.first[c]
             /\ u.created[c] = s.created[c]
  <2>1. c \in Int
    BY DEF Condition
  <2>2. c <= t.maxConditionId
    BY <1>2, <1>4, <2>1 DEF Keeps
  <2>3. QED
    BY <1>4, <2>2 DEF Keeps
<1>5. QED
  BY <1>3, <1>4 DEF Keeps

\* One item of a transfer, with the recreation that it may trigger.
LEMMA DoTransferOK ==
  ASSUME NEW s, StorageOK(s), NEW sender, NEW from \in Account, NEW to \in Account,
         NEW item \in [id : TokenId, value : Nat],
         CanDoTransfer(s, sender, from, to, item), blockTimestamp \in Nat \ {0}
  PROVE  LET t == DoTransfer(s, sender, from, to, item)
         IN StorageOK(t) /\ Keeps(s, t) /\ SameSupply(s, t)
<1> DEFINE b == MovedBalances(s.balances, from, to, item.id, item.value)
           moved == [s EXCEPT !.balances = b]
           t == DoTransfer(s, sender, from, to, item)
<1>1. s \in StorageType /\ s.balances \in TokenMap
  BY DEF StorageOK, StorageType
<1>2. CanMove(s.balances, from, to, item.id, item.value)
  BY DEF CanDoTransfer
<1>3. /\ b \in TokenMap
      /\ \A c \in Condition : SumOver(b[c], Account) = SumOver(s.balances[c], Account)
  BY <1>1, <1>2, MovedBalancesType, MoveKeepsSums, CounterTokens
<1>4. moved = [s EXCEPT !.balances =
                 MovedBalances(@, from, to, item.id, item.value)]
  OBVIOUS
<1> HIDE DEF b
<1>5. /\ StorageOK(moved)
      /\ Keeps(s, moved)
      /\ SameSupply(s, moved)
      /\ \A c : CanRecreate(s, c) => CanRecreate(moved, c)
  BY <1>3, SetBalancesOK
<1> HIDE DEF moved
<1>6. CASE Recreates(s, sender, item.id)
  <2>1. t = Recreated(moved, item.id)
    BY <1>4, <1>6 DEF DoTransfer
  <2>2. CanRecreate(moved, item.id)
    BY <1>5, <1>6 DEF CanDoTransfer
  <2>3. StorageOK(t) /\ Keeps(moved, t) /\ SameSupply(moved, t)
    BY <1>5, <2>1, <2>2, RecreatedOK
  <2>4. SameSupply(s, t)
    BY <1>5, <2>3 DEF SameSupply
  <2>5. moved \in StorageType /\ t \in StorageType
    BY <1>5, <2>3 DEF StorageOK
  <2> HIDE DEF t
  <2>6. Keeps(s, t)
    BY <1>1, <1>5, <2>3, <2>5, KeepsTransitive
  <2>7. QED
    BY <2>3, <2>4, <2>6 DEF t
<1>7. CASE ~Recreates(s, sender, item.id)
  <2>1. t = moved
    BY <1>4, <1>7 DEF DoTransfer
  <2>2. QED
    BY <1>5, <2>1
<1>8. QED
  BY <1>6, <1>7

-----------------------------------------------------------------------------
(***************************************************************************)
(* The invariant of every salary contract, and what its steps keep         *)
(***************************************************************************)

\* The supply of a chain is bounded by what was minted for its first
\* condition: the unchecked addition of a mint does not wrap.
SalaryInv ==
  /\ MarketInv
  /\ StorageOK(Storage)
  /\ SuspendedOK
  /\ \A f \in Condition : Supply(Storage, f) <= totalBalances[f]

\* The supplies change by what is minted and by nothing else.
SupplyFollows ==
  \A f \in Condition :
    Supply(Storage, f)' - totalBalances'[f] = Supply(Storage, f) - totalBalances[f]

\* What a step of a salary contract keeps.
SalaryKeeps == SupplyFollows /\ ReceiversKept /\ ResultsFrozen

\* The types that the invariant contains.
LEMMA SalaryTypes ==
  ASSUME SalaryInv
  PROVE  /\ MarketTypeOK
         /\ Storage \in StorageType
         /\ balances \in TokenMap
         /\ \A c \in Condition : totalBalances[c] \in Nat
         /\ maxConditionId \in 0 .. MaxCondition
         /\ blockTimestamp \in Nat \ {0}
         /\ \A c \in Created : c \in Condition /\ c <= maxConditionId
<1>1. MarketTypeOK /\ Storage \in StorageType
  BY DEF SalaryInv, MarketInv, StorageOK
<1>2. balances \in TokenMap /\ totalBalances \in [TokenId -> Uint]
  BY <1>1 DEF MarketTypeOK, TokenTypeOK, TokenMap
<1>3. \A c \in Condition : totalBalances[c] \in Nat
  BY <1>2, CounterTokens DEF Uint
<1>4. blockTimestamp \in Nat \ {0}
  BY <1>1 DEF MarketTypeOK, LockTypeOK
<1>5. maxConditionId \in 0 .. MaxCondition
  BY <1>1 DEF Storage, StorageType
<1>6. \A c \in Created : c \in Condition /\ c <= maxConditionId
  BY <1>5, TokenAssumption DEF Created, Condition
<1>7. QED
  BY <1>1, <1>2, <1>3, <1>4, <1>5, <1>6

\* The supplies after a step that mints nothing and keeps them.
LEMMA SupplyFrame ==
  ASSUME SalaryInv, NEW s, Storage' = s, SameSupply(Storage, s),
         \A c \in Condition : totalBalances'[c] = totalBalances[c]
  PROVE  /\ SupplyFollows
         /\ \A f \in Condition : Supply(Storage, f)' <= totalBalances'[f]
<1>1. \A f \in Condition : Supply(Storage, f)' = Supply(s, f)
  BY DEF Supply, Holdings
<1>2. \A f \in Condition : Supply(Storage, f)' = Supply(Storage, f)
  BY <1>1 DEF SameSupply
<1>3. QED
  BY <1>2 DEF SupplyFollows, SalaryInv

\* The storage after it is written.
LEMMA WrittenStorage ==
  ASSUME NEW s \in StorageType, SetStorage(s)
  PROVE  Storage' = s
BY DEF Storage, SetStorage, StorageType

\* A step that keeps conditions and balances keeps who receives them.
LEMMA SameReceivers ==
  ASSUME UNCHANGED <<conditionOwners, salaryReceivers, firstConditionInChain>>
  PROVE  ReceiversKept
BY DEF ReceiversKept

\* Calls that wait go on waiting while nothing that exists changes, no token is
\* taken back and, within their transaction, the time stands still.
LEMMA StillSuspended ==
  ASSUME SuspendedOK, Storage \in StorageType, NEW s, Storage' = s, Keeps(Storage, s),
         suspended' = suspended, suspended # <<>> => blockTimestamp' = blockTimestamp,
         \A c \in Condition : /\ totalBalances[c] \in Int
                              /\ totalBalances'[c] \in Int
                              /\ totalBalances'[c] >= totalBalances[c],
         blockTimestamp \in Int, s.maxConditionId \in Int
  PROVE  SuspendedOK'
<1>1. suspended \in Seq(Condition)
  BY DEF SuspendedOK
<1>2. ASSUME NEW i \in 1 .. Len(suspended)
      PROVE  PaidUpTo(Storage, suspended[i], totalBalances)'
  <2> DEFINE c == suspended[i]
             before == Storage
  <2>1. c \in Condition /\ c \in Int /\ suspended # <<>>
    <3>1. c \in Condition
      BY <1>1
    <3>2. c \in Int
      BY <3>1 DEF Condition
    <3>3. suspended # <<>>
      BY <1>1
    <3>4. QED
      BY <3>1, <3>2, <3>3
  <2>2. PaidUpTo(before, c, totalBalances)
    BY DEF SuspendedOK
  <2>3. before.maxConditionId \in Int /\ before.created[c] \in Int
    BY <2>1 DEF StorageType
  <2>4. blockTimestamp' = blockTimestamp /\ c' = c
    BY <2>1
  <2> HIDE DEF c, before
  <2>5. /\ before.maxConditionId <= s.maxConditionId
        /\ s.receivers[c] = before.receivers[c]
        /\ s.first[c] = before.first[c]
        /\ s.created[c] = before.created[c]
    BY <2>1, <2>2 DEF Keeps, PaidUpTo, before
  <2>6. /\ c <= s.maxConditionId
        /\ s.first[c] = c
        /\ s.receivers[c] \in Reentrant
        /\ totalBalances'[c] >= blockTimestamp - s.created[c]
    BY <2>1, <2>2, <2>3, <2>5 DEF PaidUpTo
  <2>7. QED
    BY <2>4, <2>6 DEF PaidUpTo, c
<1>3. QED
  BY <1>1, <1>2 DEF SuspendedOK

\* A step that writes a sound storage with the same supplies, and nothing else.
LEMMA StorageStep ==
  ASSUME SalaryInv, NEW s, StorageOK(s), Keeps(Storage, s), SameSupply(Storage, s),
         SetStorage(s), UNCHANGED restVars
  PROVE  SalaryInv' /\ SalaryKeeps
<1>1. s \in StorageType
  BY DEF StorageOK
<1>2. Storage' = s
  BY <1>1, WrittenStorage
<1>3. UNCHANGED <<totalBalances, blockTimestamp>>
  BY DEF restVars
<1>4. StorageOK(Storage)'
  <2>1. StorageType' = StorageType
    BY <1>3 DEF StorageType
  <2>2. QED
    BY <1>2, <1>3, <2>1
    DEF StorageOK, EmptyBeyond, Holdings, ChainOK, RateOK
<1>5. SupplyFollows /\ \A f \in Condition : Supply(Storage, f)' <= totalBalances'[f]
  BY <1>2, <1>3, SupplyFrame
<1>6. MarketTypeOK'
  <2>1. balances' \in TokenMap
    BY <1>1 DEF SetStorage, StorageType
  <2>2. QED
    BY <2>1, SalaryTypes
    DEF MarketTypeOK, TokenTypeOK, LockTypeOK, CollateralTypeOK, ResultTypeOK, TokenMap,
        restVars, oracleVars, roundVars, collateralVars, resultVars
<1>7. MarketInv'
  BY <1>6, MarketFrame DEF SalaryInv, restVars, collateralVars, resultVars
<1>8. ReceiversKept
  BY SalaryTypes DEF ReceiversKept, Keeps, SetStorage, Storage
<1>9. ResultsFrozen
  BY DEF ResultsFrozen, restVars, resultVars
<1>10. SuspendedOK'
  <2>1. s.maxConditionId \in Int /\ suspended' = suspended
    BY <1>1 DEF StorageType, restVars
  <2>2. \A c \in Condition : /\ totalBalances[c] \in Int
                              /\ totalBalances'[c] \in Int
                              /\ totalBalances'[c] >= totalBalances[c]
    BY <1>3, SalaryTypes
  <2>3. SuspendedOK /\ Storage \in StorageType /\ blockTimestamp \in Int
    BY SalaryTypes DEF SalaryInv
  <2>4. QED
    BY <1>2, <1>3, <2>1, <2>2, <2>3, StillSuspended
<1>11. QED
  BY <1>4, <1>5, <1>7, <1>8, <1>9, <1>10 DEF SalaryInv, SalaryKeeps

\* A step that leaves the storage of chains alone, but for balances whose sums
\* stay the same and for the time, which does not go back, and stands still
\* while a call waits.
LEMMA ChainsFrame ==
  ASSUME SalaryInv, UNCHANGED <<conditionVars, salaryVars>>, balances' \in TokenMap,
         \A c \in Condition : SumOver(balances'[c], Account) = SumOver(balances[c], Account),
         \A c \in Condition : totalBalances'[c] = totalBalances[c],
         blockTimestamp' \in {blockTimestamp, blockTimestamp + 1},
         suspended # <<>> => blockTimestamp' = blockTimestamp
  PROVE  /\ StorageOK(Storage)'
         /\ SuspendedOK'
         /\ SupplyFollows
         /\ \A f \in Condition : Supply(Storage, f)' <= totalBalances'[f]
<1> DEFINE s == Storage
           t == [s EXCEPT !.balances = balances']
<1>1. StorageOK(s) /\ s \in StorageType /\ s.balances = balances
  BY SalaryTypes DEF SalaryInv, Storage
<1>2. Storage' = t
  BY DEF Storage, conditionVars, salaryVars, chainVars
<1> HIDE DEF s
<1>3. StorageOK(t) /\ SameSupply(s, t) /\ Keeps(s, t)
  BY <1>1, SetBalancesOK
<1> HIDE DEF t
<1>4. t \in StorageType'
  <2>1. 0 .. blockTimestamp \subseteq 0 .. blockTimestamp'
    BY SalaryTypes
  <2>2. t \in StorageType
    BY <1>3 DEF StorageOK
  <2>3. QED
    BY <2>1, <2>2 DEF StorageType
<1>5. /\ EmptyBeyond(t)
      /\ \A c \in Condition : ChainOK(t, c)
      /\ \A c \in Condition : RateOK(t, c, totalBalances')
  BY <1>3 DEF StorageOK, RateOK
<1>6. StorageOK(Storage)'
  BY <1>2, <1>4, <1>5 DEF StorageOK, EmptyBeyond, Holdings, ChainOK, RateOK
<1>7. SupplyFollows /\ \A f \in Condition : Supply(Storage, f)' <= totalBalances'[f]
  BY <1>2, <1>3, SupplyFrame DEF s
<1>8. SuspendedOK'
  <2>1. t.maxConditionId \in Int /\ suspended' = suspended
    BY <1>3 DEF StorageOK, StorageType, salaryVars
  <2>2. \A c \in Condition : /\ totalBalances[c] \in Int
                              /\ totalBalances'[c] \in Int
                              /\ totalBalances'[c] >= totalBalances[c]
    BY SalaryTypes
  <2>3. SuspendedOK /\ blockTimestamp \in Int
    BY SalaryTypes DEF SalaryInv
  <2>4. QED
    BY <1>1, <1>2, <1>3, <2>1, <2>2, <2>3, StillSuspended DEF s
<1>9. QED
  BY <1>6, <1>7, <1>8

\* A step of the market of oracles, made within a hook or not.
LEMMA MarketStep ==
  ASSUME SalaryInv, BidNext, suspended # <<>> => UNCHANGED blockTimestamp,
         UNCHANGED salaryVars
  PROVE  SalaryInv' /\ SalaryKeeps
<1>1. MarketInv' /\ ResultsFrozen
  BY MarketSteps, MarketKeepsResults DEF SalaryInv
<1>2. /\ \A c \in Condition : /\ balances'[c] = balances[c]
                              /\ totalBalances'[c] = totalBalances[c]
      /\ UNCHANGED conditionVars
      /\ blockTimestamp' \in {blockTimestamp, blockTimestamp + 1}
  BY MarketKeepsConditions DEF SalaryInv
<1>3. balances' \in TokenMap
  BY <1>1 DEF MarketInv, MarketTypeOK, TokenTypeOK, TokenMap
<1>4. \A c \in Condition : SumOver(balances'[c], Account) = SumOver(balances[c], Account)
  BY <1>2
<1>5. /\ StorageOK(Storage)'
      /\ SuspendedOK'
      /\ SupplyFollows
      /\ \A f \in Condition : Supply(Storage, f)' <= totalBalances'[f]
  BY <1>2, <1>3, <1>4, ChainsFrame
<1>6. ReceiversKept
  BY <1>2, SameReceivers DEF conditionVars, salaryVars, chainVars
<1>7. QED
  BY <1>1, <1>5, <1>6 DEF SalaryInv, SalaryKeeps

\* What a call that waited for a hook does when it goes on.
LEMMA HookStep ==
  ASSUME SalaryInv, HookReturns
  PROVE  SalaryInv' /\ SalaryKeeps
<1> DEFINE s == Storage
           u == Storage'
           c == Head(suspended)
<1>1. /\ StorageOK(s)
      /\ s \in StorageType
      /\ blockTimestamp \in Nat \ {0}
      /\ balances \in TokenMap
      /\ \A d \in Condition : totalBalances[d] \in Int
  BY SalaryTypes DEF SalaryInv
<1>2. /\ suspended \in Seq(Condition)
      /\ suspended # <<>>
      /\ \A i \in 1 .. Len(suspended) : PaidUpTo(s, suspended[i], totalBalances)
      /\ lastSalaryDates' = [lastSalaryDates EXCEPT ![c] = blockTimestamp]
      /\ suspended' = Tail(suspended)
      /\ UNCHANGED <<bidVars, chainVars>>
  BY DEF SalaryInv, SuspendedOK, HookReturns
<1>3. /\ c \in Condition
      /\ PaidUpTo(s, c, totalBalances)
      /\ suspended' \in Seq(Condition)
      /\ \A i \in 1 .. Len(suspended') :
           i + 1 \in 1 .. Len(suspended) /\ suspended'[i] = suspended[i + 1]
  BY <1>2
<1> HIDE DEF c
<1>4. /\ s.balances = balances
      /\ u.balances = s.balances
      /\ u.maxConditionId = s.maxConditionId
      /\ u.owners = s.owners
      /\ u.receivers = s.receivers
      /\ u.created = s.created
      /\ u.first = s.first
      /\ u.firstToLast = s.firstToLast
      /\ u.lastSalary = [s.lastSalary EXCEPT ![c] = blockTimestamp]
      /\ UNCHANGED <<totalBalances, blockTimestamp>>
  BY <1>2 DEF Storage, bidVars, lockVars, tokenVars, conditionVars, chainVars
<1>5. u \in StorageType
  <2>1. /\ balances' = balances
        /\ maxConditionId' = maxConditionId
        /\ conditionOwners' = conditionOwners
        /\ salaryReceivers' = salaryReceivers
        /\ conditionCreationDates' = conditionCreationDates
        /\ firstConditionInChain' = firstConditionInChain
        /\ firstToLastConditionInChain' = firstToLastConditionInChain
    BY <1>2 DEF bidVars, lockVars, tokenVars, conditionVars, chainVars
  <2>2. blockTimestamp \in 0 .. blockTimestamp
    BY <1>1
  <2>3. lastSalaryDates \in [Condition -> 0 .. blockTimestamp]
    BY <1>1 DEF Storage, StorageType
  <2>4. lastSalaryDates' \in [Condition -> 0 .. blockTimestamp]
    BY <1>2, <2>2, <2>3
  <2>5. QED
    BY <1>1, <2>1, <2>4 DEF Storage, StorageType
<1> HIDE DEF s, u
<1>6. \A d \in Condition : ChainOK(u, d)
  BY <1>1, <1>4 DEF StorageOK, ChainOK
<1>7. ASSUME NEW d \in Condition
      PROVE  RateOK(u, d, totalBalances)
  <2>1. RateOK(s, d, totalBalances)
    BY <1>1 DEF StorageOK
  <2>2. CASE d # c
    <3>1. u.lastSalary[d] = s.lastSalary[d]
      BY <1>1, <1>4, <2>2 DEF StorageType
    <3>2. QED
      BY <1>4, <2>1, <3>1 DEF RateOK
  <2>3. CASE d = c
    <3>1. u.lastSalary[c] = blockTimestamp
      BY <1>1, <1>3, <1>4 DEF StorageType
    <3>2. QED
      BY <1>3, <1>4, <2>3, <3>1 DEF RateOK, PaidUpTo
  <2>4. QED
    BY <2>2, <2>3
<1>8. \A d \in Condition : Holdings(u, d) = Holdings(s, d)
  BY <1>4 DEF Holdings
<1>9. EmptyBeyond(u) /\ SameSupply(s, u)
  <2>1. EmptyBeyond(u)
    BY <1>1, <1>4, <1>8 DEF StorageOK, EmptyBeyond
  <2>2. \A f \in Condition : Supply(u, f) = Supply(s, f)
    BY <1>4, <1>8, SupplyTerms
  <2>3. QED
    BY <2>1, <2>2 DEF SameSupply
<1>10. StorageOK(Storage)'
  <2>1. StorageType' = StorageType
    BY <1>4 DEF StorageType
  <2>2. QED
    BY <1>4, <1>5, <1>6, <1>7, <1>9, <2>1
    DEF StorageOK, EmptyBeyond, Holdings, ChainOK, RateOK, u
<1>11. SupplyFollows /\ \A f \in Condition : Supply(Storage, f)' <= totalBalances'[f]
  BY <1>4, <1>9, SupplyFrame DEF s, u
<1>12. SuspendedOK'
  <2> DEFINE ok(d) == /\ d <= u.maxConditionId
                      /\ u.first[d] = d
                      /\ u.receivers[d] \in Reentrant
                      /\ totalBalances[d] >= blockTimestamp - u.created[d]
  <2>1. \A i \in 1 .. Len(suspended') : ok(suspended'[i])
    BY <1>2, <1>3, <1>4 DEF PaidUpTo
  <2>2. /\ u.maxConditionId = maxConditionId'
        /\ u.first = firstConditionInChain'
        /\ u.receivers = salaryReceivers'
        /\ u.created = conditionCreationDates'
    BY DEF u, Storage
  <2>3. blockTimestamp' = blockTimestamp /\ totalBalances' = totalBalances
    BY <1>2 DEF bidVars, lockVars, tokenVars
  <2>4. QED
    BY <1>3, <2>1, <2>2, <2>3 DEF SuspendedOK, PaidUpTo, Storage
<1>13. MarketInv'
  <2> USE <1>2 DEF bidVars, lockVars, tokenVars, oracleVars, conditionVars, roundVars,
                   collateralVars, resultVars
  <2>1. MarketTypeOK'
    BY SalaryTypes DEF MarketTypeOK, TokenTypeOK, LockTypeOK, CollateralTypeOK, ResultTypeOK
  <2>2. QED
    BY <2>1, MarketFrame DEF SalaryInv
<1>14. ReceiversKept /\ ResultsFrozen
  BY <1>2, SameReceivers
  DEF bidVars, lockVars, conditionVars, chainVars, ResultsFrozen, resultVars
<1>15. QED
  BY <1>10, <1>11, <1>12, <1>13, <1>14 DEF SalaryInv, SalaryKeeps

\* A step of the market as SalaryNext makes it.
MarketCall ==
  /\ BidNext
  /\ suspended # <<>> => UNCHANGED blockTimestamp
  /\ UNCHANGED salaryVars

\* Recreations and transfers of salary tokens: the storage they write is
\* sound, keeps what exists and has the same supplies.
LEMMA StorageWritten ==
  ASSUME SalaryInv, SalaryNext, ~MarketCall, ~HookReturns
  PROVE  \E s : /\ StorageOK(s)
                /\ Keeps(Storage, s)
                /\ SameSupply(Storage, s)
                /\ SetStorage(s)
                /\ UNCHANGED restVars
<1>1. StorageOK(Storage) /\ blockTimestamp \in Nat \ {0}
  BY SalaryTypes DEF SalaryInv
<1>2. /\ Users \subseteq Account
      /\ Users \union {This} \subseteq Account
      /\ Items \subseteq [id : TokenId, value : Nat]
  BY LockAssumption DEF Account, Items
<1> DEFINE Written == \E s : /\ StorageOK(s)
                             /\ Keeps(Storage, s)
                             /\ SameSupply(Storage, s)
                             /\ SetStorage(s)
                             /\ UNCHANGED restVars
<1>3. ASSUME NEW c \in Condition, RecreateCondition(c)
      PROVE  Written
  BY <1>1, <1>3, RecreatedOK DEF RecreateCondition
<1>4. ASSUME NEW sender \in Users, NEW from \in Users, NEW to \in Users \union {This},
             NEW item \in Items, SalaryTransfer(sender, from, to, item)
      PROVE  Written
  BY <1>1, <1>2, <1>4, DoTransferOK DEF SalaryTransfer
<1>5. ASSUME NEW sender \in Users, NEW from \in Users, NEW to \in Users \union {This},
             NEW item1 \in Items, NEW item2 \in Items,
             SalaryBatchTransfer(sender, from, to, item1, item2)
      PROVE  Written
  <2> DEFINE moved == DoTransfer(Storage, sender, from, to, item1)
             last == DoTransfer(moved, sender, from, to, item2)
  <2>1. /\ CanDoTransfer(Storage, sender, from, to, item1)
        /\ CanDoTransfer(moved, sender, from, to, item2)
        /\ SetStorage(last)
        /\ UNCHANGED restVars
    BY <1>5 DEF SalaryBatchTransfer
  <2>2. StorageOK(moved) /\ Keeps(Storage, moved) /\ SameSupply(Storage, moved)
    BY <1>1, <1>2, <2>1, DoTransferOK
  <2> HIDE DEF moved
  <2>3. StorageOK(last) /\ Keeps(moved, last) /\ SameSupply(moved, last)
    BY <1>1, <1>2, <2>1, <2>2, DoTransferOK
  <2> HIDE DEF last
  <2>4. Storage \in StorageType /\ moved \in StorageType /\ last \in StorageType
    BY <1>1, <2>2, <2>3 DEF StorageOK
  <2>5. Keeps(Storage, last)
    BY <2>2, <2>3, <2>4, KeepsTransitive
  <2>6. SameSupply(Storage, last)
    BY <2>2, <2>3 DEF SameSupply
  <2>7. QED
    BY <2>1, <2>3, <2>5, <2>6
<1>6. QED
  BY <1>3, <1>4, <1>5 DEF SalaryNext, MarketCall

\* Every step of a salary contract that the derived contracts do not change.
LEMMA SalaryStep ==
  ASSUME SalaryInv, SalaryNext
  PROVE  SalaryInv' /\ SalaryKeeps
<1>1. CASE MarketCall
  BY <1>1, MarketStep DEF MarketCall
<1>2. CASE HookReturns
  BY <1>2, HookStep
<1>3. CASE ~MarketCall /\ ~HookReturns
  BY <1>3, StorageWritten, StorageStep
<1>4. QED
  BY <1>1, <1>2, <1>3

\* A registration.
LEMMA RegisterStep ==
  ASSUME SalaryInv, NEW customer \in Account, Register(customer)
  PROVE  SalaryInv' /\ SalaryKeeps
<1>1. StorageOK(Storage) /\ blockTimestamp \in Nat \ {0}
  BY SalaryTypes DEF SalaryInv
<1>2. Storage.maxConditionId = maxConditionId
  BY DEF Storage
<1>3. QED
  BY <1>1, <1>2, RegisteredOK, StorageStep DEF Register

\* A step that leaves the contract as it is.
LEMMA IdleStep ==
  ASSUME SalaryInv, UNCHANGED salaryStateVars
  PROVE  SalaryInv' /\ SalaryKeeps
<1> USE DEF salaryStateVars, bidVars, lockVars, tokenVars, oracleVars, conditionVars,
            roundVars, collateralVars, resultVars, salaryVars, chainVars
<1>1. MarketTypeOK'
  BY SalaryTypes DEF MarketTypeOK, TokenTypeOK, LockTypeOK, CollateralTypeOK, ResultTypeOK
<1>2. MarketInv'
  BY <1>1, MarketFrame DEF SalaryInv
<1>3. balances' \in TokenMap
  BY SalaryTypes
<1>4. /\ StorageOK(Storage)'
      /\ SuspendedOK'
      /\ SupplyFollows
      /\ \A f \in Condition : Supply(Storage, f)' <= totalBalances'[f]
  BY <1>3, ChainsFrame
<1>5. ReceiversKept /\ ResultsFrozen
  BY SameReceivers DEF ResultsFrozen
<1>6. QED
  BY <1>2, <1>4, <1>5 DEF SalaryInv, SalaryKeeps

\* A salary is minted for the first condition of its chain.
LEMMA MintsForFirst ==
  ASSUME NEW s, StorageOK(s), NEW c \in Condition, IsLast(s, c)
  PROVE  s.first[c] = c /\ s.firstToLast[c] = c /\ c <= s.maxConditionId
<1>1. s.first[c] # 0 /\ s.firstToLast[s.first[c]] = c
  BY DEF IsLast
<1>2. ChainOK(s, c) /\ c \in Nat \ {0} /\ s.maxConditionId \in Nat
  BY DEF StorageOK, StorageType, Condition
<1>3. c <= s.maxConditionId /\ s.first[c] \in 1 .. c /\ s.firstToLast[c] = c
  BY <1>1, <1>2 DEF ChainOK
<1>4. s.first[c] \in Condition /\ s.first[c] <= s.maxConditionId
  BY <1>2, <1>3, TokenAssumption DEF Condition
<1>5. ChainOK(s, s.first[c])
  BY <1>4 DEF StorageOK
<1>6. s.firstToLast[s.first[c]] = s.first[c]
  BY <1>4, <1>5 DEF ChainOK
<1>7. QED
  BY <1>1, <1>3, <1>6

\* When the tokens of the first condition of a chain grow, so does the supply
\* of that chain and of no other.
LEMMA GrownSupply ==
  ASSUME NEW s \in StorageType, NEW u \in StorageType, NEW c \in Condition,
         s.first[c] = c, u.first = s.first, NEW amount \in Int,
         Holdings(u, c) = Holdings(s, c) + amount,
         \A d \in Condition : d # c => Holdings(u, d) = Holdings(s, d)
  PROVE  \A f \in Condition :
           Supply(u, f) = Supply(s, f) + (IF f = c THEN amount ELSE 0)
<1>1. \A d \in Condition : Holdings(s, d) \in Int /\ Holdings(u, d) \in Int
  BY HoldingsNat
<1>2. Supply(u, c) = Supply(s, c) + amount
  <2> DEFINE g == [d \in Condition |-> IF s.first[d] = c THEN Holdings(s, d) ELSE 0]
             h == [d \in Condition |-> IF u.first[d] = c THEN Holdings(u, d) ELSE 0]
  <2>1. /\ \A d \in Condition : g[d] \in Int
        /\ \A d \in Condition : d # c => h[d] = g[d]
        /\ g[c] = Holdings(s, c)
        /\ h[c] = Holdings(s, c) + amount
        /\ h[c] \in Int
    BY <1>1
  <2>2. Supply(s, c) = SumOver(g, Condition) /\ Supply(u, c) = SumOver(h, Condition)
    BY DEF Supply
  <2> HIDE DEF g, h
  <2>3. SumOver(h, Condition) = SumOver(g, Condition) - g[c] + h[c]
    BY <2>1, FiniteSets, SumChange
  <2>4. SumOver(g, Condition) \in Int
    BY <2>1, FiniteSets, SumType
  <2>5. QED
    BY <1>1, <2>1, <2>2, <2>3, <2>4
<1>3. ASSUME NEW f \in Condition, f # c
      PROVE  Supply(u, f) = Supply(s, f)
  <2>1. ASSUME NEW d \in Condition
        PROVE  (IF u.first[d] = f THEN Holdings(u, d) ELSE 0)
                 = (IF s.first[d] = f THEN Holdings(s, d) ELSE 0)
    <3>1. CASE d = c
      BY <1>3, <3>1
    <3>2. CASE d # c
      <4>1. Holdings(u, d) = Holdings(s, d)
        BY <3>2
      <4>2. QED
        BY <4>1
    <3>3. QED
      BY <3>1, <3>2
  <2>2. QED
    BY <2>1, SupplyTerms
<1>4. \A f \in Condition : Supply(s, f) \in Int
  BY SupplyNat
<1>5. QED
  BY <1>2, <1>3, <1>4

\* mintSalary, of a receiver that was not moved to another account: the date of
\* the payment moves by as many seconds as tokens are minted, but that of one
\* with a hook, where the call waits for the hook with the tokens minted.
LEMMA MintStep ==
  ASSUME SalaryInv, NEW sender \in Users, NEW c \in Condition,
         MintSalary(sender, c, sender)
  PROVE  SalaryInv' /\ SalaryKeeps
<1> DEFINE amount == blockTimestamp - lastSalaryDates[c]
           s == Storage
           u == Storage'
<1>1. /\ StorageOK(s)
      /\ s \in StorageType
      /\ blockTimestamp \in Nat \ {0}
      /\ balances \in TokenMap
      /\ totalBalances \in [TokenId -> Uint]
      /\ c \in TokenId
  BY SalaryTypes, CounterTokens DEF SalaryInv, MarketTypeOK, TokenTypeOK
<1>2. /\ s.balances = balances
      /\ s.maxConditionId = maxConditionId
      /\ s.lastSalary = lastSalaryDates
      /\ s.first = firstConditionInChain
      /\ s.firstToLast = firstToLastConditionInChain
  BY DEF Storage
<1> HIDE DEF s
<1>3. s.first[c] = c /\ s.firstToLast[c] = c /\ c <= s.maxConditionId
  <2>1. IsLast(s, c)
    BY DEF MintSalary, s
  <2>2. QED
    BY <1>1, <2>1, MintsForFirst
<1>4. /\ totalBalances[c] + amount <= MaxUint
      /\ balances' = MintedBalances(balances, sender, c, amount)
      /\ totalBalances' = MintedTotals(totalBalances, c, amount)
      /\ conditionOwners[c] = sender
      /\ \/ /\ sender \in Reentrant
            /\ suspended' = <<c>> \o suspended
            /\ lastSalaryDates' = lastSalaryDates
         \/ /\ lastSalaryDates' = [lastSalaryDates EXCEPT ![c] = blockTimestamp]
            /\ suspended' = suspended
      /\ UNCHANGED <<operatorApprovals, oracleVars, conditionVars, userUsedRedeemMap,
                     roundVars, blockTimestamp, collateralVars, resultVars, chainVars>>
  BY <1>2, <1>3 DEF MintSalary, CanMint
<1>5. lastSalaryDates[c] \in 0 .. blockTimestamp
  BY <1>1, <1>2 DEF StorageType
<1>6. amount \in Nat /\ sender \in Account
  BY <1>1, <1>5 DEF Account
<1>7. /\ balances' \in TokenMap
      /\ totalBalances' \in [TokenId -> Uint]
      /\ totalBalances'[c] = totalBalances[c] + amount
      /\ \A i \in TokenId : i # c => /\ totalBalances'[i] = totalBalances[i]
                                     /\ balances'[i] = balances[i]
  <2> HIDE DEF amount
  <2>1. QED
    BY <1>1, <1>4, <1>6, MintType
<1>8. /\ u.balances = balances'
      /\ u.maxConditionId = s.maxConditionId
      /\ u.owners = s.owners
      /\ u.receivers = s.receivers
      /\ u.created = s.created
      /\ u.first = s.first
      /\ u.firstToLast = s.firstToLast
      /\ u.lastSalary = lastSalaryDates'
      /\ s.receivers = salaryReceivers
      /\ s.owners = conditionOwners
  BY <1>2, <1>4 DEF s, Storage, conditionVars, chainVars
<1>9. u \in StorageType
  <2>1. /\ maxConditionId' = maxConditionId
        /\ conditionOwners' = conditionOwners
        /\ salaryReceivers' = salaryReceivers
        /\ conditionCreationDates' = conditionCreationDates
        /\ firstConditionInChain' = firstConditionInChain
        /\ firstToLastConditionInChain' = firstToLastConditionInChain
    BY <1>4 DEF conditionVars, chainVars
  <2>2. blockTimestamp \in 0 .. blockTimestamp
    BY <1>1
  <2>3. lastSalaryDates \in [Condition -> 0 .. blockTimestamp]
    BY <1>1, <1>2 DEF StorageType
  <2>4. lastSalaryDates' \in [Condition -> 0 .. blockTimestamp]
    BY <1>4, <2>2, <2>3
  <2>5. QED
    BY <1>1, <1>7, <2>1, <2>4 DEF s, Storage, StorageType
<1>10. /\ Holdings(s, c) \in Nat
       /\ Holdings(s, c) <= Supply(s, c)
       /\ Supply(s, c) \in Nat
       /\ Supply(s, c) <= totalBalances[c]
  BY <1>1, <1>3, HoldingsNat, SupplyNat DEF SalaryInv, s
<1>11. /\ Holdings(u, c) = Holdings(s, c) + amount
       /\ \A d \in Condition : d # c => Holdings(u, d) = Holdings(s, d)
  <2>1. SumOver(balances[c], Account) + amount <= MaxUint
    BY <1>1, <1>2, <1>4, <1>6, <1>10, TokenAssumption DEF Holdings, Uint
  <2> HIDE DEF amount
  <2>2. SumOver(balances'[c], Account) = SumOver(balances[c], Account) + amount
    BY <1>1, <1>4, <1>6, <2>1, MintAddsToSum
  <2>3. Holdings(u, c) = SumOver(balances'[c], Account)
    BY <1>8 DEF Holdings
  <2>4. Holdings(s, c) = SumOver(balances[c], Account)
    BY <1>2 DEF Holdings
  <2>5. ASSUME NEW d \in Condition, d # c PROVE Holdings(u, d) = Holdings(s, d)
    <3>1. balances'[d] = balances[d]
      BY <1>7, <2>5, CounterTokens
    <3>2. QED
      BY <1>2, <1>8, <3>1 DEF Holdings
  <2>6. QED
    BY <2>2, <2>3, <2>4, <2>5
<1>12. \A f \in Condition : Supply(u, f) = Supply(s, f) + (IF f = c THEN amount ELSE 0)
  <2> HIDE DEF amount, u
  <2>1. QED
    BY <1>1, <1>3, <1>6, <1>8, <1>9, <1>11, GrownSupply
<1> HIDE DEF u
<1>13. \A d \in Condition : ChainOK(u, d)
  BY <1>1, <1>8 DEF StorageOK, ChainOK
<1>14. s.receivers[c] = sender
  <2>1. ChainOK(s, c)
    BY <1>1 DEF StorageOK
  <2>2. QED
    BY <1>3, <1>4, <1>8, <2>1 DEF ChainOK
<1>15. ASSUME NEW d \in Condition
       PROVE  RateOK(u, d, totalBalances')
  <2>1. RateOK(s, d, totalBalances)
    BY <1>1 DEF StorageOK
  <2>2. CASE d # c
    <3>1. u.lastSalary[d] = s.lastSalary[d] /\ totalBalances'[d] = totalBalances[d]
      BY <1>1, <1>2, <1>4, <1>7, <1>8, <2>2, CounterTokens DEF StorageType
    <3>2. QED
      BY <1>8, <2>1, <3>1 DEF RateOK
  <2>3. CASE d = c
    <3>1. /\ \/ u.lastSalary[c] = blockTimestamp
             \/ sender \in Reentrant /\ u.lastSalary[c] = lastSalaryDates[c]
          /\ s.lastSalary[c] = lastSalaryDates[c]
          /\ s.created[c] \in Int
          /\ lastSalaryDates[c] \in Int
          /\ lastSalaryDates[c] <= blockTimestamp
          /\ totalBalances[c] \in Int
      BY <1>1, <1>2, <1>4, <1>5, <1>8 DEF StorageType, Uint
    <3>2. /\ totalBalances[c] >= lastSalaryDates[c] - s.created[c]
          /\ sender \notin Reentrant =>
               totalBalances[c] = lastSalaryDates[c] - s.created[c]
      BY <1>3, <1>14, <2>1, <2>3, <3>1 DEF RateOK
    <3>3. /\ totalBalances'[c] >= blockTimestamp - s.created[c]
          /\ sender \notin Reentrant => totalBalances'[c] = blockTimestamp - s.created[c]
      BY <1>1, <1>7, <3>1, <3>2
    <3>4. totalBalances'[c] \in Int /\ blockTimestamp \in Int
      BY <1>1, <1>7 DEF Uint
    <3>5. QED
      BY <1>3, <1>8, <1>14, <2>3, <3>1, <3>3, <3>4 DEF RateOK
  <2>4. QED
    BY <2>2, <2>3
<1>16. EmptyBeyond(u)
  <2>1. ASSUME NEW d \in Condition, d > u.maxConditionId PROVE Holdings(u, d) = 0
    <3>1. d # c /\ Holdings(s, d) = 0
      BY <1>1, <1>3, <1>8, <2>1 DEF StorageOK, EmptyBeyond, StorageType, Condition
    <3>2. QED
      BY <1>11, <3>1
  <2>2. QED
    BY <2>1 DEF EmptyBeyond
<1>17. StorageOK(Storage)'
  <2>1. StorageType' = StorageType
    BY <1>4 DEF StorageType
  <2>2. QED
    BY <1>9, <1>13, <1>15, <1>16, <2>1
    DEF StorageOK, EmptyBeyond, Holdings, ChainOK, RateOK, u
<1>18. SupplyFollows /\ \A f \in Condition : Supply(Storage, f)' <= totalBalances'[f]
  <2>1. ASSUME NEW f \in Condition
        PROVE  /\ Supply(Storage, f)' - totalBalances'[f]
                    = Supply(Storage, f) - totalBalances[f]
               /\ Supply(Storage, f)' <= totalBalances'[f]
    <3>1. Supply(Storage, f)' = Supply(u, f)
      BY DEF Supply, Holdings, u
    <3>2. totalBalances'[f] = totalBalances[f] + (IF f = c THEN amount ELSE 0)
      BY <1>1, <1>6, <1>7, CounterTokens DEF Uint
    <3>3. /\ Supply(Storage, f) \in Nat
          /\ totalBalances[f] \in Nat
          /\ Supply(Storage, f) <= totalBalances[f]
      BY SalaryTypes, SupplyNat DEF SalaryInv
    <3>4. Supply(u, f) = Supply(Storage, f) + (IF f = c THEN amount ELSE 0)
      BY <1>12 DEF s
    <3> HIDE DEF amount
    <3>5. QED
      BY <1>6, <3>1, <3>2, <3>3, <3>4
  <2>2. QED
    BY <2>1 DEF SupplyFollows
<1>19. MarketInv'
  <2>1. MarketTypeOK'
    BY <1>4, <1>7, SalaryTypes
    DEF MarketTypeOK, TokenTypeOK, LockTypeOK, CollateralTypeOK, ResultTypeOK, TokenMap,
        oracleVars, conditionVars, roundVars, collateralVars, resultVars
  <2>2. \A id \in CounterIds : totalBalances'[id] = totalBalances[id]
    BY <1>7, CounterTokens
  <2>3. QED
    BY <1>4, <2>1, <2>2, MarketFrame DEF SalaryInv, collateralVars, resultVars
<1>20. ReceiversKept /\ ResultsFrozen
  BY <1>4, SameReceivers DEF conditionVars, chainVars, ResultsFrozen, resultVars
<1>21. SuspendedOK'
  <2> DEFINE ok(d) == PaidUpTo(u, d, totalBalances')
  <2>1. sender \in Reentrant => ok(c)
    <3>1. RateOK(s, c, totalBalances) /\ s.created[c] \in Int /\ s.lastSalary[c] \in Int
      BY <1>1 DEF StorageOK, StorageType
    <3>2. totalBalances[c] >= s.lastSalary[c] - s.created[c]
      BY <1>3, <3>1 DEF RateOK
    <3>3. totalBalances'[c] >= blockTimestamp - s.created[c]
      BY <1>1, <1>2, <1>7, <3>1, <3>2 DEF Uint
    <3>4. QED
      BY <1>3, <1>8, <1>14, <3>3 DEF PaidUpTo
  <2>2. suspended \in Seq(Condition) /\ \A i \in 1 .. Len(suspended) : ok(suspended[i])
    <3>1. /\ suspended \in Seq(Condition)
          /\ \A i \in 1 .. Len(suspended) : PaidUpTo(s, suspended[i], totalBalances)
      BY DEF SalaryInv, SuspendedOK, s
    <3>2. \A d \in Condition : /\ totalBalances'[d] >= totalBalances[d]
                                /\ totalBalances[d] \in Int
                                /\ totalBalances'[d] \in Int
                                /\ s.created[d] \in Int
      BY <1>1, <1>6, <1>7, CounterTokens DEF Uint, StorageType
    <3> HIDE DEF amount
    <3>3. \A d \in Condition : PaidUpTo(s, d, totalBalances) => ok(d)
      BY <1>1, <1>8, <3>2 DEF PaidUpTo
    <3>4. QED
      BY <3>1, <3>3
  <2>3. /\ suspended' \in Seq(Condition)
        /\ \A i \in 1 .. Len(suspended') : ok(suspended'[i])
    <3> HIDE DEF ok
    <3>1. CASE suspended' = suspended
      BY <2>2, <3>1
    <3>2. CASE sender \in Reentrant /\ suspended' = <<c>> \o suspended
      <4>1. ok(c)
        BY <2>1, <3>2
      <4>2. /\ suspended' \in Seq(Condition)
            /\ Len(suspended') = Len(suspended) + 1
            /\ suspended'[1] = c
            /\ \A i \in 1 .. Len(suspended) : suspended'[i + 1] = suspended[i]
        BY <2>2, <3>2
      <4>3. ASSUME NEW i \in 1 .. Len(suspended') PROVE ok(suspended'[i])
        <5>1. CASE i = 1
          BY <4>1, <4>2, <5>1
        <5>2. CASE i # 1
          <6>1. i - 1 \in 1 .. Len(suspended) /\ i = (i - 1) + 1
            BY <2>2, <4>2, <5>2
          <6>2. suspended'[i] = suspended[i - 1]
            BY <4>2, <6>1
          <6>3. QED
            BY <2>2, <6>1, <6>2
        <5>3. QED
          BY <5>1, <5>2
      <4>4. QED
        BY <4>2, <4>3
    <3>3. QED
      BY <1>4, <3>1, <3>2
  <2>4. QED
    BY <1>4, <2>3 DEF SuspendedOK, PaidUpTo, u
<1>22. QED
  BY <1>17, <1>18, <1>19, <1>20, <1>21 DEF SalaryInv, SalaryKeeps

\* A contract is deployed with no conditions and no tokens.
LEMMA SalaryStart ==
  ASSUME SalaryInit
  PROVE  /\ SalaryInv
         /\ \A f \in Condition : Supply(Storage, f) = totalBalances[f]
<1>1. MarketInv
  BY MarketInit DEF SalaryInit
<1>2. /\ 0 \in Uint
      /\ 0 \in 0 .. MaxCondition
      /\ Null \in Account
      /\ 0 \in 0 .. blockTimestamp
  <2>1. blockTimestamp = 1
    BY DEF SalaryInit, BidInit, LockInit
  <2>2. QED
    BY <2>1, TokenAssumption DEF Uint, Account
<1>3. Storage \in StorageType
  <2>1. /\ balances = [id \in TokenId |-> [a \in Account |-> 0]]
        /\ maxConditionId = 0
        /\ conditionOwners = [c \in Condition |-> Null]
        /\ conditionCreationDates = [c \in Condition |-> 0]
        /\ lastSalaryDates = [c \in Condition |-> 0]
        /\ salaryReceivers = [c \in Condition |-> Null]
        /\ firstConditionInChain = [c \in Condition |-> 0]
        /\ firstToLastConditionInChain = [c \in Condition |-> 0]
    BY DEF SalaryInit, BidInit, LockInit, TokenInit
  <2>2. QED
    BY <1>2, <2>1 DEF Storage, StorageType, TokenMap
<1>4. ASSUME NEW c \in Condition
      PROVE  /\ Storage.maxConditionId = 0
             /\ Storage.first[c] = 0
             /\ Storage.receivers[c] = Null
             /\ Storage.firstToLast[c] = 0
             /\ \A a \in Account : Storage.balances[c][a] = 0
             /\ totalBalances[c] = 0
             /\ c \in Nat \ {0}
  <2>1. c \in TokenId /\ c \in Nat \ {0}
    BY CounterTokens DEF Condition
  <2>2. /\ maxConditionId = 0
        /\ firstConditionInChain[c] = 0
        /\ salaryReceivers[c] = Null
        /\ firstToLastConditionInChain[c] = 0
    BY DEF SalaryInit, BidInit, LockInit
  <2>3. totalBalances[c] = 0 /\ \A a \in Account : balances[c][a] = 0
    BY <2>1 DEF SalaryInit, BidInit, LockInit, TokenInit
  <2>4. QED
    BY <2>1, <2>2, <2>3 DEF Storage
<1>5. ASSUME NEW c \in Condition
      PROVE  ChainOK(Storage, c) /\ RateOK(Storage, c, totalBalances)
  BY <1>4 DEF ChainOK, RateOK
<1>6. EmptyBeyond(Storage)
  <2>1. ASSUME NEW c \in Condition PROVE Holdings(Storage, c) = 0
    <3>1. SumOver(Storage.balances[c], Account) = 0
      BY <1>4, FiniteSets, SumZero
    <3>2. QED
      BY <3>1 DEF Holdings
  <2>2. QED
    BY <2>1 DEF EmptyBeyond
<1>7. ASSUME NEW f \in Condition
      PROVE  Supply(Storage, f) = 0 /\ totalBalances[f] = 0
  <2> DEFINE g == [c \in Condition |->
                     IF Storage.first[c] = f THEN Holdings(Storage, c) ELSE 0]
  <2>1. \A c \in Condition : g[c] = 0
    BY <1>4
  <2>2. Supply(Storage, f) = SumOver(g, Condition)
    BY DEF Supply
  <2> HIDE DEF g
  <2>3. SumOver(g, Condition) = 0
    BY <2>1, FiniteSets, SumZero
  <2>4. QED
    BY <1>4, <2>2, <2>3
<1>8. SuspendedOK
  BY DEF SalaryInit, SuspendedOK
<1>9. QED
  BY <1>1, <1>3, <1>5, <1>6, <1>7, <1>8 DEF SalaryInv, StorageOK

-----------------------------------------------------------------------------
(***************************************************************************)
(* What the invariant means for the properties of BaseSalary               *)
(***************************************************************************)

\* Chains are rooted in a first condition of the same person.
LEMMA InvChainRoots == SalaryInv => ChainRoots
<1> SUFFICES ASSUME SalaryInv, NEW c \in Condition
             PROVE  IF c \in Created
                    THEN LET f == firstConditionInChain[c]
                         IN /\ f \in 1 .. c
                            /\ firstConditionInChain[f] = f
                            /\ salaryReceivers[c] = salaryReceivers[f]
                            /\ conditionOwners[c] = salaryReceivers[c]
                    ELSE /\ firstConditionInChain[c] = 0
                         /\ salaryReceivers[c] = Null
  BY DEF ChainRoots
<1>1. ChainOK(Storage, c) /\ c \in Nat \ {0}
  BY DEF SalaryInv, StorageOK, Condition
<1>2. maxConditionId \in Nat
  BY SalaryTypes
<1>3. QED
  BY <1>1, <1>2 DEF ChainOK, Storage, Created

\* A salary is paid for every second, and once if its receiver makes no calls.
LEMMA InvSalaryRate == SalaryInv => SalaryRate
<1> DEFINE seconds(c) == lastSalaryDates[c] - conditionCreationDates[c]
<1> SUFFICES ASSUME SalaryInv, NEW c \in Created
             PROVE  IF firstConditionInChain[c] # c THEN totalBalances[c] = 0
                    ELSE /\ totalBalances[c] >= seconds(c)
                         /\ salaryReceivers[c] \notin Reentrant =>
                              totalBalances[c] = seconds(c)
  BY DEF SalaryRate
<1>1. c \in Condition /\ c <= maxConditionId
  BY SalaryTypes
<1>2. RateOK(Storage, c, totalBalances)
  BY <1>1 DEF SalaryInv, StorageOK
<1>3. QED
  BY <1>1, <1>2 DEF RateOK, Storage

\* The supply of the invariant is that of the properties.
LEMMA ChainSupplyIs ==
  ASSUME SalaryInv, NEW f \in Created
  PROVE  f \in Condition /\ ChainSupply(f) = Supply(Storage, f)
<1>1. /\ f \in Condition
      /\ Storage \in StorageType
      /\ maxConditionId \in 0 .. MaxCondition
      /\ \A c \in Created : c \in Condition
  BY SalaryTypes
<1> DEFINE sums == [c \in Condition |-> SumOver(balances[c], Account)]
           terms == [c \in Condition |->
                       IF Storage.first[c] = f THEN Holdings(Storage, c) ELSE 0]
           chain == {c \in Created : firstConditionInChain[c] = f}
<1>2. ASSUME NEW c \in Condition
      PROVE  sums[c] = Holdings(Storage, c) /\ sums[c] \in Int
  <2>1. sums[c] = Holdings(Storage, c)
    BY DEF Holdings, Storage
  <2>2. QED
    BY <1>1, <2>1, HoldingsNat
<1>3. chain \in SUBSET Condition
  BY <1>1
<1>4. ASSUME NEW c \in Condition
      PROVE  c \in chain <=> Storage.first[c] = f
  <2>1. Storage.first[c] = firstConditionInChain[c]
    BY DEF Storage
  <2>2. c \notin Created => firstConditionInChain[c] = 0
    BY InvChainRoots DEF ChainRoots
  <2>3. f # 0
    BY <1>1 DEF Condition
  <2>4. QED
    BY <2>1, <2>2, <2>3
<1>5. \A c \in Condition : terms[c] = IF c \in chain THEN sums[c] ELSE 0
  BY <1>2, <1>4
<1>6. ChainSupply(f) = SumOver(sums, chain) /\ Supply(Storage, f) = SumOver(terms, Condition)
  BY DEF ChainSupply, Supply
<1> HIDE DEF sums, terms, chain
<1>7. SumOver(terms, Condition) = SumOver(sums, chain)
  BY <1>2, <1>3, <1>5, FiniteSets, SumPart
<1>8. QED
  BY <1>1, <1>6, <1>7

=============================================================================
