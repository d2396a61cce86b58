------------------------ MODULE SalaryWithDAOProofs -------------------------
(***************************************************************************)
(* Theorems on the contract that is to be deployed, for every number of    *)
(* users, oracles, conditions and collateral tokens and every width of     *)
(* integers.                                                               *)
(***************************************************************************)
EXTENDS SalaryWithDAO, BaseSalaryProofs

\* The types of what is neither a salary nor a connection of accounts.
DAOTypeOK ==
  /\ permitRefused \in BOOLEAN
  /\ daoPlugin \in DAOPlugins
  /\ underDAOControl \in [Account -> BOOLEAN]
  /\ accountHasSalary \in [Account -> BOOLEAN]

\* The maps that connect accounts are empty.
NoAccountRestored ==
  /\ originalAddresses = [a \in Account |-> Null]
  /\ originalToCurrentAddresses = [a \in Account |-> Null]
  /\ newToOldAccount = [a \in Account |-> Null]

\* The inductive invariant.  That no account is restored is a part of it: a
\* salary would otherwise be registered and paid under another address.
Inv ==
  /\ SalaryInv
  /\ DAOTypeOK
  /\ NoAccountRestored

-----------------------------------------------------------------------------
(***************************************************************************)
(* Restorations                                                            *)
(***************************************************************************)

\* Permissions are refused: nobody has an entry yet, so nobody gets one.
LEMMA NothingPermitted ==
  ASSUME NoAccountRestored, NEW old \in Account, NEW new \in Account
  PROVE  ~ZeroAddressAvoided(old, new)
BY DEF NoAccountRestored, ZeroAddressAvoided

\* Assigning one balance to another account and clearing it keeps the width; of
\* the token that is restored, what the new account had is lost.
LEMMA RestoredSums ==
  ASSUME NEW b \in TokenMap, NEW old \in Account, NEW new \in Account,
         NEW id \in TokenId
  PROVE  /\ RestoredBalances(b, old, new, id) \in TokenMap
         /\ \A i \in TokenId :
              SumOver(RestoredBalances(b, old, new, id)[i], Account)
                <= SumOver(b[i], Account)
<1> DEFINE copied == [b EXCEPT ![id][new] = b[id][old]]
           restored == [copied EXCEPT ![id][old] = 0]
           before == b[id]
           between == copied[id]
           after == restored[id]
<1>1. b[id][old] \in Uint /\ 0 \in Uint
  BY TokenAssumption DEF TokenMap, Uint
<1>2. copied \in TokenMap /\ restored \in TokenMap
  BY <1>1 DEF TokenMap
<1>3. \A a \in Account : before[a] \in Nat
  BY DEF TokenMap, Uint
<1>4. /\ between[new] = before[old]
      /\ between[old] = before[old]
      /\ \A a \in Account : a # new => between[a] = before[a]
      /\ after[old] = 0
      /\ \A a \in Account : a # old => after[a] = between[a]
      /\ \A i \in TokenId : i # id => restored[i] = b[i]
  BY DEF TokenMap
<1>5. \A i \in TokenId : SumOver(b[i], Account) \in Nat
  <2>1. ASSUME NEW i \in TokenId PROVE \A a \in Account : b[i][a] \in Nat
    BY DEF TokenMap, Uint
  <2>2. QED
    BY <2>1, FiniteSets, SumType
<1>6. RestoredBalances(b, old, new, id) = restored
  BY DEF RestoredBalances
<1>7. SumOver(before, Account) \in Nat
  BY <1>5
<1>8. \A i \in TokenId : i # id => SumOver(restored[i], Account) <= SumOver(b[i], Account)
  <2>1. \A i \in TokenId : SumOver(b[i], Account) <= SumOver(b[i], Account)
    BY <1>5
  <2> HIDE DEF restored
  <2>2. QED
    BY <1>4, <2>1
<1>9. SumOver(after, Account) <= SumOver(before, Account)
  <2> HIDE DEF before, between, after
  <2>1. \A a \in Account : between[a] \in Int /\ before[a] \in Int
    BY <1>3, <1>4
  <2>2. SumOver(between, Account) = SumOver(before, Account) - before[new] + between[new]
    BY <1>4, <2>1, FiniteSets, SumChange
  <2>3. after[old] \in Int
    BY <1>4
  <2>4. SumOver(after, Account) = SumOver(between, Account) - between[old] + after[old]
    BY <1>4, <2>1, <2>3, FiniteSets, SumChange
  <2>5. SumOver(after, Account) = SumOver(before, Account) - before[new]
    BY <1>4, <1>7, <2>1, <2>2, <2>4
  <2>6. QED
    BY <1>3, <1>7, <2>5
<1> HIDE DEF restored
<1>10. QED
  BY <1>2, <1>6, <1>8, <1>9 DEF after, before

\* A step that only changes balances, and raises no sum of them.
LEMMA LoweredStep ==
  ASSUME SalaryInv, balances' \in TokenMap,
         \A i \in TokenId : SumOver(balances'[i], Account) <= SumOver(balances[i], Account),
         UNCHANGED <<totalBalances, operatorApprovals, oracleVars, conditionVars,
                     userUsedRedeemMap, roundVars, blockTimestamp, collateralVars,
                     resultVars, salaryVars>>
  PROVE  SalaryInv' /\ ReceiversKept /\ ResultsFrozen
<1> DEFINE s == Storage
           t == [s EXCEPT !.balances = balances']
<1>1. StorageOK(s) /\ s \in StorageType /\ s.balances = balances
  BY SalaryTypes DEF SalaryInv, Storage
<1>2. Storage' = t
  BY DEF Storage, conditionVars, salaryVars, chainVars
<1> HIDE DEF s
<1>3. /\ t \in StorageType
      /\ t.balances = balances'
      /\ t.maxConditionId = s.maxConditionId
      /\ t.owners = s.owners
      /\ t.receivers = s.receivers
      /\ t.created = s.created
      /\ t.lastSalary = s.lastSalary
      /\ t.first = s.first
      /\ t.firstToLast = s.firstToLast
  BY <1>1 DEF StorageType
<1> HIDE DEF t
<1>4. \A c \in Condition : /\ Holdings(t, c) <= Holdings(s, c)
                           /\ Holdings(t, c) \in Nat
                           /\ Holdings(s, c) \in Nat
  <2>1. \A c \in Condition : Holdings(t, c) <= Holdings(s, c)
    BY <1>1, <1>3, CounterTokens DEF Holdings
  <2>2. QED
    BY <1>1, <1>3, <2>1, HoldingsNat
<1>5. EmptyBeyond(t)
  <2>1. ASSUME NEW c \in Condition, c > t.maxConditionId PROVE Holdings(t, c) = 0
    <3>1. Holdings(s, c) = 0
      BY <1>1, <1>3, <2>1 DEF StorageOK, EmptyBeyond
    <3>2. QED
      BY <1>4, <3>1
  <2>2. QED
    BY <2>1 DEF EmptyBeyond
<1>6. \A c \in Condition : ChainOK(t, c) /\ RateOK(t, c, totalBalances)
  BY <1>1, <1>3 DEF StorageOK, ChainOK, RateOK
<1>7. StorageOK(Storage)'
  <2>1. StorageType' = StorageType
    BY DEF StorageType
  <2>2. QED
    BY <1>2, <1>3, <1>5, <1>6, <2>1
    DEF StorageOK, EmptyBeyond, Holdings, ChainOK, RateOK
<1>8. ASSUME NEW f \in Condition
      PROVE  Supply(Storage, f)' <= totalBalances'[f]
  <2> DEFINE g == [c \in Condition |-> IF s.first[c] = f THEN Holdings(s, c) ELSE 0]
             h == [c \in Condition |-> IF t.first[c] = f THEN Holdings(t, c) ELSE 0]
  <2>1. \A c \in Condition : g[c] \in Int /\ h[c] \in Int /\ h[c] <= g[c]
    BY <1>3, <1>4
  <2>2. Supply(s, f) = SumOver(g, Condition) /\ Supply(t, f) = SumOver(h, Condition)
    BY DEF Supply
  <2> HIDE DEF g, h
  <2>3. SumOver(h, Condition) <= SumOver(g, Condition)
    BY <2>1, FiniteSets, SumMonotone
  <2>4. Supply(s, f) <= totalBalances[f] /\ totalBalances[f] \in Nat
    BY SalaryTypes DEF SalaryInv, s
  <2>5. Supply(s, f) \in Nat /\ Supply(t, f) \in Nat
    BY <1>1, <1>3, SupplyNat
  <2>6. Supply(Storage, f)' = Supply(t, f)
    BY <1>2 DEF Supply, Holdings
  <2>7. QED
    BY <2>2, <2>3, <2>4, <2>5, <2>6
<1>9. MarketInv'
  <2>1. MarketTypeOK'
    BY SalaryTypes
    DEF MarketTypeOK, TokenTypeOK, LockTypeOK, CollateralTypeOK, ResultTypeOK, TokenMap,
        oracleVars, conditionVars, roundVars, collateralVars, resultVars
  <2>2. QED
    BY <2>1, MarketFrame DEF SalaryInv, collateralVars, resultVars
<1>10. ReceiversKept /\ ResultsFrozen
  BY SameReceivers DEF conditionVars, salaryVars, chainVars, ResultsFrozen, resultVars
<1>11. SuspendedOK'
  <2>1. Keeps(s, t)
    BY <1>1, <1>3 DEF Keeps, StorageType
  <2>2. suspended' = suspended /\ blockTimestamp' = blockTimestamp
    BY DEF salaryVars
  <2>3. \A c \in Condition : totalBalances[c] \in Int /\ totalBalances'[c] >= totalBalances[c]
    BY SalaryTypes
  <2>4. blockTimestamp \in Int /\ t.maxConditionId \in Int
    BY <1>3, SalaryTypes DEF StorageType
  <2>5. QED
    BY <1>2, <2>1, <2>2, <2>3, <2>4, SalaryTypes, StillSuspended DEF SalaryInv, s
<1>12. QED
  BY <1>7, <1>8, <1>9, <1>10, <1>11 DEF SalaryInv

-----------------------------------------------------------------------------
(***************************************************************************)
(* Every step preserves the invariant                                      *)
(***************************************************************************)

\* A step of the account functions, whatever attorneys are allowed.
LEMMA AccountStep ==
  ASSUME Inv, NEW sender \in Users, NEW old \in Account, AccountNext(sender, old),
         UNCHANGED daoVars
  PROVE  Inv' /\ ReceiversKept /\ ResultsFrozen
<1> DEFINE others == <<totalBalances, operatorApprovals, oracleVars, conditionVars,
                       userUsedRedeemMap, roundVars, blockTimestamp, collateralVars,
                       resultVars, salaryVars, restorableVars>>
<1>1. SalaryInv /\ balances \in TokenMap
  BY SalaryTypes DEF Inv
<1>2. ASSUME balances' \in TokenMap, UNCHANGED others,
             \A i \in TokenId :
               SumOver(balances'[i], Account) <= SumOver(balances[i], Account)
      PROVE  Inv' /\ ReceiversKept /\ ResultsFrozen
  <2>1. SalaryInv' /\ ReceiversKept /\ ResultsFrozen
    BY <1>1, <1>2, LoweredStep
  <2>2. DAOTypeOK' /\ NoAccountRestored'
    BY <1>2 DEF Inv, DAOTypeOK, NoAccountRestored, restorableVars, accountVars, daoVars
  <2>3. QED
    BY <2>1, <2>2 DEF Inv
<1>3. ASSUME permitRefused' \in BOOLEAN, UNCHANGED <<bidVars, salaryVars, accountVars>>
      PROVE  Inv' /\ ReceiversKept /\ ResultsFrozen
  <2>1. SalaryInv' /\ ReceiversKept /\ ResultsFrozen
    BY <1>1, <1>3, IdleStep DEF salaryStateVars, SalaryKeeps
  <2>2. DAOTypeOK' /\ NoAccountRestored'
    BY <1>3 DEF Inv, DAOTypeOK, NoAccountRestored, accountVars, daoVars
  <2>3. QED
    BY <2>1, <2>2 DEF Inv
<1>4. ASSUME NEW new \in Users, Permit(sender, old, new)
      PROVE  Inv' /\ ReceiversKept /\ ResultsFrozen
  <2>1. ~ZeroAddressAvoided(old, new)
    BY NothingPermitted DEF Inv, Account
  <2>2. UNCHANGED <<bidVars, salaryVars, accountVars>> /\ permitRefused' \in BOOLEAN
    BY <1>4, <2>1 DEF Permit, PermitRestoreAccount, Inv, DAOTypeOK
  <2>3. QED
    BY <1>3, <2>2
<1>5. ASSUME NEW new \in Users, Dispermit(old, new)
      PROVE  Inv' /\ ReceiversKept /\ ResultsFrozen
  <2>1. ~ZeroAddressAvoided(old, new)
    BY NothingPermitted DEF Inv, Account
  <2>2. UNCHANGED <<bidVars, salaryVars, accountVars>> /\ permitRefused' \in BOOLEAN
    BY <1>5, <2>1 DEF Dispermit, DispermitRestoreAccount, Inv, DAOTypeOK
  <2>3. QED
    BY <1>3, <2>2
<1>6. ASSUME NEW new \in Account, NEW id \in TokenId, Restore(sender, old, new, id)
      PROVE  Inv' /\ ReceiversKept /\ ResultsFrozen
  <2>1. balances' = RestoredBalances(balances, old, new, id) /\ UNCHANGED others
    BY <1>6 DEF Restore, RestoreFunds
  <2>2. /\ balances' \in TokenMap
        /\ \A i \in TokenId :
             SumOver(balances'[i], Account) <= SumOver(balances[i], Account)
    BY <1>1, <2>1, RestoredSums
  <2>3. QED
    BY <1>2, <2>1, <2>2
<1>7. ASSUME NEW new \in Account, NEW id1 \in TokenId, NEW id2 \in TokenId,
             RestoreBatch(sender, old, new, id1, id2)
      PROVE  Inv' /\ ReceiversKept /\ ResultsFrozen
  <2> DEFINE b == RestoredBalances(balances, old, new, id1)
  <2>1. balances' = RestoredBalances(b, old, new, id2) /\ UNCHANGED others
    BY <1>7 DEF RestoreBatch, RestoreFundsBatch
  <2>2. /\ b \in TokenMap
        /\ \A i \in TokenId : SumOver(b[i], Account) <= SumOver(balances[i], Account)
    BY <1>1, RestoredSums
  <2> HIDE DEF b
  <2>3. /\ balances' \in TokenMap
        /\ \A i \in TokenId : SumOver(balances'[i], Account) <= SumOver(b[i], Account)
    BY <2>1, <2>2, RestoredSums
  <2>4. ASSUME NEW i \in TokenId
        PROVE  SumOver(balances'[i], Account) <= SumOver(balances[i], Account)
    <3>1. \A x \in TokenMap : SumOver(x[i], Account) \in Int
      <4>1. ASSUME NEW x \in TokenMap PROVE \A a \in Account : x[i][a] \in Int
        BY DEF TokenMap, Uint
      <4>2. QED
        BY <4>1, FiniteSets, SumType
    <3>2. /\ SumOver(balances'[i], Account) \in Int
          /\ SumOver(b[i], Account) \in Int
          /\ SumOver(balances[i], Account) \in Int
      BY <1>1, <2>2, <2>3, <3>1
    <3>3. QED
      BY <2>2, <2>3, <3>2
  <2>5. QED
    BY <1>2, <2>1, <2>3, <2>4
<1>8. QED
  BY <1>4, <1>5, <1>6, <1>7 DEF AccountNext

\* The contract is deployed in the invariant.
LEMMA InitInv == Init => Inv
<1> SUFFICES ASSUME Init PROVE Inv
  OBVIOUS
<1>1. SalaryInv
  BY SalaryStart DEF Init, RestorableInit
<1>2. DAOTypeOK /\ NoAccountRestored
  BY DEF Init, RestorableInit, DAOTypeOK, NoAccountRestored
<1>3. QED
  BY <1>1, <1>2 DEF Inv

\* Every transaction of Next keeps the invariant, the receivers of salaries
\* and the results of finished oracles.
LEMMA NextKeeps ==
  ASSUME Inv, [Next]_vars
  PROVE  Inv' /\ ReceiversKept /\ ResultsFrozen
<1>1. SalaryInv /\ DAOTypeOK /\ NoAccountRestored
  BY DEF Inv
<1>2. ASSUME SalaryInv' /\ SalaryKeeps, UNCHANGED <<restorableVars, daoVars>>
      PROVE  Inv' /\ ReceiversKept /\ ResultsFrozen
  BY <1>1, <1>2 DEF Inv, SalaryKeeps, DAOTypeOK, NoAccountRestored, restorableVars,
                    accountVars, daoVars
<1>3. CASE UNCHANGED vars
  <2>1. SalaryInv' /\ SalaryKeeps
    BY <1>1, <1>3, IdleStep DEF vars, salaryStateVars
  <2>2. QED
    BY <1>2, <1>3, <2>1 DEF vars
<1>4. CASE SalaryNext /\ UNCHANGED <<restorableVars, daoVars>>
  BY <1>1, <1>2, <1>4, SalaryStep
<1>5. ASSUME NEW customer \in Customers, NEW underControl \in BOOLEAN,
             RegisterCustomer(customer, underControl)
      PROVE  Inv' /\ ReceiversKept /\ ResultsFrozen
  <2>1. customer \in Account
    BY LockAssumption
  <2>2. OriginalAddress(customer) = customer
    BY <1>1, <2>1 DEF NoAccountRestored, OriginalAddress
  <2>3. SalaryInv' /\ SalaryKeeps
    BY <1>1, <1>5, <2>1, <2>2, RegisterStep DEF RegisterCustomer
  <2>4. DAOTypeOK' /\ NoAccountRestored'
    BY <1>1, <1>5 DEF RegisterCustomer, DAOTypeOK, NoAccountRestored, restorableVars,
                      accountVars
  <2>5. QED
    BY <2>3, <2>4 DEF Inv, SalaryKeeps
<1>6. ASSUME NEW plugin \in DAOPlugins, SetDAO(plugin)
      PROVE  Inv' /\ ReceiversKept /\ ResultsFrozen
  <2>1. SalaryInv' /\ SalaryKeeps
    BY <1>1, <1>6, IdleStep DEF SetDAO, salaryStateVars
  <2>2. DAOTypeOK' /\ NoAccountRestored'
    BY <1>1, <1>6 DEF SetDAO, DAOTypeOK, NoAccountRestored, restorableVars, accountVars
  <2>3. QED
    BY <2>1, <2>2 DEF Inv, SalaryKeeps
<1>7. ASSUME NEW sender \in Users, NEW underControl \in BOOLEAN,
             SetDAOControl(sender, underControl)
      PROVE  Inv' /\ ReceiversKept /\ ResultsFrozen
  <2>1. SalaryInv' /\ SalaryKeeps
    BY <1>1, <1>7, IdleStep DEF SetDAOControl, salaryStateVars
  <2>2. DAOTypeOK' /\ NoAccountRestored'
    BY <1>1, <1>7 DEF SetDAOControl, DAOTypeOK, NoAccountRestored, restorableVars,
                      accountVars
  <2>3. QED
    BY <2>1, <2>2 DEF Inv, SalaryKeeps
<1>8. ASSUME NEW sender \in Users, NEW c \in Condition, Mint(sender, c),
             UNCHANGED <<restorableVars, daoVars>>
      PROVE  Inv' /\ ReceiversKept /\ ResultsFrozen
  <2>1. sender \in Account /\ CurrentAddress(sender) = sender
    BY <1>1 DEF NoAccountRestored, CurrentAddress, Account
  <2>2. QED
    BY <1>1, <1>2, <1>8, <2>1, MintStep DEF Mint
<1>9. ASSUME NEW sender \in Users, NEW old \in Account, AccountNext(sender, old),
             UNCHANGED daoVars
      PROVE  Inv' /\ ReceiversKept /\ ResultsFrozen
  BY <1>9, AccountStep
<1>10. QED
  BY <1>3, <1>4, <1>5, <1>6, <1>7, <1>8, <1>9 DEF Next

-----------------------------------------------------------------------------
(***************************************************************************)
(* Theorems                                                                *)
(***************************************************************************)

\* The inductive invariant: what every sequence of transactions keeps of the
\* types, of the market, of the chains of conditions and of their supplies.
THEOREM Invariance == Spec => []Inv
<1>1. Inv /\ [Next]_vars => Inv'
  BY NextKeeps
<1>2. QED
  BY <1>1, InitInv, PTL DEF Spec

\* Numbers never leave their width, no salary date is ever in the future and
\* every map of conditions leads to conditions, in every contract state.
THEOREM TypeCorrect == Spec => []TypeOK
<1>1. Inv => TypeOK
  <2> SUFFICES ASSUME Inv PROVE TypeOK
    OBVIOUS
  <2>1. Storage \in StorageType /\ MarketTypeOK
    BY SalaryTypes DEF Inv
  <2>2. ChainTypeOK
    BY <2>1 DEF Inv, SalaryInv, SuspendedOK, Storage, StorageType, ChainTypeOK
  <2>3. AccountTypeOK
    BY DEF AccountTypeOK, Inv, DAOTypeOK, NoAccountRestored, Account
  <2>4. QED
    BY <2>1, <2>2, <2>3 DEF TypeOK, MarketTypeOK
<1>2. QED
  BY <1>1, Invariance, PTL

\* However conditions are created, recreated and traded, also by batches that
\* recreate between two items, every condition is in the chain of a first one
\* of the same person.
THEOREM ChainsRooted == Spec => []ChainRoots
<1>1. Inv => ChainRoots
  BY InvChainRoots DEF Inv
<1>2. QED
  BY <1>1, Invariance, PTL

\* Of a first condition at least one token is minted for each second paid, and
\* exactly one where the receiver makes no calls from its hook; of no other
\* condition of the chain is any minted.
THEOREM SalariesPaidOnce == Spec => []SalaryRate
<1>1. Inv => SalaryRate
  BY InvSalaryRate DEF Inv
<1>2. QED
  BY <1>1, Invariance, PTL

\* Transfers, recreations and restorations make no salary tokens: a chain has,
\* over all its conditions and all accounts, at most what was minted for it.
THEOREM SupplyBounded == Spec => []ChainSupplyBounded
<1>1. Inv => ChainSupplyBounded
  <2> SUFFICES ASSUME Inv, NEW f \in Created
               PROVE  ChainSupply(f) <= totalBalances[f]
    BY DEF ChainSupplyBounded
  <2>1. f \in Condition /\ ChainSupply(f) = Supply(Storage, f)
    BY ChainSupplyIs DEF Inv
  <2>2. QED
    BY <2>1 DEF Inv, SalaryInv
<1>2. QED
  BY <1>1, Invariance, PTL

\* The permissions' own check refuses everybody: no entry that connects one
\* account to another is ever made.
THEOREM NobodyRestored == Spec => []NoAccountRestored
<1>1. Inv => NoAccountRestored
  BY DEF Inv
<1>2. QED
  BY <1>1, Invariance, PTL

\* The unchecked subtraction of _collateralOwingBase never wraps around.
THEOREM MarksBehindCounters == Spec => []NoCounterWrap
<1>1. Inv => NoCounterWrap
  BY DEF Inv, SalaryInv, MarketInv
<1>2. QED
  BY <1>1, Invariance, PTL

\* What was donated to single oracles adds up to what was donated to all, also
\* in the contract that pays salaries.
THEOREM DonationsAddUp == Spec => []PerOracleSum
<1>1. Inv => PerOracleSum
  BY DEF Inv, SalaryInv, MarketInv
<1>2. QED
  BY <1>1, Invariance, PTL

\* Recreating and trading salaries never gives a condition to somebody else:
\* its receiver, its owner and its chain are those it was created with.
THEOREM ReceiversFixed == Spec => ReceiverFixed
<1>1. Inv /\ [Next]_vars => ReceiversKept
  BY NextKeeps
<1>2. QED
  BY <1>1, Invariance, PTL DEF Spec, ReceiverFixed

\* The result of a finished oracle is final: no report, and no new owner of the
\* oracle, changes what withdrawals are computed from.
THEOREM ResultsFinal == Spec => FinishedResultsFrozen
<1>1. Inv /\ [Next]_vars => ResultsFrozen
  BY NextKeeps
<1>2. QED
  BY <1>1, Invariance, PTL DEF Spec, FinishedResultsFrozen

=============================================================================
