------------------------ MODULE BaseRestorableSalary ------------------------
(***************************************************************************)
(* assets/eip-3267/contracts/BaseRestorableSalary.sol: a user, or an       *)
(* attorney, permits a new account to take over the tokens of an old one.  *)
(* The contract is abstract: whether an attorney is allowed is decided by  *)
(* the contract that derives from it and passed to the actions.            *)
(***************************************************************************)
EXTENDS BaseSalary, FiniteSets

VARIABLES
  originalAddresses,           \* current address => very first address
  originalToCurrentAddresses,  \* very first address => current address
  newToOldAccount              \* new address => old address

\* Whether some permission with non-zero addresses, asked for by a caller who
\* may ask for it, was refused.
VARIABLE permitRefused

accountVars == <<originalAddresses, originalToCurrentAddresses, newToOldAccount>>
restorableVars == <<accountVars, permitRefused>>

RestorableInit ==
  /\ SalaryInit
  /\ originalAddresses = [a \in Account |-> Null]
  /\ originalToCurrentAddresses = [a \in Account |-> Null]
  /\ newToOldAccount = [a \in Account |-> Null]
  /\ permitRefused = FALSE

-----------------------------------------------------------------------------

\* _originalAddress and originalToCurrentAddress
OriginalAddress(a) == IF originalAddresses[a] # Null THEN originalAddresses[a] ELSE a
CurrentAddress(a) ==
  IF originalToCurrentAddresses[a] # Null THEN originalToCurrentAddresses[a] ELSE a

\* _avoidZeroAddressManipulatins: the new account must have an entry already.
ZeroAddressAvoided(old, new) ==
  /\ old # Null
  /\ new # Null
  /\ originalAddresses[new] # Null
  /\ newToOldAccount[new] # Null

\* permitRestoreAccount, called by the old account or an allowed attorney.
PermitRestoreAccount(sender, old, new, attorneyAllowed) ==
  /\ sender = old \/ attorneyAllowed
  /\ IF ZeroAddressAvoided(old, new)
     THEN /\ newToOldAccount' = [newToOldAccount EXCEPT ![new] = old]
          /\ originalAddresses' =
               [originalAddresses EXCEPT ![new] = OriginalAddress(old)]
          /\ originalToCurrentAddresses' =
               [originalToCurrentAddresses EXCEPT ![OriginalAddress(old)] = new]
          /\ UNCHANGED permitRefused
     ELSE /\ permitRefused' = (permitRefused \/ (old # Null /\ new # Null))
          /\ UNCHANGED accountVars
  /\ UNCHANGED <<bidVars, salaryVars>>

\* dispermitRestoreAccount, called by an allowed attorney.
DispermitRestoreAccount(old, new, attorneyAllowed) ==
  /\ attorneyAllowed
  /\ IF ZeroAddressAvoided(old, new)
     THEN /\ newToOldAccount' = [newToOldAccount EXCEPT ![new] = Null]
          /\ originalToCurrentAddresses' =
               [originalToCurrentAddresses EXCEPT ![old] = Null]
          /\ originalAddresses' = [originalAddresses EXCEPT ![new] = Null]
     ELSE UNCHANGED accountVars
  /\ UNCHANGED <<bidVars, salaryVars, permitRefused>>

\* checkMovedOwner walks newToOldAccount from the old account until it meets
\* the new one, and fails at address(0); a cycle runs out of gas.
Walk(old) ==
  LET walk[i \in 0 .. Cardinality(Account)] ==
        IF i = 0 THEN old ELSE newToOldAccount[walk[i - 1]]
  IN walk

IsMovedOwner(old, new) ==
  \E i \in 0 .. Cardinality(Account) :
    /\ Walk(old)[i] = new
    /\ \A j \in 0 .. i - 1 : Walk(old)[j] # Null

\* Mutated form: the old account keeps its tokens.
RestoredKeepingOld(b, old, new, id) == [b EXCEPT ![id][new] = b[id][old]]

\* The balance is read and assigned, not added; then the old one is cleared.
RestoredBalances(b, old, new, id) ==
  LET copied == [b EXCEPT ![id][new] = b[id][old]]
  IN [copied EXCEPT ![id][old] = 0]

\* restoreFunds
RestoreFunds(sender, old, new, id, attorneyAllowed) ==
  /\ sender = new \/ attorneyAllowed
  /\ IsMovedOwner(old, new)
  /\ balances' = RestoredBalances(balances, old, new, id)
  /\ UNCHANGED <<totalBalances, operatorApprovals, oracleVars, conditionVars,
                 userUsedRedeemMap, roundVars, blockTimestamp, collateralVars,
                 resultVars, salaryVars, restorableVars>>

\* restoreFundsBatch, of two tokens
RestoreFundsBatch(sender, old, new, id1, id2, attorneyAllowed) ==
  /\ sender = new \/ attorneyAllowed
  /\ IsMovedOwner(old, new)
  /\ balances' = RestoredBalances(RestoredBalances(balances, old, new, id1), old, new, id2)
  /\ UNCHANGED <<totalBalances, operatorApprovals, oracleVars, conditionVars,
                 userUsedRedeemMap, roundVars, blockTimestamp, collateralVars,
                 resultVars, salaryVars, restorableVars>>

-----------------------------------------------------------------------------

\* What the comment on permitRestoreAccount says it is for ("to be called by
\* an attorney or the user to move to a new account"): it serves them.
PermitsGranted == ~permitRefused

=============================================================================
