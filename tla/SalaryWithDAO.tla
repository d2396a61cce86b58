--------------------------- MODULE SalaryWithDAO ----------------------------
(***************************************************************************)
(* assets/eip-3267/contracts/SalaryWithDAO.sol: the contract that is to be *)
(* deployed.  A DAO plugin, a contract that can replace itself, decides    *)
(* which attorneys may move the funds of the accounts under its control.   *)
(***************************************************************************)
EXTENDS BaseRestorableSalary

CONSTANTS
  DAOPlugins,   \* the contracts that may become the plugin
  DefaultDAO    \* DefaultDAOInterface, which allows nobody anything

ASSUME DAOAssumption == DefaultDAO \in DAOPlugins

VARIABLES
  daoPlugin,
  underDAOControl,    \* per account
  accountHasSalary    \* per account

daoVars == <<daoPlugin, underDAOControl, accountHasSalary>>
vars == <<bidVars, salaryVars, restorableVars, daoVars>>

Init ==
  /\ RestorableInit
  /\ daoPlugin \in DAOPlugins
  /\ underDAOControl = [a \in Account |-> FALSE]
  /\ accountHasSalary = [a \in Account |-> FALSE]

-----------------------------------------------------------------------------

\* checkAllowedRestoreAccount and checkAllowedUnrestoreAccount: the plugin,
\* unless it is the default one, may allow it; if it does not, nothing happens.
AttorneyAllowed(old) == underDAOControl[old] /\ daoPlugin # DefaultDAO

\* registerCustomer: anyone, for anyone, with either flag.
RegisterCustomer(customer, underControl) ==
  /\ Register(OriginalAddress(customer))
  /\ accountHasSalary' = [accountHasSalary EXCEPT ![customer] = TRUE]
  /\ underDAOControl' = [underDAOControl EXCEPT ![customer] = underControl]
  /\ UNCHANGED <<restorableVars, daoPlugin>>

SetDAOControl(sender, underControl) ==
  /\ accountHasSalary[OriginalAddress(sender)]
  /\ underDAOControl' =
       [underDAOControl EXCEPT ![OriginalAddress(sender)] = underControl]
  /\ UNCHANGED <<bidVars, salaryVars, restorableVars, daoPlugin, accountHasSalary>>

\* setDAO, which only the plugin may call; the default one never does.
SetDAO(plugin) ==
  /\ daoPlugin # DefaultDAO
  /\ daoPlugin' = plugin
  /\ UNCHANGED <<bidVars, salaryVars, restorableVars, underDAOControl, accountHasSalary>>

Mint(sender, c) == MintSalary(sender, c, CurrentAddress(sender))

Permit(sender, old, new) ==
  PermitRestoreAccount(sender, old, new, AttorneyAllowed(old))

Dispermit(old, new) == DispermitRestoreAccount(old, new, AttorneyAllowed(old))

Restore(sender, old, new, id) ==
  RestoreFunds(sender, old, new, id, AttorneyAllowed(old))

RestoreBatch(sender, old, new, id1, id2) ==
  RestoreFundsBatch(sender, old, new, id1, id2, AttorneyAllowed(old))

\* What is done for one account by another: by the user or an attorney.
AccountNext(sender, old) ==
  \/ \E new \in Users : Permit(sender, old, new)
  \/ \E new \in Users : Dispermit(old, new)
  \/ \E new \in Account, id \in TokenId : Restore(sender, old, new, id)
  \/ \E new \in Account, id1, id2 \in TokenId : RestoreBatch(sender, old, new, id1, id2)

Next ==
  \/ SalaryNext /\ UNCHANGED <<restorableVars, daoVars>>
  \/ \E customer \in Customers, underControl \in BOOLEAN :
       RegisterCustomer(customer, underControl)
  \/ \E plugin \in DAOPlugins : SetDAO(plugin)
  \/ \E sender \in Users :
       \/ \E underControl \in BOOLEAN : SetDAOControl(sender, underControl)
       \/ \E c \in Condition : Mint(sender, c) /\ UNCHANGED <<restorableVars, daoVars>>
       \/ \E old \in Account : AccountNext(sender, old) /\ UNCHANGED daoVars

Spec == Init /\ [][Next]_vars

-----------------------------------------------------------------------------
(***************************************************************************)
(* Properties                                                              *)
(***************************************************************************)

ChainTypeOK ==
  /\ maxConditionId \in 0 .. MaxCondition
  /\ conditionOwners \in [Condition -> Account]
  /\ conditionCreationDates \in [Condition -> 0 .. blockTimestamp]
  /\ lastSalaryDates \in [Condition -> 0 .. blockTimestamp]
  /\ salaryReceivers \in [Condition -> Account]
  /\ firstConditionInChain \in [Condition -> 0 .. MaxCondition]
  /\ firstToLastConditionInChain \in [Condition -> 0 .. MaxCondition]
  /\ suspended \in Seq(Condition)

AccountTypeOK ==
  /\ originalAddresses \in [Account -> Account]
  /\ originalToCurrentAddresses \in [Account -> Account]
  /\ newToOldAccount \in [Account -> Account]
  /\ permitRefused \in BOOLEAN
  /\ daoPlugin \in DAOPlugins
  /\ underDAOControl \in [Account -> BOOLEAN]
  /\ accountHasSalary \in [Account -> BOOLEAN]

\* The type invariant: numbers stay within their width, addresses are
\* accounts, maps of conditions lead to conditions and no date is to come.
TypeOK ==
  /\ TokenTypeOK
  /\ LockTypeOK
  /\ CollateralTypeOK
  /\ ResultTypeOK
  /\ ChainTypeOK
  /\ AccountTypeOK

\* Neither transfers, recreations nor restorations create salary tokens:
\* those of a chain, over all its conditions and all accounts, address(0)
\* included, are never more than were minted for its first condition.
ChainSupplyBounded ==
  \A f \in Created :
    firstConditionInChain[f] = f => ChainSupply(f) <= totalBalances[f]

=============================================================================
