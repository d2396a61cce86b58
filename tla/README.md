# TLA+ models of the programs in EIPs-CN

The repository holds the texts of the Ethereum Improvement Proposals and, under `src/assets`, the
programs some of them come with. This directory models those programs in TLA+, checks the models
with TLC and proves the central theorems with TLAPS. `PROJECT.json` maps every definition to the
lines of code it stands for; names of files below are short for the paths it gives.

## 1. Inventory

| component | state | operations | what is hard about it |
|---|---|---|---|
| **EIP-4881 deposit tree** (`assets/eip-4881`) | a Merkle tree per consensus node, its length and finalized block | `new`, `push_leaf`, `finalize`, `get_snapshot`, `from_snapshot`, `get_proof`, `get_root` | nodes finalize at different times and steps, start from each other's snapshots, restart from stale ones; boundaries at powers of two; methods that subclasses leave undefined |
| **EIP-3267 tokens** (`contracts/ERC1155`) | balances, totals, operator approvals | mint, move, approve | unchecked additions; totals kept apart from balances; receivers that are contracts are called and may call back |
| **EIP-3267 lock** (`BaseLock.sol`) | oracles, grace periods, locks, marks of past withdrawals, counters of donations | `donate`, `gatherDeFiProfit`, `withdrawCollateral`, transfers, batches | trades between withdrawals; two rounds; fixed-point shares; unchecked subtraction |
| **EIP-3267 bidding** (`BaseBidOnAddresses.sol`, `BidOnAddresses.sol`) | numerators, denominator, finished flag | report, batch, finish, register | late reports, change of owner, batches naming a condition twice, scores for token IDs that are no conditions |
| **EIP-3267 salaries** (`BaseSalary.sol`, `Salary.sol`) | chains of conditions, salary dates | register, mint, recreate, transfers that recreate | recreation by anyone at any time, also between two items of a batch, and from the hook of a receiver that is being paid |
| **EIP-3267 restorable salaries, DAO** (`BaseRestorableSalary.sol`, `SalaryWithDAO.sol`) | maps between old and new accounts, the DAO plugin, flags | permit, dispermit, restore, `setDAO`, `setDAOControl` | attorneys acting on other people's accounts, a plugin that replaces itself |
| **EIP-7916 progressive lists** (`progressive.py`, `remerkleable.patch`) | a backing tree with its length; hooked views of elements | construct, `append`, `pop`, `get`, `set`, iterate | borders of chunks and of subtrees that grow by four; trees that shrink; views of elements that are gone |
| **EIP-7495 stable containers, profiles** (`stable_container.py`) | each object's backing tree with its bits of active fields, and its hook | declare, construct, read and set fields, convert to and from the base type, encode, decode | stale views that write back to the object they were read from; objects built without a check; two numberings of optional fields; offsets |
| **EIP-6475 optional** (`optional.py`) | a backing tree with the number of values, 0 or 1 | construct, `get`, `set`, `serialize`, `deserialize` | a value that is none and no value differ in one byte |
| EIP-7543 decimal float (`decimal_float.go`) | none: pure arithmetic | add, multiply, divide, exp, ln, normalise | rounding, overflow of the exponent, zero |
| **EIP-6404 conversion** (`convert.py`, `rlp_types.py`, `ssz_types.py`, `tx_hashes.py`) | none of its own; a node keeps the transactions and their hashes | RLP to SSZ, identify a profile, recover the RLP form, hash | one hash for two transactions: v mixes parity and chain id, None stands for 0, a transaction hash has the form of what is signed; widths of numbers |
| EIP-6110 calculation, EIP-7932 generator, EIP-712 and EIP-2330 examples | none | scripts | nothing a state machine adds to |
| patches to go-ethereum; web site; workflows; texts | - | - | no program of this repository |

How they interact. The modelled systems share nothing but a library: EIP-6404 declares its types
with the stable containers of EIP-7495, and the views of EIP-7916 and EIP-6475 are hooked to one
another when a list has optional elements, which is how they are composed here. Inside EIP-4881 the
nodes meet only in the log of the deposit contract, which each replays, and in the snapshots they
serve. EIP-3267 is one contract built by inheritance: `ERC1155` < `ERC1155WithTotals` < `BaseLock` <
`BaseBidOnAddresses` < (`BidOnAddresses` | `BaseSalary` < (`Salary` | `BaseRestorableSalary` <
`SalaryWithDAO`)); it calls the collateral's ERC-1155 contract, the `ABDKMath64x64` library and the
DAO plugin. `contracts/README.md` names `SalaryWithDAO` as the contract to deploy.

What makes each correct:

* deposit tree: it stands for a prefix of the log whatever was pruned; proofs of unfinalized
  deposits verify; pruning is complete; trees built in different ways agree; snapshots describe
  the block they name;
* tokens: totals are the sums of balances, numbers keep their width;
* lock and bidding: results are final; redeemed tokens cannot be redeemed again by somebody else;
  the collateral held covers what can still be withdrawn from all oracles; unchecked differences do
  not wrap;
* salaries: one chain is one person's; no second up to the last payment is left out, and none is
  paid twice to a receiver that does not call back; recreation makes and loses no token;
* restorable salaries: restoration makes no token;
* stable containers: equal values have equal trees; what is written can be read; a profile travels
  as its base type; a write through a view is seen where the view was read;
* progressive lists and optional values: whatever calls led to it, a list has the tree of a new
  list of its elements, and behaves as a plain sequence; iteration agrees with indexes; views write
  to their element or to none; what is written can be read;
* transactions: conversion loses nothing; hashes identify a transaction; a signature binds one
  payload; SSZ expresses nothing that RLP does not.

The hazards in the code, each at its line, are in `PROJECT.json`.

## 2. Modules

### EIP-4881

| module | models |
|---|---|
| `Hashing` | `eip_4881.py`: `sha256` as an injective constructor, `to_le_bytes`, `zerohashes`. The coincidence of 32 zero bytes with `to_le_bytes(0)` and `zerohashes[0]` is kept. Also the deposit contract's tree of hashes, layer by layer over all leaves (`Layer`, `LogRoot`) |
| `MerkleTree` | the classes `Zero`, `Leaf`, `Node`, `Finalized` as records; `TreeOf[level]` is the set of trees of a height. Each method that calls itself on the children is a recursive function on trees; `None` is what a method returns that a class leaves undefined, `AttributeError` what `generate_proof` meets where a tree has no children |
| `DepositTree` | `DepositTree` and `DepositTreeSnapshot`, one tree per node of `Nodes`, the chain of blocks, the last snapshot served. Actions: `MineBlock` (the chain), `New`, `FromSnapshot`, `Stop` (the process ends; the tree is in memory only), `PushDeposit`, `FinalizeBlock`, `GetSnapshot` |
| `DepositLog` | the abstract specification: a node knows how many deposits it holds and how many are final, and its root is the contract's root of that prefix (`LogRoot`), a definition that shares nothing with the pruned tree |
| `DepositTreeProofs` | lemmas on trees, hashes and branches; theorems of the deposit tree |

`DepositTree` refines `DepositLog` by the mapping of its `INSTANCE`: `count` is `mix_in_length`,
`final` the tree's own count of finalized deposits, `root` what `get_root` returns.
`DepositTree.finalize` discards the tree that `tree.finalize` returns, so only what `Node.finalize`
assigned takes effect (`FinalizedInPlace`).

### EIP-3267

| module | models |
|---|---|
| `ERC1155WithTotals` | both token contracts: what minting and moving do, and their requirements |
| `BaseLock` | oracles, donations, DeFi profits, withdrawals, transfers of one token and of batches. The contract is abstract: what its virtual functions return is an argument of the action |
| `BaseBidOnAddresses` | reports, finishing, reward shares; properties of every market |
| `BidOnAddresses` | the market with registered customers; `Spec` |
| `BaseSalary` | chains; the calls of `mintSalary` that wait for a receiver's hook (`suspended`); `DoTransfer` and `Recreated` are functions on a record of the storage, because a batch recreates a condition between two items |
| `Salary` | open registration; `Spec` |
| `BaseRestorableSalary` | permissions and restorations |
| `SalaryWithDAO` | the deployed contract; `Spec` |
| `Sums` | the sum of the values of a function over a finite set, for the properties that compare a count kept by the code with what it counts |
| `MCBidOnAddresses`, `MCSalary`, `MCSalaryWithDAO` | the instances for TLC |
| `MarketProofs` | lemmas on sums over finite sets and on rounding; what every step of every market keeps |
| `BidOnAddressesProofs` | theorems of the market of `BidOnAddresses` |
| `BaseSalaryProofs` | what every step of every contract that pays salaries keeps |
| `SalaryProofs`, `SalaryWithDAOProofs` | theorems of the two contracts that pay salaries |

Correspondence with the code:

* a call that succeeds is one action, but for `mintSalary`; a call that reverts is no step;
  `require`s, modifiers and SafeMath checks are guards, unchecked arithmetic is taken modulo
  `MaxUint + 1`;
* `mintSalary` calls the receiver's hook when it has minted and before it writes the date
  (`BaseSalary.sol:91-92`, `ERC1155WithTotals.sol:47`). For a receiver in `Reentrant` it is two
  steps: `MintSalary` puts the call on the stack `suspended`, `HookReturns` takes it off and writes
  the date. In between any account may make any call, since a hook may call other contracts, and
  mint again; the time stands still. What a hook does before its transaction reverts is no step;
* any token ID can be scored and redeemed, also that of a counter of donations: `payoutNumeratorsMap`
  is over `TokenId`, and `ReportedIds` bounds the IDs that callers name;
* a mapping is a function from its keys, with Solidity's zero as its default: `Null` for addresses;
* the batches of the code are modelled with two items, which is where the second finds what the
  first left; a batch of one is the single operation;
* `held` is the balance in the collateral's contract, taken to be a correct ERC-1155 contract
  every user of which approved this one; `paid` sums the `CollateralWithdrawn` events;
* keccak256 of collateral and oracle is an injective map into `CounterIds` that never gives a
  condition (the code relies on the same);
* `ABDKMath64x64.divu`, `mul` and `mulu` round down with `FixedOne` for 2^64;
* one salary token per second stands for 10^18 units;
* a DAO plugin other than the default may allow or refuse each attorney's call: the choice is
  free; `DefaultDAOInterface` always refuses and never replaces itself;
* `permitRefused` is not in the code: it records that `permitRestoreAccount` was refused to a caller
  who passed the check of callers;
* `BidOnAddresses` does not have the `createOracle` that `BaseLock.sol:21` asks derived contracts
  for; the one-line body of `SalaryWithDAO` is used in its place.

### EIP-7495

| module | models |
|---|---|
| `SszTypes` | classes as records; `has_compatible_merkleization` (`Compatible`), what a declaration accepts, lengths. `Layout` is the reference: the Merkle layout of a type by the text of the EIP |
| `SszCodec` | backing trees, `stable_get`, `stable_set`, constructors, `coerce_view`, `check_backing`, `serialize`, `deserialize`, byte by byte |
| `SszViews` | the objects of a running program: `Construct`, `GetField`, `SetField`, `FromBase`, `ToBase`, `Decode`; `Spec` |
| `MCSszViews` | classes and further types for TLC |

Correspondence with the code:

* an object is its class, its backing and its hook; the hook names the object it was read from and
  the slot, and `SetBacking` follows hooks as `set_backing` does. Objects live in the variables of a
  program, which may use one variable again when no hook leads to its object;
* a call that raises is no step; in `SszCodec` a raise of `deserialize` is `ok = FALSE`;
* a `uint` is the chunk of its value, so that `zero_node(0)`, the leaf of an absent field, is the
  chunk of 0, as in the code: only the bit tells absent from zero. The left subtree is the function
  from slots to nodes; hashing adds nothing to it;
* `remerkleable`, the library the file extends, is not in the repository. Numbers, bitvectors,
  streams and lists are external, modelled from how the file uses them; `from_base`, `to_base` and
  the hook call are taken from `remerkleable.patch`. A bitvector with bits beyond its length, and a
  stream that ends early, are refused. Lists, bit lists and plain containers occur as types to
  compare, not as values;
* constructors take a tree without looking at its class (line 87), assignments convert (line 42):
  both are kept. Callers are taken to pass objects of the field's layout, and to convert between
  types of one layout; numbers where containers belong are not tried.

### EIP-7916 and EIP-6475

| module | models |
|---|---|
| `SszTree` | the trees of the library: pairs, chunks and roots, getters and setters by generalized index; `append_view` and `pop_and_summarize` of `remerkleable.patch`. A root is the tree's normal form (`Root`): equal if and only if the trees differ in nothing but what is expanded |
| `SszOptional` | `Optional[T]` on these trees, with its bytes; a type is the number of Optionals around `uint8` |
| `PlainList` | the abstract specification: a sequence to whose end an element is added, from whose end one is removed, or in which one is replaced: what each call with its arguments makes of it (`Appended`, `Popped`, `Replaced`) |
| `ProgressiveList` | functions on the tree of a list, and a program with a list and views of its elements: `AppendItem`, `Pop`, `SetItem`, `GetView`, `WriteView`; `Spec` |
| `MCProgressiveList` | list types for TLC |
| `ProgressiveListProofs` | lemmas on trees, chains of subtrees, chunks and bytes; theorems of the progressive list and of its optional elements |

Correspondence with the code:

* `ProgressiveList` refines `PlainList`: `items` is what `get` returns, index by index. The refinement
  is stated call by call (`PlainCalls`): `append(v)` appends this v, `pop` removes the last, `set(i, v)`
  and a write through a view at index i replace the element at this index by this value, and a get
  changes nothing. An implied `Plain!Spec` alone would not say which value or index;
* recursion over trees is recursion over heights or indexes: a getter goes up from the generalized
  index, a setter up from the node it replaces, and the hash of a tree is taken from `MaxHeight`
  down, which `ListAssumption` makes higher than the trees of every class;
* `IndexError`, and the exception of `pop` on an empty list, are guards. A navigation that would
  raise inside a call is the value `Raised` in the tree, which `TypeOK` excludes;
* `WriteView` is `Optional.set` of a view, which first changes the view and then calls its hook, the
  list's `set`; where that raises the view stays changed (`Hook`). `Optional.set` between a value
  and none does not return (see *Divergences*) and changes nothing; it is no step (`CanSet`);
* `__class_getitem__` asks `isinstance(element_type, BasicView)` of a class. Whether that is ever
  true depends on the metaclasses of the library, which is not in the repository. Both cases are
  modelled, by a field of `cls`;
* `Optional` of `uint8` and `Optional` of that are the elements that have views.

### EIP-6404

| module | models |
|---|---|
| `Transactions` | the types of both forms as sets of records; `upgrade_rlp_transaction_to_ssz` for the five types; profiles, identification and validation; recovery and all hashes |
| `TransactionPool` | a node as `EIPS/eip-6404.md:433` describes it: `ReceiveRlp` converts and keeps, `ReceiveSsz` keeps what others send, `Process` identifies, converts to the profile and hashes, as the loop of `convert_tests.py` does; `Spec` |
| `MCTransactionPool` | inputs for TLC |
| `TransactionPoolProofs` | lemmas and theorems |

Correspondence with the code:

* a hash is the list that is hashed with the byte before it: keccak is injective, and so is RLP. A
  list keeps the names of its fields, the types of one byte having one list of names each;
* numbers of RLP have any size; a conversion that is too wide or negative raises, and is a guard
  (`Fits`), as is the arithmetic of `uint64` that recovers v (`CanRecover`). What is received as SSZ
  has the widths of its type;
* a profile is the base record that passed `FromBase`: required fields are there and fields that the
  profile does not have are None. It is the same tree (EIP-7495, `ProfilesPortable`);
* the packed signature is the triple it packs. No code calls `secp256k1_validate`; the properties
  that need it speak of the entries it accepts (`Validated`);
* calldata, addresses, access lists and versioned hashes are opaque, since both forms copy them.

Definitions marked *Mutated form* are plausible bugs; no specification uses them. Each property
of a passing run is violated when a definition is replaced by one of them (`PROJECT.json`).

## 3. Runs

| run | instance | states | shows |
|---|---|---|---|
| `deposit_tree` | 8 leaves, 2 nodes, 3 blocks, 2 starts | 74 806 | types, `ProofsVerify`, `FinalizedLeavesPruned`, `TreesConverge`, `SnapshotMatchesEth1Data`, refinement of `DepositLog` |
| `stable_views` | 4 sets of classes: a container in a container, with each of 3 profiles that are accepted (2 more are refused), and containers three deep; 1 object and 2 views of it at a time; values 0 and 1; 36 further types compared | 113 940 | `TypeOK`, `BackingsCanonical`, `EncodingsDecode`, `ProfilesPortable`, `CompatibleTypesShareLayout`, `WritesReachTheSource` |
| `stable_required` | the same with value 1 | violation | a profile without a field that it requires |
| `market_redeem` | 2 users and the contract, 1 oracle, 1 condition, 2 donations assigned to users, both rounds, operators; scores for the condition and for the counter of the oracle's donations | 307 792 | `TypeOK`, `TotalsAreSums`, `DenominatorIsSum`, `RedeemedTokensStay`, `NoCounterWrap` |
| `market_results` | 2 users and the contract, 2 oracles, 1 condition, 2 donations assigned to the contract and its profits, numerators 0 and 1, no operators | 107 239 | `FinishedResultsFrozen`, `PerOracleSum`, `WithdrawalsFunded` |
| `market_first_round` | as `market_redeem`, the condition scored | violation | `usersWithdrewInFirstRound` misses the first round |
| `salary_chains` | 3 conditions, 3 seconds, batches over 2 tokens, an operator; 2 users, one of them with a hook, 2 calls at once | 412 956 | `ChainRoots`, `SalaryRate`, `ChainSupplyMinted`, `ReceiverFixed` |
| `salary_last_condition` | as `salary_chains`, without hooks | violation | the map to the last condition is never updated |
| `salary_with_dao` | 2 conditions, 2 plugins, 3 seconds, 2 users with hooks, 2 calls at once | 135 940 | `TypeOK`, `ChainSupplyBounded` |
| `salary_permits` | as `salary_with_dao`, without hooks | violation | every permission is refused |
| `progressive_list` | `uint8`, unpacked to 9 elements and packed by 2 to 11; optional values to 5 elements with 1 view, optional of optional to 2 with 2 views; numbers 0 and 1 | 12 475 | `TypeOK`, `ListsCanonical`, `IterationComplete`, `OptionalsDecode`, `WritesReachTheList`, refinement of `PlainList` |
| `transactions` | RLP: 14 legacy transactions by their v, 6 typed ones, each with one field changed; SSZ: what they convert to with other signatures, fields removed, fees and chain ids added, authorizations altered; 2 transactions at a time; byte to 9, uint64 to 63, uint256 to 255 | 71 054 | `TypeOK`, `ConversionLossless`, `SigHashBindsPayload`, `TxHashIdentifies`, `IndexedFromRlp`, `AuthHashBindsPayload` |

Why the bounds are enough. A tree of depth 3 has a subtree of each kind on both sides of an inner
node and a boundary at 1, 2 and 4 deposits; three blocks let two nodes finalize at once and step by
step with a snapshot in between; with two starts a node may start empty while another restarts from
its older snapshot. In the markets, two users are a redeemer and a buyer, and the contract itself a
third holder; the grace period of 1 with timestamps to 2 gives both rounds; `FixedOne = 4` makes
shares round. Two oracles share one stock of collateral, so that one might pay what the other's
users are owed. Three conditions are a chain with two recreations, or two chains one of which is
recreated; two traded tokens let a batch name a condition twice, or the one just emptied.
Two waiting calls of `mintSalary` are a call and one from its hook, on one condition or on two
(`MaxCalls`); beside the receiver with a hook there is one without, whose rate is exact. In
`salary_with_dao` three seconds pay for two conditions of one person, so that a restoration
overwrites a balance that is not 0. For stable
containers, one object and two views give a parent, a child and a grandchild, or two children of one
parent; the fields `color` and `at` are of fixed and of variable length, and a third slot has no
field; a stream to be decoded is one that was written, cut anywhere, extended, or with any byte set
to 0 or 1. Offsets have 4 bytes. `MaxUint` is small enough for the overflow guards to matter and
large enough not to disable the interesting steps. Progressive lists have subtrees of 1, 4 and 16
chunks, which begin at elements 0, 1 and 5, or 0, 2 and 10 when packed: lengths 9 and 11 pass both
borders, and shrink over them again; `MaxHeight = 25` is above twice the longest list and its
elements, as `ListAssumption` asks. Any two transactions can be in the node at once, which is what
collisions of hashes need; with `uint64` to 63 there are chain ids that fit of which v does not (15
to 63) and that do not fit, and with bytes to 9 a parity that makes v 35 or more. In all runs
`NonReceivers` is empty: a receiver that rejects tokens only disables steps. `MinFinalize = 1` in
`deposit_tree` leaves out blocks before the first deposit (see *Divergences*). Users are symmetric
wherever no configuration tells them apart.

`CHECK_DEADLOCK FALSE` everywhere but in `progressive_list`: blocks, timestamps, conditions, starts
and kept transactions are bounded, and a contract nobody can usefully call any more is no error.

Fairness. None is assumed and no liveness is stated. A contract acts only when somebody calls it,
and the deposit tree, the containers, the lists and the conversions are libraries that act only when
called: none has a scheduler that would justify fairness, and no document promises that anything
happens by itself.

### Findings

* `usersWithdrewInFirstRound` is added to in the second round only (`BaseLock.sol:258`, against the
  comment in line 93), and the second round divides by it: it can never pay.
* `firstToLastConditionInChain` is not updated by a recreation (`BaseSalary.sol:174`, against line
  69).
* `Profile.__new__` and `coerce_view` accept None for a required field (`stable_container.py:348`,
  against the assertion in line 641 and `EIPS/eip-7495.md:132`).
* `permitRestoreAccount` refuses everybody (`BaseRestorableSalary.sol:117`, against line 33).

### Divergences

What code and text disagree about and no run shows, because no model has a step for it or because
the runs of the list above ask the more important questions:

* `Leaf.finalize` (`deposit_snapshot.py:151-152`) finalizes the leaf it reaches whatever
  `deposits_to_finalize` is. A block finalized after which the contract counts 0 deposits, on a tree
  that holds one already, finalizes that one, and the snapshot is not the `Eth1Data` of its block,
  as `EIPS/eip-4881.md:34` has it. `DepositTree` shows it with `MinFinalize = 0`.
* "Rounded to below for no out-of-funds" (`BaseLock.sol:480`), and "Not necessary because of rounding
  down" (line 247), hold for fixed supplies and donations that brought what they count
  (`WithdrawalsFunded`). `mintSalary` raises a supply after withdrawals, and its receiver is owed a
  share of donations that are paid out. An oracle may score the ID of a counter of donations
  (`BaseBidOnAddresses.sol:69` takes any), whose supply grows with each donation. And `donate` with
  the contract as `_from` (lines 145-159; it calls the collateral contract as the owner) moves the
  contract's collateral to itself: the counters count it, nothing comes in, and withdrawals are then
  paid from the collateral of other oracles or fail.
* "one token per second" (`BaseSalary.sol:90`): a receiver that calls `mintSalary` from its hook is
  paid the same seconds again, since the date is written after the call (lines 91-92). `SalaryRate`
  is exact for the receivers that do not, whatever the hooks of others call.
* The mark of the last withdrawal is kept per user and counter and not per condition
  (`BaseLock.sol:253`): who redeemed one condition is owed nothing for another until the next
  donation. No document says what such a holder should get.
* `EIPS/eip-7916.md:44-46` swaps the subtree and the rest of the chain; `progressive.py:17-20` and
  `tests.patch` agree with each other.
* `isinstance(element_type, BasicView)` (`progressive.py:114`, `optional.py:35`) asks of a class what
  is true of its instances. Unless the library's metaclasses answer otherwise, basic elements are
  never packed, against `EIPS/eip-7916.md:114`, `tests.patch:40-49`.
* `optional.py` calls `to_gindex` (lines 83, 104) without importing it: `set` from none to a value
  and back raises NameError. `value_byte_length` (62-70) forgets the byte of a value and refers to
  an undefined `el`.
* A legacy transaction whose v is no uint64 converts, if its chain id fits, and can never be
  recovered (`tx_hashes.py:9`), against "lossless" in `EIPS/eip-6404.md:447`.
* Nothing calls `secp256k1_validate`. Without it neither hash identifies a transaction: the mutant
  of `TxHashIdentifies` shows a parity running over into the chain id.

## 4. Proofs

What follows holds for every number of users, oracles, conditions, collateral tokens and DAO
plugins, for every length of grace periods and for every width of integers; for every depth of
the deposit tree, every number of nodes, blocks and starts; and for progressive lists of every
length, size of a chunk, number of views and depth of optional values.

`BidOnAddressesProofs`, of the market with registered customers:

| theorem | states |
|---|---|
| `Invariance` | `Spec => []Inv`, the inductive invariant |
| `TypeCorrect` | `Spec => []TypeOK` |
| `TotalsMatchBalances` | `Spec => []TotalsAreSums` |
| `MarksBehindCounters` | `Spec => []NoCounterWrap` |
| `DonationsAddUp` | `Spec => []PerOracleSum` |
| `ReportsAddUp` | `Spec => []DenominatorIsSum` |
| `WithdrawalsCovered` | `Spec => []WithdrawalsFunded` |
| `SecondRoundPaysNothing` | `Spec => []NothingInSecondRound`, the finding of `market_first_round` seen from the other side: not only is the counter wrong, the second round never pays anybody |
| `RedeemedStay` | `Spec => RedeemedTokensStay` |
| `ResultsFinal` | `Spec => FinishedResultsFrozen` |

`SalaryProofs`, of open salaries, and `SalaryWithDAOProofs`, of the contract to be deployed:

| theorem | states | `Salary` | `SalaryWithDAO` |
|---|---|---|---|
| `Invariance` | `Spec => []Inv` | yes | yes |
| `TypeCorrect` | `Spec => []TypeOK` | | yes |
| `ChainsRooted` | `Spec => []ChainRoots` | yes | yes |
| `SalariesPaidOnce` | `Spec => []SalaryRate` | yes | yes |
| `SupplyIsMinted` | `Spec => []ChainSupplyMinted` | yes | |
| `SupplyBounded` | `Spec => []ChainSupplyBounded` | | yes |
| `NobodyRestored` | `Spec => []NoAccountRestored` | | yes |
| `MarksBehindCounters` | `Spec => []NoCounterWrap` | | yes |
| `DonationsAddUp` | `Spec => []PerOracleSum` | | yes |
| `ReceiversFixed` | `Spec => ReceiverFixed` | yes | yes |
| `ResultsFinal` | `Spec => FinishedResultsFrozen` | | yes |

`SalaryRate` says of the receivers in `Reentrant` that they are paid at least once for each second,
and of the others that they are paid exactly once; `Reentrant` is any set of users, so that the
second is shown to withstand every hook.

They assume what the modules name as `TokenAssumption`, `CountersAssumption`, `UsersAssumption`,
`LockAssumption`, `NumeratorsAssumption`, `ReportedAssumption`, `BidOnAddressesAssumption`,
`SalaryAssumption` and `DAOAssumption`: that there are finitely many users and token IDs, that the
contract and address(0) are none of the users, that conditions are not counters, that counters of
different collateral and oracles differ, and that the sets which bound inputs are of the right type. TLC evaluates them in the runs.

**Sums.** `SumOver` is a fold of the community modules, that is, a recursive function chosen by
`CHOOSE`. `MarketProofs` begins by showing that it is what one expects: that it does not depend on
the order of the elements, and how it changes when a function changes at one point. The theorems of
the library that make inductions take an operator, which the provers cannot instantiate;
`SubsetInduction` takes a *set* of subsets instead and applies `WFMin` to those that are missing from
it. Everything else about sums compares two states, of which one differs from the other at one or two
points (`SumChange`).

**The market.** `MarketInv` of `MarketProofs` is what no step of any market breaks: types,
`NoCounterWrap`, `PerOracleSum`, `DenominatorIsSum` and `NothingInSecondRound`. They hold together
only: the type of a withdrawn amount rests on the subtraction that does not wrap, the sum of the
reports on the types of the numerators, and `NothingInSecondRound` is what makes each withdrawal one
of the first round. Steps are put into four groups (`MarketQuiet`, `MarketDonates`, `MarketReports`,
`MarketWithdraws`) that the contracts built on it use again.

**Withdrawals are covered.** `WithdrawalsFunded` says that the collateral the contract holds is at
least what all holders of all tokens may still withdraw from all oracles together: the stock is one,
and what is paid for one oracle must not be what the users of another are owed. It has two
hypotheses on the state, without which it is false of the code (see *Divergences*): that the counter
of all donations counts no more than was received (`DonationsReceived`: what is held and what was
paid), and that oracles score conditions (`ConditionsScored`).

The first step is a bound for each oracle alone, the lemma `EntitlementBounded`: what was paid and
what can still be withdrawn is at most the counter of its donations. What may be withdrawn changes
hands with every trade, so what was *paid* has to be accounted for by something that cannot: the
tokens that were redeemed. `Inv` says that for each collateral and oracle that scores no counter,
`FixedOne` times what was paid is at most the sum over all conditions and accounts of the weight of
the redeemed tokens times the donations their holder was paid from (`PaidIsSettled`). Three facts
carry it. Redeemed tokens stay (`RedeemedTokensStay`), so a trade can only raise a weight that
counts. Before the oracle finishes nobody is marked (`UnfinishedUnpaid`), and afterwards the reward
shares are fixed, so that an oracle which scored a counter has done so for good. And supplies of
conditions are fixed from registration on (`UnregisteredEmpty`, `OwnersOK`), which is what fails once
salaries are minted. Then the entitlement of each account and condition is at most its weight times
all donations, the weights of one condition add up to at most its reward share since balances add up
to the total (`TotalsAreSums`) and `Divu` rounds down, and the reward shares add up to at most
`FixedOne` since numerators add up to the denominator (`DenominatorIsSum`). The second step adds the
oracles up: their counters add up to the counter of all donations (`PerOracleSum`), which by
`DonationsReceived` is at most what is held and what was paid.

**Salaries.** The type of `balances` depends on the chains: a recreation reads the balance of
`firstToLastConditionInChain[c]`, which has to be a condition. So `SalaryInv` of
`BaseSalaryProofs` carries the storage invariant `StorageOK`: created conditions have a root that is
its own root and has the same receiver (`ChainOK`); because the map of last conditions is never
updated, it is the identity on created conditions, and the salary of a recreated one can never be
minted (`RateOK`, from which `SalaryRate` follows); a condition that does not exist has no receiver,
no dates, total 0 and nobody who holds any of it (`EmptyBeyond`). The last is needed since a
recreation *overwrites* the balance of the new condition: a chain would lose what was there before.
The supply of a chain, over all accounts and all its conditions, is at most the total of its first
condition; that is part of the invariant and not only a consequence of it, since the unchecked
addition to a balance wraps around unless balances stay below a total that is checked. While calls
of `mintSalary` wait for a hook, `SuspendedOK` says of each condition on the stack that it is a first
one, of a receiver in `Reentrant`, and that its seconds up to now are paid: when the call goes on and
writes the date, the rate is that of the seconds again (`HookStep`), whatever was recreated, moved
or minted in between, because the time stood still (`StillSuspended`). The storage is a record, `RegisteredOK`, `RecreatedOK` and `DoTransferOK` say what a function on it keeps, and a
batch is two uses of `DoTransferOK`.

Both contracts use the same lemmas of steps. `Salary` has equality of supply and total; in
`SalaryWithDAO` a restoration also overwrites the balance of the new account, so that supplies may
fall (`RestoredSums`). `NoAccountRestored` is part of its `Inv`, and only there, because salary goes to
`originalToCurrentAddress` of the caller, and because the maps stay empty only together.

`TransactionPoolProofs` proves, for every width of bytes, uint64 and uint256, every order of the
curve and every set of inputs of the two forms:

| theorem | states |
|---|---|
| `SpecTypeOK` | `Spec => []TypeOK` |
| `SpecConversionLossless` | `Spec => []ConversionLossless` |
| `SpecSigHashBindsPayload` | `Spec => []SigHashBindsPayload` |
| `SpecTxHashIdentifies` | `Spec => []TxHashIdentifies` |
| `SpecIndexedFromRlp` | `Spec => []IndexedFromRlp` |
| `SpecAuthHashBindsPayload` | `Spec => []AuthHashBindsPayload` |

They assume `WidthAssumption` (a byte holds the type numbers, and a uint64 the number 28),
`OpaqueAssumption` and `NoneAssumption` (None and the empty address are none of the values they
stand beside) and `InputAssumption` (inputs are of the two forms).

The argument. `Inv` is simple: what was converted fits and its conversion is kept, and an entry of
the index is of a transaction that can be processed and has exactly the hashes computed from it. The
work is in three facts about the conversions. `UpgradeKept`: a transaction that fits converts to one
that is identified, passes `FromBase` and recovers to itself; one lemma per type, and for v
`LegacyVKept`, that halving and parity put together give v back. `RecoverInverse`: an SSZ
transaction that passes, and whose parity is a bit, recovers to one that fits and converts back to
it, again by type; `AuthorizationInverse` is where the refusal of chain id 0 is needed and
`BlobInverse` where the refusal of a priority fee is. `SigHashBinds`, `TxHashBinds`, `HashesApart`:
the byte before a list tells the type, the list its fields, and r # 0 a transaction hash from a
legacy signature's. A property of two entries then follows by recovering both, comparing the RLP
forms and converting back.

`DepositTreeProofs` proves, for every depth, every set of nodes and every number of blocks and
starts:

| theorem | states |
|---|---|
| `TreesReplayLog` | `Spec => []Replay`, the inductive invariant |
| `TypeCorrect` | `Spec => []TypeOK` |
| `ProofsAlwaysVerify` | `Spec => []ProofsVerify` |
| `FinalizedAlwaysPruned` | `Spec => []FinalizedLeavesPruned` |
| `TreesAlwaysConverge` | `Spec => []TreesConverge` |
| `SnapshotsMatchLog` | `Spec => []SnapshotMatchesEth1Data` |
| `TreesImplementLog` | `Spec => RefinesDepositLog`: the trees implement `DepositLog` |

They assume `DepthAssumption` and `DepositTreeAssumption` (depth and bounds are numbers, the depth
is not 0), and, as a hypothesis of each theorem, `MinFinalize # 0`: finalizing a block with 0
deposits can leave a tree in which one deposit is final (see *Divergences*), which is what
`DepositTree` shows without the hypothesis.

**The tree of a log.** `TreeAt(c, f, level, s)` is what a subtree of 2^level leaves, of which the first
is deposit s, looks like in a tree of c deposits of which f are final: a `Zero` if it has no deposit,
one `Finalized` if all of its deposits are final, a `Leaf` for one deposit and a `Node` of its halves
otherwise. It is a closed form of everything the methods do: `PushLeafTree` says that `push_leaf`
takes the tree of c deposits to that of c + 1, `FinalizeTree` that `finalize` takes f to any later
count of deposits, `SnapshotTree` that `from_snapshot_parts` on the hashes of `get_finalized` builds
the tree of f deposits, f of them final. Each is an induction over levels. `Replay`, the inductive
invariant, says that each node's tree is the `TreeAt` of its two counts, that its finalized block is
a block with as many deposits as it has finalized, that the last snapshot is the one of the tree of
its block, and that the counts of blocks grow. TLC found it to hold on two nodes before the proof.

**What follows from it.** Types: `TreeAt` is in `TreeOf` (`TreeType`). `TreesConverge` is
immediate, since a tree is a function of two numbers. `FinalizedLeavesPruned` counts the leaves of
`TreeAt`. For the proofs, `TreeRoot` says that the root of `TreeAt` does not depend on f,
`BranchOfTree` gives the siblings that `generate_proof` collects and `BranchVerifies` that climbing
them again gives the root. For the snapshots, `HashesIndependent` says that what `get_finalized`
yields does not depend on c, `SnapshotSize` that it is one
hash per binary digit of f that is set, and `SnapshotRoot` follows the loop of `calculate_root`, which climbs from the
lowest digit, digit by digit. For the refinement, the root of `TreeAt` is the root of
`Layer`, the contract's: the lemmas called `...Maps` say of each action that it is, under the mapping,
the action of `DepositLog` of that purpose (`PushDepositMaps`, `FinalizeBlockMaps`, ...), and
`NextMaps` puts them together.

`ProgressiveListProofs` proves, for every set of list types with their bounds, every number of
elements in a chunk and every set of numbers:

| theorem | states |
|---|---|
| `Invariance` | `Spec => []ListInv`, the inductive invariant |
| `Types` | `Spec => []TypeOK` |
| `Canonical` | `Spec => []ListsCanonical` |
| `Iteration` | `Spec => []IterationComplete` |
| `Codec` | `Spec => []OptionalsDecode` |
| `ViewWrites` | `Spec => WritesReachTheList` |
| `Refinement` | `Spec => RefinesPlainList`: the list implements `PlainList` |

They assume `ChunkAssumption` and `ListAssumption`: bounds are numbers, packed elements are `uint8`,
and no tree of a list or of its elements is higher than `MaxHeight`, so that its hash is all of it.

**The tree of a sequence.** `New(s, packed)`, the tree that the constructor makes of the elements s,
is the closed form. `ListInv` says that the list is the `New` of its own elements, read by index,
that these are of the type of its elements and within its bound, and that views have an index
within the bound and a value of the type. It is inductive because each operation, which touches only
the nodes on the way to one chunk, makes of the closed form of s the closed form of another
sequence: `AppendNew` that of s with one element more, `PopNew` that of s without its last,
`ReplaceNew` that of s with one replaced, which `set` and the hooks of views do. TLC found `ListInv`
to hold on the instance of the run before the proof.

These three are put together from the layers of the tree. `GetFill`, `SetFill`, `AppendViewFill`,
`PopWithinChunk` and `PopWithChunk` are about one subtree of leaves; the last shows that summarizing
at `Summit` leaves the very root that a new tree has where its zeros begin, which is what the run's
mutant of `Summit` breaks. `GetChain`, `SetChain`, `BeginSubtree` and `EndList` are about the chain,
whose k-th subtree has 4^k chunks and begins at chunk (4^k - 1) / 3 (`Start`); `DescendFacts`,
`SpineOfDepth` and `ToTargetFacts` say that the two loops of `progressive.py` compute the indexes of
that subtree, chunk and element. `PackedNodes` to `WriteNodes` relate elements to chunks, which
only packed elements share. An append that begins a chunk, a subtree or neither, and a pop that ends
one or the other, are the cases at which the code takes different paths.

**What follows from it.** `ListsCanonical` is a part of the invariant, and `TypeOK` follows from its
types. `IterNew` follows the iteration down the chain: after k subtrees, what is left to yield are
the elements from that of chunk `Start(k)` on, and after the last subtree the chain is a zero. For
`OptionalsDecode`, `SerializeFacts` and `ReadAtDef` give one byte per Optional around the value, and
`DeserializeSerialize` is an induction on the depth of the type. A write through a view is an
`Optional.set` whose result is again a value of the type (`ViewSet`), and then a `set` of the list,
or nothing when the element is gone (`KeptHook`); the views that GetView adds change none that is
there, from which `WritesReachTheList` follows. For the refinement, what a step makes of the elements
(`StepElements`) is what a step of `PlainList` makes of them (`PlainStep`).

**Recursion.** The equation of a recursive function is not visible to the provers: it is a `CHOOSE`.
In `DepositTreeProofs` and in `ProgressiveListProofs` an operator `Step` has the steps of all the
recursions of the modules, each with a name, and a lemma shows that a function f with
f[x] = Step(name, p, x, f) for each x exists if `Step` at x looks at smaller arguments only; for a
method that is defined on trees the stages of the recursion are the sets of trees up to a level
(`TreeUpto`). The equation of each function is then a lemma of its own (`TreeAtDef`, `FillDef`, ...).
Induction itself is over sets as well: `LevelInduction` and `SimpleInduction` take the set of numbers
that have a property, where the library's theorems take an operator. Lemmas on powers of two and on
division stand in both modules: one module cannot extend both trees, whose operators have the same
names.

**Only model-checked.** The stable containers of EIP-7495 (`TypeOK`, `BackingsCanonical`,
`EncodingsDecode`, `ProfilesPortable`, `CompatibleTypesShareLayout`, `WritesReachTheSource`): their
types and codecs are recursive operators on types that nest without a bound, of which the provers
know nothing, and have to be rewritten first, as those of the deposit tree and of the progressive
list were. Every property of every other passing run is a theorem. The four runs that expect a
violation are counterexamples and need no proof. Liveness and `ENABLED` are not used.

## 5. What is left out

Events, token URIs (`setURI`), interface registration, the views that only return a field,
`collateralOwing` other than as part of a withdrawal, burns and batch mints (no contract calls
them), gas. Of calls back into the contract, those from the hook of `mintSalary` are modelled.
Transfers call the receiver's hook, and withdrawals the collateral contract, when they have written
everything: a call from there is one that comes after. `donate` calls the hook of `_to` twice, after
each of the two counters it mints and before it takes the collateral, and is modelled as one step:
while it runs the two counters differ and the collateral is not there yet. Its transaction commits
only when all its donations, nested ones too, have minted both counters and brought the collateral,
and the arguments for `PerOracleSum` and `WithdrawalsFunded` use nothing but that; a withdrawal from
its hook is one after it, or fails for lack of collateral. Two different hashes being equal. Of EIP-7495: `repr`, `navigate_type`
and generalized indices, values of list types, and JSON, which the code does not have. Of EIP-7916
and EIP-6475: value lengths, names of types, navigation and conversion to objects; the bytes of
lists, which the library writes. Of EIP-6404: recovery of the signer, which is cryptography.

EIP-7543 is arithmetic on big integers in Go without state, whose loops run over tens of decimal
digits and whose promises are error bounds of `exp`, `ln` and `sin`: over the few digits TLC can
enumerate they say nothing. The generator of EIP-7932 prints test vectors made by cryptographic
libraries. The calculation of EIP-6110 is one closed formula in floating point.

## 6. Plan

1. *Done:* EIP-4881, EIP-7916 and EIP-6475 with their refinements and every property proved;
   EIP-3267 from tokens to the DAO, with the inductive invariants of all three contracts and every
   property of their runs proved; EIP-6404 with every property proved; EIP-7495 with encoding and
   hooked views, model-checked.
2. More proofs: the stable containers, with types as numbers of nested containers or as functions on
   levels, so that reading, writing and encoding are recursive functions; then
   `WritesReachTheSource`, whose hooks are a chain of objects as well.
