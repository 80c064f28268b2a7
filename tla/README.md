# A TLA+ model of the toolkit contracts

The repository holds a dozen small contracts for an EOSIO-style chain: vesting, red
packets, token splitting, airdrops and others. This directory models the contracts that
keep other people's tokens for a while, checks them with TLC and proves their central
invariants with TLAPS. `PROJECT.json` lists components, runs, mutants, the source lines
behind each definition, hazards, findings and theorems.

## 1. The system

### What is common to all contracts

* **A transaction is atomic.** A contract has *actions*, which anybody may send, and
  *notification handlers*, which run when a token contract announces a transfer. An
  action runs to its end or, when a `check` fails or a transfer it sends is refused,
  has no effect at all. The chain runs one transaction after another.
* **Hence the concurrency** is between actions of different accounts: they come in any
  order, repeated, late or never, and what one of them read earlier (a plan, a fee, a
  price, a code) may be different when the next arrives.
* **State** is a singleton (`global`) and `multi_index` tables with integer keys.
  A new key is `available_primary_key()`, so the key of an erased last row comes back,
  or a counter in the singleton.
* **Tokens** belong to other contracts (`flon.token` and its like). A deposit arrives as
  a notification with a memo that says what it is for; a payout is an inline `transfer`.
  The token contract refuses a transfer to the sender itself, of nothing, or of more than
  the balance. Whatever a contract owns of a token is one number: packets, issues and
  wallets are only rows of the contract's own tables. The main question about each of
  these contracts is therefore whether its rows and its balance agree.

### The contracts

| contract | state | operations | what is hard | what makes it correct |
|---|---|---|---|---|
| **flon.vest** | `global` (fee, fee receiver), `vestplans`, `vestissues`, `accounts` (last plan of an owner) | init, addplan, setplanowner, enableplan, transfer with `plan:`/`issue:`, setreceiver, setfirstdays, transissue, endissue, unlock, delfinissues | schedule arithmetic with rounding; the schedule and the receiver change between releases; issues handed over in part; rows erased, keys used again; fee changed while a plan waits for it | rows and balance agree; issued = locked + unlocked; a release is final; plans are enabled for their fee; what is vested is released |
| **flon.redpack** | `global` (expiry, dids), `globalidx` (counters), `tokenlist`, `redpacks` by code, `claims` by id | init, listtoken, delisttoken, setglobalidx, transfer with `awrap:`, claimredpack, cancel, delclaims | random draws that must leave enough; a code used again while claim rows of its former packet exist; expiry changed for packets that exist; packets drawn empty | rows and balance agree; every draw is possible and no larger than what is left; claim rows account for what went out; an expired packet can be cancelled |
| **flon.split** | `global` (limits, last id), `plans`, `wallets` per plan | init, addplan, editplan, transfer with `plan:`, claim, claimall | division with remainder and wrap-around; plans edited between deposits; `editplan` that sends `claimall`; batches of 20 | rows and balance agree; what comes in is handed out, all of it and no more; wallets can be claimed |
| **flon.proxyswap** | `global` (admin, oracle, fee receiver, counter), `pairs`, `orders` | init, setadmin, setoracle, pairs added, removed, enabled, disabled; transfer opens an order; the oracle finishes or cancels it | an order is settled by the pair as it is *then*, and remembers a symbol but not its contract; the counter is set back while orders are open; payouts are the oracle's numbers | symbol by symbol the balance is that of the open orders and of what filled ones left; an open order stays as it is and can be refunded |
| **pubkey.token** | `global` (miner fee, counter), accounts by public key | transfer with a key as memo; newaccount, move | two hashes of one key; a signature covers the time of the last receipt | a deposit opens an account (it does not, section 5) |
| **flon.airdrop** | `global` (oracles, counters), `plans` with quotas per token, `tokens` | init, oracles, tokens, plans, setclaim, delclaim, claim | `init` sets the counters back; quotas are not backed by deposits; several tokens in one claim, of one balance | a quota is never exceeded; all tokens of a plan are paid or none; a plan is never replaced |
| flon.blindbox | `global`, booths, boxes of NFTs per booth | createbooth, NFT deposit, purchase, closebooth | see section 6: no booth can be created | - |
| **price.oracle** | `global` (prices by coin), oracles, one price row per coin | oracles, coins, updateprice | a band around the last price, in rounded arithmetic; a signed amount kept as an unsigned one; several prices of one coin in one call; coins removed and added again | prices and rows agree; ids of rows go on; from which prices there is no way out |
| **flon.faucet** | `accounts` | active, claim | anybody may ask for anybody; clocks cut off to seconds; account, gas and grant are paid out of one balance | one grant a day and account, less half a second; no account without gas |
| **tokensummary** | `global`, `tokencfg` | init, addtoken, deltoken, view | a 128-bit key returned as the primary key of a table | deltoken erases what it names (it does not, section 5) |
| **flon.applybp** | `global` (admin), `producers` | init, applybp, updatebp, addproducer, setstatus | a row is written by its owner and by the administrator | a profile is never lost; its status changes only by the administrator |
| **flon.creator** | `global` (admin, gas) | init, setgasquant, newaccount | names somebody else has taken in between; gas it cannot pay | no account without gas |
| flon.test | scratch tables | - | - | - |

Interactions: `flon.faucet`, `flon.creator` and `pubkey.token` call the system contract
(`newaccount`, `buygas`) and so change the set of accounts of the chain, which the others
read through `is_account`; all take deposits from token contracts or make transfers. The
contracts share no table. (`flon.blindbox` would pay sales into a plan of `flon.split`.)
The contracts in bold are modelled.

## 2. The modules

| module | models | notes |
|---|---|---|
| `Tables` | `multi_index`: a function from keys to rows; `Put`, `Drop`, `IsNextKey` | `TableTheorems` proves that they keep rows typed |
| `Sums` | `SumTo(w, n)`: the sum over the rows 1..n, a recursive *function* | `TableTheorems` proves what a written row does to a sum, without induction schemes: by the least counterexample |
| `Vest` | flon.vest | `MCVest` for TLC, `VestProofs` for TLAPS |
| `Redpack` | flon.redpack | `MCRedpack`, `RedpackProofs` |
| `Split` | flon.split | `MCSplit`, `SplitProofs` |
| `Custody` | none: the abstract specification of a contract that keeps tokens for others | `Vest`, `Redpack` and `Split` implement it |
| `Proxyswap` | flon.proxyswap | `MCProxyswap`, `ProxyswapProofs` |
| `Airdrop` | flon.airdrop | `MCAirdrop`, `AirdropProofs` |
| `PriceOracle` | price.oracle | `MCPriceOracle`, `PriceOracleProofs` |
| `System` | external: `newaccount` and `buygas`, as the contracts use them | |
| `Creator`, `Faucet`, `Applybp`, `TokenSummary` | flon.creator, flon.faucet, flon.applybp, tokensummary | one module each, no initial state of their own |
| `Services` | the four of them on one chain: they meet in `accounts`, which two of them extend and two read | `MCServices`, `ServicesProofs` |
| `PubkeyToken` | pubkey.token | `MCPubkeyToken` |

An action of a contract is one action of its module, named like it (`unlock` is
`Unlock`; `init` is `SetGlobal`, since `Init` is the initial state). Its guard is the
conjunction of all checks of the handler *and* of the transfers it sends
(`CanTransferOut`), because any of them aborts the whole transaction. The constructor,
which reads the singleton or takes its defaults, gives `Init`. The variables are the
tables, plus three that are not in the contract: `now` (`current_time_point`), `held`
(what the token contracts say the contract owns, by asset: changed by the deposits and
transfers of the actions) and, in some modules, a history: `collected` in `Vest` (plan
fees forwarded so far), `settled` in `Proxyswap` (deposits of filled orders less what was
paid to fill them), `quota` in `Airdrop` (what was allocated, and claims since), `granted`
in `Faucet` (the times of the grants of each account). No guard reads a history.

Left out everywhere: who signed (a caller that names itself may be anybody, so
`require_auth` restricts no step; where an administrator or an oracle must exist, as in
`Redpack` before the first `init`, that is a guard), titles, memos, `created_at`/`updated_at` where
nothing reads them, log actions (`notifyplan`), prints. A token is a member of `Assets`:
the contract that issues it and its symbol.

Points where the models say more than the obvious:

* `Vest!multiply_decimal64` rounds half up, and `MultiplyFits` is the `int64_t` check
  made on ten times the product: a partial release may abort on it, the last never does.
* `Vest!TransIssue` writes two rows, under a key that `IsNextKey` chooses, and erases
  the old one if nothing stays locked.
* `Redpack!Shares` is the set of amounts the next claimer may get. The random seed is a
  hash of the block, so each number of units from 1 to the maximum may come up. The unit
  is `10^p \div 10^(p-2)`, which is 100 for more than two decimals.
* `Redpack!SetGlobal` does not touch `dids`, as the code does not, and nothing else does.
* `Split!Portion` takes the product modulo 2^64, which is its C++ type; `Portions` ends
  at the first empty one, because the loop does.
* `Split!Claim` checks that the wallet is not empty, as the code does; `WalletsClaimable` says
  that none ever is.
* `Split!EditPlan` contains the inline `claimall` that it sends: if that aborts, so does
  the edit. Wallets are numbered in the order of names, the order in which batches go.
* `Proxyswap!SymbolOf` gives two tokens of different contracts one symbol: an order stores
  `asset`s, which have no contract, and `get_token_contract` looks at the left side first.
  `FreeId` is the abort of `emplace` on an id that `init` has made come back.
* `Airdrop!Sendable` is the refusal of an empty transfer: it is what makes a claim abort
  when one quota of the plan is used up. A token there is an extended symbol, while the
  list of allowed tokens looks at contract and code.
* `PriceOracle!UpdatePrice` loops over the prices of the call (`Updated`): each is
  compared with the one before it, and one that is refused takes all back. `Stored` is the
  assignment of an `int64_t` to an `uint64_t`.
* `Faucet!MayOpen` takes the gas off before it compares the grant; `Sec` drops the half
  second that `time_point_sec` drops.
* `PubkeyToken!sha256pk` and `HashInMemory` are different values for every key: the index
  hashes the packed key, the actions hash `sizeof(public_key)` bytes, which include the tag
  and the padding of a variant.

### The abstract custodian

`Custody` has what a contract owns of each asset (`held`) and what it owes, by claim and
asset (`owed`). Tokens come in and nobody is owed less (`Deposit`), go out and nobody is
owed more (`Payout`), or a claim passes to another one (`Assign`, where `Assignable`);
after each step both agree (`Balanced`). `Vest`, `Redpack` and `Split` are shown to
implement it by `Owed`: the claims are the issue rows with what an ongoing one has locked,
the packets with what is left of them, and the wallets of all plans one after the other.
In `Redpack` and `Split` claims are not assignable, in `Vest` `transissue` assigns. So no
action takes from one claim and adds to another but a handover, and none that pays out
raises what anybody is owed.

## 3. The runs

| run | bounds | shows |
|---|---|---|
| `vest_release` | 1 plan of 3 portions, 2 issue rows, amounts up to 3, first day 0 or 1, an `int64_t` of 15, 4 moments | `TypeOK`, `IssueBalanced`, `PlanLedger`, `Solvent`, `ReleaseIsFinal`, `ImplementsCustody`, `VestedIsReleased` |
| `vest_fees` | 2 plans, 2 assets, fee 0 or 1, 2 issue rows | `PlansExist`, `Solvent`, `ActivationIsPaid` |
| `redpack_claims` | 2 codes and packets of 3 shares, 350 or (too little) 150 deposited, 3 claimers, 4 claim rows | `ShareFloor`, `NextShareExists`, `FinishedIsEmpty`, `ClaimsAccounted`, `ImplementsCustody` |
| `redpack_custody` | 2 assets with units 100 and 10, 2 packets of 2 shares, counters that are set back, expiry 1 or 2 hours, 3 moments | `TypeOK`, `Solvent`, `ExpiredIsCancelled` |
| `split_wallets` | 3 accounts, one of them the contract, 1 plan, 2 assets, amounts 1 and 3, rates of 2, batches of 1 | `TypeOK`, `Solvent`, `WalletsClaimable`, `ImplementsCustody`, `WalletIsPaid` |
| `split_division` | every plan of 1 to 3 receivers with rates that add up to 5, every amount up to 11, products modulo 32 | `DividesExactly` |
| `proxyswap_orders` | 3 tokens of 2 symbols, 1 pair of 4 kinds, 2 orders, amounts 1 and 2, up to 3 of a token, a counter set to 0 or 1 | `TypeOK`, `LedgerBySymbol`, `OrdersAreFixed`, `OrderIsSettled` |
| `airdrop_claims` | 2 tokens (symmetric), 2 plans, 1 listed token at a time, claims of 2 with a quota of 3, windows of 1 or 2 moments, 3 claims | `TypeOK`, `QuotaIsKept`, `EveryTokenIsPaid`, `ClaimsStayCounted` |
| `price_band` | 2 coins, amounts from -1 to 9, an `int64_t` of 127, 2 prices in a call, 4 ids | `TypeOK`, `RowIsLatest`, `BandTraps`, `IdsTellRowsApart` |
| `services_accounts` | 3 names, an administrator who has no account at first, grants of 2 and gas of 0 or 1 out of 7 tokens each, 5 half seconds with a day of one second | `TypeOK`, `OneGrantADay`, `EveryAccountHasGas`, `ProfilesAreKept` |
| `services_summary` | 2 banks, 1 symbol | violation, section 5 |
| `pubkey_newaccount` | 1 key, 2 names, funds for one account | violation, section 5 |

Why these bounds are enough to make the interesting cases happen:

* *Vest.* Three portions of 2 or 3 tokens give a portion that is rounded up and one that
  is rounded down; two rows let an issue be handed over in part, either row end, be
  erased and its key be used again; an `int64_t` of 15 makes the check of the partial
  release fail for the larger amounts; the first days may be put off after a
  release. Two assets and two plans let a wrong plan or asset be charged.
* *Redpack.* 350 over three shares gives averages of 116, so one or two units of 100 per
  draw: the third claimer may find 150, 50 or everything gone. With 4 claim rows and two
  packets codes are used again while old rows exist, and rows are deleted in between.
  Two assets with the same codes let a refund go out of the wrong balance.
* *Split.* Rates 1 and 1 of 2 with an amount of 1 give empty portions and a rest;
  batches of one make a batch end before the second wallet. In `split_division` all plans
  are enumerated instead of a few, and the modulus is small enough that most products
  wrap around. One plan is enough there: the wallets of a plan are a table scope of their own, and no
  action reads those of another plan.
* *Proxyswap.* Two orders and four kinds of pair: the same, one with the other contract of
  the symbol, the sides exchanged, and two tokens of one symbol with a minimum in a wrong
  symbol. Fills of 1 or 2 and a fee can leave less than a deposit of 2.
* *Airdrop.* A quota of 3 and claims of 2: a full payment, a partial one, and one that must
  fail. A balance of 2 per token is enough for one plan only. The tokens play the same
  part in every definition and property, which makes the symmetry sound; the run checks no
  liveness.
* *Price oracle.* 1 and 2 are stuck, 3 and more are not, 9 is past a fifteenth of 127, -1
  wraps around. Two prices per call can name one coin twice.
* *Services.* 7 tokens are two accounts with a rest that pays gas but no grant; 5 half
  seconds hold three days and every offset of two grants within a second, and let two days pass
  without a grant, after which two at once must not be possible.

Scaled constants: `DaySeconds` 1 for 86400, `Int64Max` and `MaxAmount` a few units,
`PCT_BOOST` 2 or 5 for 10000, `Word` 32 or 64 for 2^64, `Batch` 1 or 2 for 20. The
relations the code relies on are kept (`Word` > `MaxAmount`; rates between 1 and
`PCT_BOOST`). The bounds `MaxPlans`, `MaxIssues`, `MaxPacks`, `MaxClaims`, `NumCodes`,
`MaxConf`, `MaxOrders`, `MaxHeld`, `MaxTokens`, `MaxCount`, `MaxId`, `MaxInfos`, `Budget` and
`MaxTime` cap ids, balances, rows and the clock and are no part of the code. All
state graphs end where time and ids are used up, hence `CHECK_DEADLOCK FALSE`: a contract
to which nobody sends anything has no next step.

Each property of a passing run has a *mutant*: a definition changed as a plausible bug
would change it (a guard dropped, a wrong field, a row overwritten), for which TLC finds
the property violated. The mutated forms stand before the definitions they change,
marked as mistakes.

### Fairness

Weak fairness of `Tick`: time passes. Weak fairness of `Unlock`, `Cancel` and `Claim`
of each row: the contract has no scheduler, but `unlock`, `cancel` and `claim` may be
sent by anyone, repeatedly, and the receiver, the creator and the owner of a wallet
gain by it. In `Proxyswap` weak fairness of `CancelOrder` of each order:
the oracle is a service that answers every order, if not by filling it. In `PubkeyToken`
weak fairness of `newaccount` and `move`: the miners live on the fees. No fairness is
assumed of administrators, claimers or depositors, none of `enableplan`, none of fills, and
none is strong. Each liveness property ends with its own condition, so
whatever disables the action (a plan disabled, an expiry put off, a pair removed) fulfils it.

## 4. What is proved

TLAPS proves the following for every value of the constants that satisfies the
assumption of the module: any number of accounts, rows, shares, any amounts.

**Vest** (`VestProofs`): `VestTypeCorrect`, `VestPlansExist`, `VestIssuesBalanced`,
`VestPlanLedger`, `VestSolvent`, `VestEveryLockCovered`, `VestReleaseIsFinal`,
`VestActivationIsPaid`. `Solvent` is not inductive alone. A release pays out
`total - unlocked` and sets `locked` to `issued - total`; that the first is what the
second falls by needs `issued = locked + unlocked` (`IssueBalanced`); the asset of an
issue is that of its plan, so the plan must exist (`PlansExist`); and all arithmetic
needs the types. `Inv` is the conjunction of these with `PlanLedger` and `Solvent`.
Each action moves the locked amounts of at most two rows of one plan, by the amount by
which it moves the totals of the plan and the balance; the lemma `MoveRows` says that
this keeps both sums, and the action cases name the rows and the amount.

**Redpack** (`RedpackProofs`): `RedpackTypeCorrect`, `RedpackSolvent`,
`RedpackShareFloor`, `RedpackNextShareExists`, `RedpackFinishedIsEmpty`. The heart is that
random draws keep a floor. Let f be the unit, or 2 for tokens without decimals. The
invariant says that what is left is at least f (count - 1). If the average is at
least f, a draw of at most twice the average leaves at least f for all but one of the
others; if it is smaller, at most one unit (or two single ones) can be drawn. So the
number of units that can be drawn is never 0 while two shares are left: the `%` in
`_rand` never divides by zero. It needs the deposit check of 100 per share
(`EnoughPerShare`): the run `redpack_claims` finds the property violated without it.

`RedpackClaimsAccounted` needs one hypothesis, `PacketIdsGrow`: no step sets the counter of
packets back. A `setglobalidx` may, and then a new packet can get the code and the id of an
old one whose claim rows are still there. `RedpackIdsGrow` shows that nothing else does, so
that the hypothesis follows where `setglobalidx` is called with a packet id of 0, as in the run
`redpack_claims`. Under it, all packets and rows have ids the counter has passed
(`IdsPassed`, checked by TLC first), so a deposit starts with no rows; a claim adds one row
of a claimer who has none (`AlreadyClaimed` looks at more rows than those of the packet), which
moves the sum by the share and both cardinalities by one; `delclaims` erases only rows that
are of no packet.

`RedpackPayoutsGoOut` is the safety half of `ExpiredIsCancelled`, and of every claim: the
token contract never refuses the transfer of a share or of a refund that is due. It follows
from `Solvent` (a packet has no more left than the contract owns, `LeftIsOwned`), from the
floor (no share is empty) and from the creator not being the contract (`CreatorsStep`).

**Split** (`SplitProofs`): `SplitTypeCorrect`, `SplitSolvent`, `SplitWalletsClaimable`,
`SplitDividesExactly`. A portion is at most its rate of the amount, because a product taken
modulo 2^64 only gets smaller (`PortionBound`). The rates of a plan that `addplan` or
`editplan` accepted add up to `PCT_BOOST` (a conjunct of the invariant: `RatedConfs`), hence
the portions add up to at most the amount (`NothingTooMuch`), the rest is not negative, and no
credit is. Credits are sums by account of portions by receiver; exchanging the two sums
(`SumExchange`) gives that they add up to the amount (`AllIsCredited`). So a payment that is
booked adds to the wallets of a plan what it adds to the balance. A claim, a batch of
`claimall` and the one that `editplan` sends erase a set of wallets and pay out what they say
(`PaidSolvent`); one lemma, `StepEffects`, sorts every action into these kinds. `SplitPayoutsGoOut`
is the safety half of `WalletIsPaid`: the balance covers any set of wallets of one plan, so
only a wallet of the contract's own can make a claim or a batch fail.

**The refinement** (`VestImplementsCustody`, `RedpackImplementsCustody`,
`SplitImplementsCustody`): every behaviour of the three contracts is one of a custodian. `Solvent` is `Balanced` under the mapping
(`SolventIsBalanced`), so what remains is which claims a step moves. `VestProofs` first
classifies every step (`StepEffect`): it moves no weight, or it moves the weight of one row
with the balance, or it moves weight from one row to another and leaves the balance; the
same lemma serves the ledger of the plans. `CustodyStep` reads these three as a stutter, a
deposit or payout, and an assignment. In `RedpackProofs` a step opens one packet or lowers
what is left of one. The claims of `Split` are the wallets of all plans in one row, numbered
by plan and owner; `SumBlocks` turns the sum over that row into the sum over plans of sums
over owners that `Solvent` speaks of.

**Proxyswap** (`ProxyswapProofs`): `ProxyswapTypeCorrect`, `ProxyswapLedger`,
`ProxyswapOrdersAreFixed`, `ProxyswapRefundsCovered`. Every step opens one order, settles one
(fill or cancellation) or leaves orders and balances alone (`StepEffects`), and moves one
token. `LedgerBySymbol` then moves by one row of each of its two sums (`MoveLedger`). It is a
ledger of symbols, not of tokens, because the contract that is looked up for a payment is only
known to have the symbol that was asked for (`ContractHasSymbol`): a refund may go out in the
other token of the pair. `ProxyswapRefundsCovered` says what this leaves: where a symbol
belongs to one token and `settled` is not negative, every open order can be refunded.

**Airdrop** (`AirdropProofs`): `AirdropTypeCorrect`, `AirdropQuotaIsKept`,
`AirdropEveryTokenIsPaid`, `AirdropClaimsStayCounted`. The invariant gives what is left of a
token as a function of the quota and the number of claims since it was set (`Left`), which
makes `QuotaIsKept` inductive: a claim that pays the rest is the last one, as the next would
transfer nothing and abort (`NextClaim`). Every step but a claim leaves the counts of the
plans that stay (`Counted`), and a claim pays each token of its plan (`Paid`); the two action
properties follow. That `init` sets the counter of plans back does no harm, because `emplace`
aborts on an id in use (`AddPlanKeeps`).

**PriceOracle** (`PriceOracleProofs`): `PriceOracleTypeCorrect`, `PriceOracleRowIsLatest`,
`PriceOracleBandTraps`, `PriceOracleIdsTellRowsApart`. A call loops over any number of prices
and may name a coin twice, so the band is not a property of one round. `Round` says of the
state after each round how it compares with the state before the call; `NextRound` is one
round, and `LoopEnds` carries it to the end by the least round it does not hold after. `Band` is
the rounded arithmetic of one price. The width of the integers is a constant.

**Services** (`ServicesProofs`): `ServicesTypeCorrect`, `FaucetOneGrantADay`,
`ServicesEveryAccountHasGas`, `ApplybpProfilesAreKept`. `OneGrantADay` compares the times of any
two grants of an account: if one is the n-th after the other, n days went by on the clock, less
half a second at most. It does not depend on where the clock starts, and no idle time is made up
for. It is not inductive: half a second may be lost between every two neighbours, and only in
whole seconds the days add up. The invariant (`GrantsAreDated`) says that in whole seconds the
n-th grant after another is n full days later (`DaysApart`), and that the row of the account has
the time of the last one; `NextGrant` carries it over a grant.
`ProfilesAreKept` needs that only accounts have profiles (`ProfilesHaveOwners`). TLC found both
satisfied on the instance of `services_accounts` before they were proved.

**Sums and tables** (`TableTheorems`): how sums move with one or two rows
written, that they add up, are exchanged, scaled and cut into blocks, their bounds; types kept
by `Put` and `Drop`.

Only model-checked: the liveness properties (`VestedIsReleased`, `ExpiredIsCancelled`,
`WalletIsPaid`, `OrderIsSettled`), which are out of the prover's reach, as fairness and
ENABLED are. Every other property of a passing run is a theorem. The two runs that expect a
violation (`DelTokenErasesIt`, `DepositOpensAccount`) have nothing to prove.

## 5. Findings

Two of them have a run:

* **tokensummary** documents a key of bank and symbol, but the table keeps its lower 64
  bits, the symbol: `deltoken` of one bank erases the row of another (`services_summary`).
* **pubkey.token** never finds a deposit: the actions hash the bytes of the key in memory,
  the index those of the packed key. `newaccount` and `move` always abort and every deposit
  opens a new row (`pubkey_newaccount`). With one hash for both, TLC finds
  `DepositOpensAccount` satisfied.

The others are properties that stand in the modules, which TLC refutes when they are added
to a configuration, and that no run checks:

* **unlock** asserts on a partial release that no more was released before than is due
  now. `setfirstdays` and `transissue` may make it false, and `unlock` aborts until the
  schedule catches up (`UnlockAssertionHolds` of `Vest`; `VestedIsReleased` shows that it
  does catch up).
* **init** of flon.redpack ignores `did_supported` and `did_id`: packets that require a
  did are accepted and cannot be claimed (`DidPacketClaimable` of `Redpack`).
* **Claim rows outlive their packet**: a claimer of a cancelled packet is refused by the
  next one with the same code (`RefusedOnlyIfClaimed`).
* **The last share may be empty**: with two shares left a draw may take everything, and
  the last claim aborts (`EveryShareIsPaid`). `cancel` removes such a packet.
* **A receiver after an empty portion gets nothing**, whatever its rate; the first one
  gets the rest (`RateIsHonoured` of `Split`). `DividesExactly` does not say who gets what.

Noticed while modelling, without a property: the comments of flon.airdrop say that only full
amounts are paid (`flon.airdrop.cpp:228`) and that a plan is claimed once per person
(`flon.airdrop.db.hpp:37`), while the last claim gets what is left and an oracle may claim
again for the same beneficiary. A price of 1 or 2, or above a fifteenth of the `int64_t`
range, can never change (`BandTraps` states it as the behaviour of the code).

## 6. Assumptions

The token contracts are honest: `held` changes by the transfers that the contract sends
or is notified of, and by nothing else. Transfers to the contract with memos it refuses
abort. Every amount is a positive 62-bit integer; where a handler adds amounts with
`asset::operator+=`, the limit is a guard, and where it cannot be reached (a sum of
amounts that are parts of one deposit) it is left out. RAM and CPU limits are not modelled.
The comment above `redpack::cancel` says that a packet is refunded while it is *not*
expired; the code, and the model, require that it is.

### Not modelled

* **flon.blindbox.** `createbooth` stores the new booth with the one-argument `set` of
  `wasm_db.hpp`, which is the one for rows that exist and aborts on "record not found". So
  no booth can be created, and every other action aborts because there is none. A model
  would have one state.
* **flon.test** is a scratch contract.
* **`view` of tokensummary** is read-only; log and notification actions have no effect.
* **The headers that are copied into the include directory of each contract** (`safe.hpp`,
  `utils.hpp`, `wasm_db.hpp`, the interfaces of the token, ntoken and system contracts): up
  to eleven copies of each, most of the lines of the repository. They declare actions of
  contracts whose code is elsewhere, or check overflows and format strings; the models
  contain what the contracts use of them, at the place of use.

## 7. The plan

Done: all contracts of the repository that can do anything; the refinement of `Custody` by
three of them, model-checked and proved; the composition `Services`; the proof of every safety
and action property of the passing runs.

The liveness properties stay with TLC; what can be said of them without ENABLED is proved: the
transfers they need are not refused (`VestEveryLockCovered`, `RedpackPayoutsGoOut`,
`SplitPayoutsGoOut`, and `ProxyswapRefundsCovered` with the two conditions it names).

Next: that such a payout also stays due until it is made, as action properties: a wallet, a
packet or an order leaves its table only in the step that pays it.
