# Enzyme v4: a verification project

TLA+ models of the Enzyme (formerly Melon) asset management protocol, checked
with TLC and proved about with TLAPS: the Solidity contracts under `contracts/`
of this repository, the scripts that deploy them
(`packages/protocol/deploy`), and the library through which users and tests
call them (`packages/ethers`). Paths below are relative to `contracts/` unless
they begin with `packages/`.

    tlc -config FundLifecycle_lifecycle.cfg MCFundLifecycle.tla
    tlc -config FundShares_shares.cfg       MCFundShares.tla
    tlc -config FundFees_marks.cfg          MCFundFees.tla
    tlc -config CallOnExtension_trades.cfg  MCCallOnExtension.tla
    tlc -config Policies_policies.cfg       MCPolicies.tla
    tlc -config StakingWrapper_rewards.cfg  MCStakingWrapper.tla
    tlc -config Deployment_deployment.cfg   MCDeployment.tla
    tlc -config ContractFunctions_calls.cfg MCContractFunctions.tla
    tlapm FundLifecycle_proofs.tla       tlapm FundShares_proofs.tla
    tlapm FundFees_proofs.tla            tlapm CallOnExtension_proofs.tla
    tlapm PoliciesAndWrapper_proofs.tla  tlapm Deployment_proofs.tla
    tlapm ContractFunctions_proofs.tla   tlapm Arithmetic.tla

## 1. The system

A **fund** is a `VaultProxy`: it holds the assets and is the ERC20 token of its
shares. It obeys one **accessor**, its `ComptrollerProxy`, which implements
buying and redeeming shares and the calls its managers may make. A **release**
is a `FundDeployer` with its `ComptrollerLib`, `VaultLib`, `ProtocolFeeTracker`
and **extensions** (fee, policy, integration and external position managers).
The **`Dispatcher`** outlives releases: it records which release each fund is
on and moves funds from one to the next.

| component | state | operations | talks to |
|---|---|---|---|
| `persistent/dispatcher/Dispatcher` | current FundDeployer, timelock, release and migration request of each vault | signal, cancel, execute migration; governance setters | hooks of both FundDeployers (low-level calls whose failure may be bypassed); sets accessor and VaultLib on the VaultProxy |
| `release/core/fund-deployer/FundDeployer` | liveness, timelock, reconfiguration request of each vault; registries | create fund, migration and reconfiguration requests, cancel, execute | deploys, activates and destroys ComptrollerProxies; Dispatcher; ProtocolFeeTracker |
| `persistent/vault`, `release/core/fund/vault/VaultLib` | accessor, VaultLib, roles; shares; tracked assets; external positions | role changes; shares and asset operations, for the accessor only | ProtocolFeeTracker, ProtocolFeeReserve |
| `release/core/fund/comptroller/ComptrollerLib` | vault, denomination asset, timelock of share actions, mutex and reverse mutex | buy and redeem shares, `callOnExtension`, `vaultCallOnContract`, activate, destruct | every extension; the VaultProxy |
| `release/infrastructure/protocol-fees/ProtocolFeeTracker` | last payment of each vault, fee rates | initialize, pay, set rates, set last payment | called by the VaultProxy |
| `persistent/protocol-fee-reserve` | the fee shares collected | buy back at a discount | called by the VaultProxy |
| `release/extensions/fee-manager` and fees | enabled fees, shares outstanding; high-water mark, last settlement | settle and update on hooks, pay out, deactivate | mints, burns and moves shares through the ComptrollerProxy |
| `release/extensions/policy-manager` and policies | enabled policies by hook; cumulative slippage, bypass windows | enable, disable, validate, announce a bypass | called before and after actions |
| `release/extensions/integration-manager`, adapters | none | call on integration, track and untrack assets | reverse mutex of the ComptrollerProxy; adapters; policies |
| `release/extensions/external-position-manager`, positions, `persistent/external-positions` factory | types; positions' own debts and claims | create, call, remove, reactivate | as above |
| `release/infrastructure/gas-relayer` | deposits | pay for relayed calls | ComptrollerProxy, vault |
| `release/infrastructure/staking-wrappers` | reward integrals and balances | deposit, withdraw, transfer, claim, checkpoint, pause | third-party staking |
| `persistent/address-list-registry`, `uint-list-registry` | lists, owners, update types | create, add, remove, attest | policies |
| `persistent/shares-splitter` | claims by percentage | claim, redeem | vault |
| `release/infrastructure/value-interpreter`, price feeds | registry of primitives and derivatives | add, update, remove, value | comptroller, fees, policies |
| `packages/protocol/deploy/scripts` with `hardhat-deploy` | deployment records; what has been set up on the chain | deploy, register, initialise, create lists, publish the release | every contract above, by transactions |
| `packages/ethers` | function objects, their options, their promise of a populated transaction; stubs of mocks | refine, attach, populate, call, estimate, send; mock | signer, provider, node |

What makes the contracts hard is not threads but **order**: transactions of
owners, migrators, investors, fee recipients and governance arrive in any
order, time passes between any two, requests wait behind timelocks and are
executed against a state that has changed since, hooks of other releases fail
and are bypassed, and one transaction calls through external code which may
call back.

What makes the TypeScript hard is **asynchrony and interruption**: a deployment
is a hundred transactions sent by a process that may stop between any two and
is then run again from the records it kept; some of its steps are taken only by
the run that made a record, others revert when repeated, and on a live network
others act meanwhile. A function object of the ethers package caches a promise
that several calls wait for at once, while signer, provider and node answer in
any order or fail.

What would make each component correct:

- *Lifecycle* (Dispatcher, FundDeployer, access control): a fund always obeys a
  live, activated ComptrollerProxy of its own release; control moves only after
  an announcement and its notice; an owner can always call a migration off.
- *Shares*: no share action within the timelock, except while a migration or
  reconfiguration is pending; no purchase or redemption lowers the value of the
  shares that stay; the fee is paid before the supply it is due on changes.
- *Fees*: no time is charged twice; shares outstanding are backed by shares the
  vault holds; the high-water mark never ends below the share price at which it
  was last settled.
- *Extensions*: the vault accepts a call from an extension only within a
  `callOnExtension` of its own accessor; positions stay within the limit;
  balances read around an adapter's call account for each asset once.
- *Policies*: losses let through stay within the tolerance over every stretch
  of time; the terms investors entered under stay.
- *Staking wrappers*: rewards follow stakes, and what is owed is held.
- *Deployment*: whatever order and interruptions, a completed run leaves the
  release configured; a rerun changes nothing; what is looked up is there.
- *Contract functions*: what is sent is what was built; a caller learns what
  became of its own transaction; every call settles.
- *Registries, splitter, gas relay, loans*: stated with their modules as they
  are written.

`PROJECT.json` lists every component with what is modelled of it, and every
hazard with its line and the properties that cover it.

## 2. Plan

Done:

1. `AccessorHandover`, `FundLifecycle`: the abstract promise about control, the
   lifecycle of funds across releases, the refinement between them.
2. `FundShares`: buying, redeeming and moving shares, the timelock, the
   protocol fee and its buy-back.
3. `FundFees`: the FeeManager's hooks and two-pass settlement, the official
   fees, shares outstanding, the deferred reset of the high-water mark.
4. `CallOnExtension`: the mutexes and re-entrance, approvals, tracked assets,
   external positions and their limit, the balance differences of
   `IntegrationManager`.
5. `DeploymentScripts`, `HardhatDeploy`, `Deployment`: every script, the order
   they run in, interruptions and reruns.
6. `ContractFunctions`: function objects and their asynchronous methods, stubs.
7. `StakingWrapper`, `Policies`: rewards by integrals; the PolicyManager and
   its one policy with a record of trades.

Next: `FeeCustody` (shares outstanding across migrations, composing `FundFees`
with `FundLifecycle`), the list registries, the gas relay paymaster, the shares
splitter, the arbitrary loan; what a wrapper's casts to `uint128` do beyond the
bounds within which nothing is lost by them.

## 3. Modules

### `AccessorHandover`

The abstract specification: what investors are promised about who controls
their vault, with no word about releases, hooks or requests. Announcements are
made with a notice period then in force, withdrawn, or turn into a handover
once the notice has run out; an accessor is named at most once in its life.

### `FundLifecycle`

One action is one transaction, which the EVM runs to its end or reverts; what
interleaves are the transactions of different accounts and `Tick`, the passing
of `block.timestamp`. Every public function of the Dispatcher, the FundDeployer
and the VaultProxy that changes the state below is an action with the code's
`require`s as guards; what it calls in other contracts is part of it.

| variable | code |
|---|---|
| `currentFundDeployer`, `migrationTimelock`, `vaultProxyToFundDeployer`, `vaultProxyToMigrationRequest` | Dispatcher storage |
| `isLive`, `reconfigurationTimelock`, `vaultProxyToReconfigurationRequest` | FundDeployer storage, one of each per release |
| `accessor`, `vaultLib`, `owner`, `nominatedOwner`, `migrator` | VaultProxy storage |
| `status`, `vaultProxy`, `release` | a ComptrollerProxy: whether it is deployed, activated or self-destructed, its vault, its immutable `FUND_DEPLOYER` |
| `vaultProxyToLastPaid` | ProtocolFeeTracker storage, one per release |
| `undestructed`, `chargedUntil` | history, for properties: accessors left alive by a failed hook; the end of the time a vault was charged for |

A release is named by its FundDeployer, which stands for its VaultLib and
ProtocolFeeTracker. `CancelMigration` and `ExecuteMigration` take the outcome
of the hook as a parameter: the Dispatcher calls hooks with low-level calls, so
a hook can fail alone (it must, when the ComptrollerProxy it destroys does not
answer; it may, for want of gas) and the transaction goes on only with
`_bypassFailure`. `CanCancelMigration` and `CanCancelReconfiguration` are the
guards of the cancellations, which `OwnerCanCallOff` is stated by. `feePaid` is the
outcome of the `try` in `destructActivated`.

Left out: shares, fees and policies, which do not influence these guards
(except that an extension's `activateForFund` may revert, which here is an
action not taken); the paymaster carried over by a reconfiguration; the
wrap-around of `block.timestamp + timelock`. Definitions marked `[Mutant: ...]`
are plausible bugs; each property is checked to catch one.

### `FundShares`

The shares of one fund while one ComptrollerProxy is in force. One action is
one transaction; purchases, both redemptions, transfers and buy-backs each do
everything their function does, in its order: the valuation, the protocol fee,
the automatic buy-back, the mint or burn, the payout.

| variable | code |
|---|---|
| `shares` | `sharesBalances` and `sharesTotalSupply` (SharesTokenBase) |
| `assetBalance`, `mlnBalance`, `positionsValue` | what the vault holds: the denomination asset, MLN, and the value its external positions report |
| `unpriced` | the prices that no feed answers for: MLN's, the positions' |
| `lastPaid` | the vault's clock in the ProtocolFeeTracker |
| `autoProtocolFeeSharesBuyback`, `acctToLastSharesBoughtTimestamp` | ComptrollerProxy storage |
| `pendingRequest` | `hasMigrationRequest` or `hasReconfigurationRequest` |
| `requestedAt` | history: when that request was made |

| action | code |
|---|---|
| `BuyShares` | `buyShares`, `buySharesOnBehalf`, `__buyShares` |
| `RedeemSharesForSpecificAssets`, `RedeemSharesInKind` | the functions of these names with `__redeemSharesSetup`; recipients are outside the vault |
| `TransferShares` | `transfer`, `transferFrom` and the hook `preTransferSharesHook`, freely transferable or not |
| `BuyBackProtocolFeeShares`, `SetAutoProtocolFeeSharesBuyback` | the functions of these names |
| `Request`, `CancelRequest` | what the shares see of `FundLifecycle`'s requests |
| `ManageAssets`, `PricesChange`, `Tick` | external: trades and markets, price feeds, time |

Arithmetic is the code's: integers, every division rounded down, `sub` guards
where they can bite (`FeePayable`, `Burnable`). Left out: fees of the fund and
policies (the fund has none, so their hooks return at once); tokens with a fee
on transfer (`received` is what was invested); changes of MLN's price, a
constant, while markets move the rest; allowances; MLN burned or not is gone
for the vault all the same. `MaxSupply`, `MaxAssetBalance` and `MaxTime` bound
the purchases and the time in the guards.

`CanRedeem` is all that the common setup of both redemptions demands; an
in-kind payout demands nothing more, so `RedeemableInKind` is stated by it.

`SharesToken` holds the operations of the token, which `FundFees` uses too.

### `FundFees`

The fees of one fund. `FundShares` has the protocol fee and none of these;
`FundFees` has these, takes any protocol fee of `ProtocolFees`, and knows of
the assets only their value `gav`, and whether it can be had (`priced`).

| variable | code |
|---|---|
| `shares`, `now` | as in `FundShares` |
| `highWaterMark` | of the `PerformanceFee`; `ResetHwmFlag` for `RESET_HWM_FLAG`, only within a transaction |
| `lastSettled` | of the `ManagementFee` |
| `sharesOutstanding` | `comptrollerProxyToFeeToSharesOutstanding`, of the one fee that uses it |

| action | code |
|---|---|
| `BuyShares`, `RedeemShares` | `__buyShares` and both redemptions, with the hooks before and after, the `try` around the redemption's |
| `SettleContinuousFees`, `PayoutSharesOutstanding` | `receiveCallFromComptroller`, actions 0 and 1 |
| `Reactivate` | the FeeManager's part of a migration or reconfiguration: `destructActivated`, `deactivateForFund` (which may fail), `activate(true)`, `activateForFund` of both continuous fees |
| `TransferShares`, `MarketsMove`, `Tick` | as in `FundShares` |

A hook is a function of the fund, a record within a transaction with a flag
`ok` that a revert clears: `SettleFees` settles the enabled `Fees` in order, by
what `settle` of each returns, `UpdateFees` updates afterwards. Whoever calls
the hook decides what a revert means: the end of a purchase, no fees for a
redemption. `External` is a fee of a third party, which the FeeManager admits:
its `settle` returns anything of `ExternalSettlements`. No official fee uses
shares outstanding. Left out: changes of recipients and the automatic buy-back
(`FundShares` has it); the growth of the management fee's rate is a constant
function of the time.

### `CallOnExtension`

What asset managers do with a fund's assets. Here one transaction is not one
action: an adapter or a position leaves the protocol, and what it calls may
call anything back before it returns. Such a call is a begin and an end action.
The open calls are a stack, `calls`; a frame has what the code holds in memory
(the adapter's `action`, the balances read before) and the state `before` the
call, which `Revert` puts back when the call fails, with all the calls inside
it. `MLN` burned meanwhile is noted in the frame for `LossWithinAnnounced`.

| variable | code |
|---|---|
| `accessor`, `trackedAssets`, `activeExternalPositions` | VaultProxy storage |
| `balance`, `allowance` | the tokens' records for the vault, the allowances to adapters |
| `deployedFor` | `accountToIsExternalPositionProxy` of the factory, and the vault each position was deployed for |
| `status` | a ComptrollerProxy: configured for the fund, activated, self-destructed |
| `reentranceLocked`, `permissionedVaultActionAllowed` | ComptrollerProxy storage |
| `calls` | the EVM's call stack |

| action | code |
|---|---|
| `BeginCallOnIntegration`, `EndCallOnIntegration` | `callOnExtension`, `__callOnIntegration` with `__preProcessCoI`; `__postProcessCoI` and the modifiers' ends |
| `AddTrackedAssets`, `RemoveTrackedAssets` | the IntegrationManager's actions 1 and 2 |
| `BeginCallOnExternalPosition`, `EndCallOnExternalPosition` | `__executeCallOnExternalPosition` and VaultLib's `__callOnExternalPosition`, up to the position and from it |
| `CreateExternalPosition`, `CreateAndCallExternalPosition`, `RemoveExternalPosition`, `ReactivateExternalPosition` | the ExternalPositionManager's other actions |
| `BuyBackProtocolFeeShares`, `RedeemShares` | what `FundShares` details, here by the assets they take |
| `PayOutSharesOutstanding` | the FeeManager's, detailed in `FundFees`, by the vault's own shares that it transfers or burns |
| `HandOver`, `HandOverBypassingFailure` | what `FundLifecycle` details: destruction of the accessor (unless its failure is bypassed) and activation of the next, which sweeps the vault's own shares to the owner |
| `Revert` | external: the EVM |
| `AdapterTakes`, `ProtocolTakes`, `VaultReceives`, `DeployForAnotherVault` | external: tokens, protocols, other funds |

Left out: policies and the callers' roles, which decide only whether a call
goes through (every one may, and every open one may fail); the order of the
vault's lists, and of assets tracked one by one; the FeeManager's own accounts
(`FundFees`), so that it may pay out any part of the vault's own shares; notice
periods. The first activation of a fund, which does not sweep the vault's own
shares because there are none, is in `Init`. `MaxArray` bounds the arrays asset managers pass,
`MaxBalance` what others send to the vault, `MaxBurned` the MLN burned within
one call.

### `Policies`

The PolicyManager for one fund, with `CumulativeSlippageTolerancePolicy` and its
`PricelessAssetBypassMixin` in full. A policy that keeps no record of what it
accepted can only refuse, so of the others the model has the hooks they
implement and whether they can be disabled, which is what the PolicyManager
asks of them.

| variable | code |
|---|---|
| `hookToPolicies` | `comptrollerProxyToHookToPolicies` |
| `policyInfo`, `bypassWindowStart` | `comptrollerProxyToPolicyInfo`, `comptrollerProxyToAssetToBypassWindowStart` |
| `configured`, `accessor`, `replaced` | what `FundLifecycle` details: the ComptrollerProxies that got their configuration, the one in force, its predecessors |
| `unpriced` | the assets without a valid price |
| `announced`, `accepted` | history: when bypasses were announced, what the accepted trades lost |

| action | code |
|---|---|
| `SetConfigForFund`, `EnablePolicyForFund`, `DisablePolicyForFund` | the functions of these names with `addFundSettings` of the policies they name |
| `StartAssetBypassTimelock` | the function of this name, called by the vault |
| `CallOnIntegration` | `validatePolicies` on PostCallOnIntegration, with `validateRule`, `__calcSlippage`, `__updateCumulativeSlippage` |
| `Activate`, `PricesChange`, `Tick` | a reconfiguration or migration, price feeds, time |

`accepted` counts what a trade really lost: an asset is left out of it only if
its bypass was announced in time, whatever the mixin's window says. Left out:
`updatePolicySettingsForFund`, predicates over registries and valuations, the
validation of the other hooks. One unit of any asset is worth one, which is
enough for gains, losses and prices that fail.

### `StakingWrapper`

`StakingWrapperBase` with `ConvexCurveLpStakingWrapperLib`. One action is one
transaction; the pool of Convex is external (`Accrue`, `GetRewardFor`,
`ChangeExtraRewards`): it owes the wrapper rewards, pays all of them to whoever
asks on its behalf, and changes the tokens it pays in.

| variable | code |
|---|---|
| `balanceOf`, `paused`, `rewardTokens` | the wrapper's ERC20, pause and list of reward tokens |
| `total`, `user` | `rewardTokenToTotalHarvestData`, `rewardTokenToUserToHarvestData` |
| `held`, `pending` | balances of the wrapper in the reward tokens, what the pool owes it |
| `accrued`, `paid`, `overcounted` | history: what ever accrued, what was claimed, what a claim made the next checkpoint count twice |

`Deposit`, `Withdraw` (with or without claim), `Transfer`, `ClaimRewardsFor`,
`TogglePause` and `AddExtraRewards` are the functions of these names; the two
kinds of checkpoint, `Checkpoint` and `CheckpointAndClaim`, are the code's, with
its divisions rounded down and its casts to `uint128` (`% Uint128`). Left out:
allowances, the factory, the token's names. `MaxStake`, `MaxRewards` and
`MaxIntegral` bound the instance in the guards. The specification is called
`WrapperSpec`, and its parts likewise, so that one module can prove things of
this component and of `Policies`.

### `DeploymentScripts`, `HardhatDeploy`

`DeploymentScripts` has one record for every file of
`packages/protocol/deploy/scripts`: its tags, its dependencies, the chains of
its `skip`, the deployments it must find (`get`) or may find (`getOrNull`), the
sections of the configuration it reads, and its steps in their order: a
deployment, the saved configuration, a transaction, a transaction sent only if
a contract is newly deployed. `HardhatDeploy` is the order in which the plugin
takes them, which is external and modelled by what the scripts rely on: by path,
each after the scripts with a tag it depends on, those marked `runAtTheEnd`
last, tags nobody carries ignored.

### `Deployment`

`hardhat deploy` on one of the networks of `packages/protocol/hardhat.config.ts`.

| variable | code |
|---|---|
| `network` | the chain's name and whether it is live; the in-process network is a copy of the main network and keeps nothing when it ends |
| `status`, `at`, `pc` | the process: idle, running (which script, which step), done, or why it stopped |
| `newly`, `count` | `newlyDeployed` of the results of `deploy()`, the list count a script has read |
| `records` | the deployment records, kept in files between runs |
| `called`, `derivatives`, `lists`, `bypassList`, `labels`, `typeInfo` | the chain: which calls were made, and what `ValueInterpreter`, `AddressListRegistry` (whose constructor makes list 0), the slippage policy, `ExternalPositionFactory` and `ExternalPositionManager` keep of them |
| `missed`, `torn`, `raced`, `completed`, `interrupts` | history: look-ups in vain, scripts stopped with work no later run does, a list between a count and its use, a run that reached its end, interruptions |

| action | code |
|---|---|
| `StartRun`, `Rerun` | the operator runs the command, for the first time, after a run that stopped, after one that ended |
| `SkipScript`, `EnterScript`, `FailLookup`, `EndScript` | the plugin and the head of a script: `skip`, its look-ups, a `get` that throws |
| `SaveConfig`, `DeployContract` | `saveConfig`, `deploy` with `skipIfAlreadyDeployed` |
| `SkipCall`, `Transact`, `Revert` | an awaited transaction: not due (`if (newlyDeployed)`), accepted, or refused by the contract (`Accepts`, from the `require`s of the contracts) |
| `Interrupt` | the process is killed, or the node refuses a request |
| `CreateForeignList` | anybody's `createList` on a live network |

A script looks up what it needs before its first step, as all but a few do; a
record made by another script in between could not change anything, because
scripts run one after the other. Constructor arguments are left out.

### `ContractFunctions`

`packages/ethers`: contract functions as objects with options.

| variable | code |
|---|---|
| `functions` | `ContractFunction` and its subclasses: contract, fragment, options, the cached promise (`populated`) |
| `promises` | promises of a populated transaction, each pending, resolved with its transaction, or rejected |
| `tasks` | calls of `populate`, `call`, `estimate` and `send`, as far as they have come |
| `pool`, `mined` | the node: transactions accepted, transactions in blocks |
| `rules` | the Doppelganger behind `mock()`: what to answer, by calldata or by function |
| `program`, `failures` | what user code may do; how often the network failed |

| action | code |
|---|---|
| `Create`, `Refine`, `Attach` | a property of a contract or `ContractFunction.create`; `args`, `from`, `value` and the other builders, `refine`; `attach` |
| `Start` | the synchronous part of an asynchronous method, up to its first `await` |
| `SignerAnswers`, `SignerFails` | `signer.getAddress()` in the promise's executor |
| `Continue` | a method after `await this.populate()` |
| `ProviderAnswers`, `NodeAccepts`, `NodeRefuses`, `ConnectionFails`, `Mine`, `Receive` | external: provider, node, blocks, receipts |

One action is what runs between two `await`s; the event loop may take the
continuations in any order. Options keep JavaScript's distinctions where the
code tells them apart (undefined, null, zero, a value). Left out: the proxies
that turn property accesses into function objects, the encoding of arguments
and results (an argument encodes or does not), the forwarding of mocks, the
deployment of the Doppelganger, whose code is external, the block a call asks for.

### `FundLifecycle_proofs`, `FundShares_proofs`, `FundFees_proofs`, `CallOnExtension_proofs`, `PoliciesAndWrapper_proofs`, `Deployment_proofs`, `ContractFunctions_proofs`, `Arithmetic`

The theorems, see section 5. `Arithmetic` has the lemmas they share: division
rounded down and products; induction over numbers and over finite sets, for one
set of numbers at a time (below); sums over finite sets: what one summand less
or more does to a sum, that a sum covers each of its summands, that sums are
monotone and linear. `PoliciesAndWrapper_proofs` is about two components that
have only `Arithmetic` in common.

## 4. Runs

| run | instance | shows |
|---|---|---|
| `lifecycle` | 1 fund, 2 releases, 2 accounts, 3 ComptrollerProxies, timelocks 0 and 1, 2 instants, one future `setLastPaid` | `AccessorInForce`, `RequestsAreExecutable`, `PredecessorsDestroyed`, `NoSecondChargedTwice`, `OwnerCanCallOff`; `AccessorHandoverSpec`, the refinement |
| `shares` | 2 investors, one of them an authorized caller, timelock 1, 2 instants, a quarter of the supply as fee, up to 4 shares sold, MLN and positions that may lack a price | `NoEarlyExit`, `SharePriceNeverFalls`, `SupplyChangesPayTheFee`, `RedeemableInKind` |
| `marks` | `FundFees`: management before performance fee, 1 investor, 2 instants, up to 6 shares, values up to 9 | `ProfitChargedOnce`, `HighWaterMarkHolds`; `TypeOK`, which says that no flag outlasts a transaction |
| `outstanding` | every other fee at once, a third party's that mints, burns or reverts, exit fees of a half each, a performance fee of all profit | `SharesOutstandingBacked`, `RedeemableDespiteFees` |
| `trades` | `CallOnExtension`: 2 priced assets and the fund's shares, 1 adapter, 7 kinds of trade, balances up to 2, 2 ComptrollerProxies with different denomination assets, limit 2 | `NoApprovalOutlivesItsCall`, `DenominationTracked`, `NoCallOutlivesItsComptroller`, `LossWithinAnnounced`, `GainIsNet`, `ReceivedIsTracked` |
| `positions` | 2 positions, 4 actions of positions and 2 trades that name the fund's shares, limit 3 | `MutexesMatchCalls`, `OnlyOwnPositions`, `WithinPositionsLimit`, `OwnSharesStay` |
| `policies` | 2 ComptrollerProxies in turn, 3 policies, one asset whose price may fail, trades that lose a third or two thirds, a tolerance of a half in three instants, bypass timelock and limit 1, 4 instants | `LossesWithinTolerance`, `TermsStay` |
| `rewards` | `StakingWrapper`: 2 accounts, up to 2 stakes, 2 tokens of which one may come and go, up to 2 rewards of each, precision 3 | `CoveredButForOvercount`, `RewardsFollowStakes` |
| `held` | the same with precision 2 | a violation: see findings |
| `deployment` | `Deployment`: all 100 scripts on the live main network, its in-process copy, Polygon, and a chain without configuration; 1 interruption, 1 list of others | `LookupsSettled`, `FollowUpsDone`, `ConfiguredWhenDone`, `BypassListIsOurs`, `TypesMatchLabels`, `RerunChangesNothing`, `CleanInterruptionsHeal` |
| `interrupted` | the main network, 1 interruption | a violation: see findings |
| `calls` | `ContractFunctions`: four programs (below), 1 failure of the network | `SentAsBuilt`, `ReceiptsAreOwn`, `AwaitedStubsAnswer`, `EveryCallSettles` |

Symmetry is used where no definition orders or names a member and no liveness
is checked: releases, ComptrollerProxies and accounts in `lifecycle`, positions
in `positions`, ComptrollerProxies in `policies`, accounts in `rewards` and
`held`.

Why the bounds are enough:

*Lifecycle.* The state of different funds is disjoint except for the
governance's settings, so one fund meets every hazard. Two releases let it leave
and come back; two accounts let owner and migrator differ and change; two
timelocks let a request be older than the timelock in force. Three
ComptrollerProxies are the one of the fund's creation and two more, for a
migration there and back, or for a reconfiguration request that is left behind.
For a returned fund to meet the request it left behind takes a fourth: that
instance (216,200 states) was run by hand and holds, and the theorems about
the properties of this run have any number. `MaxTime`
bounds `now`; nothing else grows.

*Shares.* The bounds are small numbers that make every division round:
`SharesUnit` 2 and prices that do not divide it. A fee of a quarter mints a
share as soon as four exist; assets of 16 and MLN of 4 make the fee shares worth
a whole MLN, so buy-backs happen, alone, automatically, and before a redemption
that is still paid from the old valuation, in the one asset or in MLN (without
`BurnedButCounted` the run finds that price drop). Two instants hold a purchase and an exit, and a purchase
and a request, at the same time and one instant later. `FeePayable` never fails
within the bounds: with the real fee rates that takes decades without any share
action.

*Fees.* In `marks`, half of the net shares per instant makes the management fee
mint from two shares on; three quarters of a profit from 4 to 8 make the
performance fee mint, and a protocol fee of two shares in the same purchase
brings the price below the old mark (see below). `MaxSupply` bounds what any
transaction leaves, `MaxGav` what purchases add up to. `outstanding` needs one
instant only: none of its fees looks at the time. Its performance fee reverts
when the mark is zero, its third party's at will, and its exit fees take the
whole quantity.

*Extensions.* In `trades` and `positions`, the second ComptrollerProxy is
activated while a call of the first is open, if the failure to destroy the first
is bypassed, so calls nest. More ComptrollerProxies would add depth, not a new
way to nest; the proofs have any number. The trades cover each way to hand
assets over, an asset that is both spent and received, an asset named twice
(refused), and no assets at all; two units of an asset tell a maximum of one
from what is there. The limits are reached by the assets of one trade, and by an
asset with both positions or both assets with one position: beyond it a handover
to a ComptrollerProxy with another denomination asset reverts, too.

*Policies.* Four instants hold an announcement, its window, its end, and a
second window; slippages of a third and two thirds, and a tolerance restored by a
third of it per instant, in units of a quarter, are all rounded, and one trade or
two use the tolerance up. The third policy is of a third party, on two hooks of
which one restricts investors. The second ComptrollerProxy starts with its own
record while the first one's bypasses are still announced.

*Rewards.* Rewards of 2 per token are enough for a claim that leaves something for
another account. With two stakes and a precision of 3, what it leaves makes the
division by the supply round when it is counted again, and a stake's share of an
integral makes the division by the precision round.
`Uint128` is 2^16 here and never wraps: it takes rewards of 2^128 / 10^18 units
per unit of stake, which only a dust supply makes thinkable.

*Deployment.* Nothing of the scripts is reduced. The state between two
interruptions is a function of the position reached, so one interruption visits
every place there is; a second one would combine two such places. The list of
others may come anywhere, also between the count and the deployer's own list.

*Calls.* `Building` makes three function objects and two calls with every order
of the builder methods; `Connecting` has contracts with and without signer and
provider, arguments that do not encode and a sender named by user code; two
programs of `Mocking` make three calls concurrently, two of which tell a mock
what to answer, for all calldata or for one, or take that back.

Deadlock checking is on for the contracts (the governance can always set a
timelock or the current FundDeployer; the owner can always switch automatic
buy-backs; markets can always move; a pause can always be toggled). It is off
for `deployment` and `interrupted`, since a completed in-process deployment is
over, and for `calls`, since user code that has made its calls is.

Fairness. The contracts have none: nothing in the code obliges anybody to send
a transaction, so no liveness would be justified. That the owner can always call
off what is pending is stated instead by the guards of the cancellations, whether
the hook succeeds or fails (`OwnerCanCallOff`), and so is that investors can
always leave, by `CanRedeem` (`RedeemableInKind`; `RedeemableDespiteFees` says it
by the outcome of the redemption). The actions take the same guards, so such a
transaction would not revert. `Deployment.FairSpec` has weak fairness of
`RunnerStep`, because a script is a sequence of awaited steps that nothing but
an interruption holds up, and of `StartRun`, because whoever deploys runs the
command again until it ends; both are needed for `CleanInterruptionsHeal`.
Interruptions and the lists of others are never obliged to happen.
`ContractFunctions` has weak fairness of `Step`: JavaScript's event loop runs
what can run, and signer, provider, node and blocks answer in the end or, in
`ConnectionFails` and `SignerFails`, say that they do not.

### Findings

`interrupted`: the comments at
`packages/protocol/deploy/scripts/release/core/ComptrollerLib.ts:49`,
`VaultLib.ts:51`, `../infrastructure/GasRelayPaymasterLib.ts:26` and
`ProtocolFeeReserve.ts:33` say that a library is initialised with dummy data so
that nobody else can call `init()`. The call is tied to `newlyDeployed`, so a
process that stops after the plugin recorded the deployment and before `init()`
is mined leaves a library that no later run initialises, while those runs go on
to the end. `FollowUpsDone` states how far this goes (such a call is lost only
if a run stopped inside that very script), and `ConfiguredWhenDone` and
`CleanInterruptionsHeal` that nothing else is.

`held`: a claim adds what arrived since the last checkpoint to the integral
(`StakingWrapperBase.sol:372-382`) but never raises the checkpointed balance
(`:405-408` only lower it), unlike `__updateHarvest` (`:332`). What the claim
leaves in the wrapper is counted again by the next checkpoint: an account is
owed more than is held, and its claim reverts or takes what others earned. A
claim for an account without a stake is enough. `CoveredButForOvercount` states
how much is counted twice, and that nothing else is; the theorem
`ShortOnlyByOvercount` says what this means for a claim: what the wrapper lacks
is at most what was counted twice. `RewardsFollowStakes`, too, is about the
contract's integral: an account that gains by such a growth gains what nobody
sent, and `overcounted` has its amount.

### Also worth knowing

Where comments and code part, without harm to the properties above:

- `ProtocolFeeTracker.sol:58` says the FundDeployer initializes a vault's clock
  only once. A fund that returns to a release it was on has it initialized
  again. Without this it would be charged twice (`NoSecondChargedTwice` has
  exactly that mutant), so the code is right; the side effect is that a fee
  suspended there (`setLastPaidForVault` with a future time) is no longer.
- `ComptrollerLib.sol:891` says that `redeemSharesInKind` never fails without a
  way around the failure, the timelock apart. It catches a failing `calcGav`,
  but with automatic buy-backs the value of the fee shares is converted into MLN
  (`:323`) outside the `try` that covers the buy-back itself, so without a price
  for MLN the redemption reverts, even when the vault holds none and can be
  valued. The owner can switch automatic buy-backs off; the redeemer cannot.
  `RedeemableInKind` states the exact condition.
- `ComptrollerLib.sol:922` says that all functions of the ComptrollerProxy that
  users can call share the non-reentrant modifier. `buyBackProtocolFeeShares`,
  `vaultCallOnContract` and `setAutoProtocolFeeSharesBuyback` do not take it.
  Only asset managers or the owner can call them, so a redeemer's asset still
  cannot; but MLN may be burned while a trade is open, and counts as spent by it
  in what policies see. `LossWithinAnnounced` has that amount apart.
- `redeemSharesForSpecificAssets` (and `__buyShares`) value the fund before the
  automatic buy-back and use that value after it. A redeemer is then paid a part
  of MLN that was just burned, and the price of the other shares falls by no
  more than that. `SharePriceNeverFalls` names this amount, `BurnedButCounted`.
- A purchase settles the performance fee, then pays the protocol fee, and only
  then resets the mark to the price: when it charges the performance fee, the
  new mark includes the protocol fee's dilution and may lie below the old one.
  `HighWaterMarkHolds` states this bound, and that nothing else but new fees
  lowers the mark. Redemptions and settlements reset it before the protocol fee
  is paid.

Of the deployment: scripts depend on tags that nobody carries
(`AddressRegistryList` in `CumulativeSlippageTolerancePolicy.ts:56`,
`PostDeployment` in `PublishRelease.ts`, `AlphaHomoraV1PriceFeed` and
`SynthetixPriceFeed` in `ValueInterpreter.ts`), and `MapleLiquidityPositionParser.ts:23`
carries a misspelt one; the order of the paths makes up for it
(`LookupsSettled`). A run after a complete one fails at `registerVaultCalls` and
changes nothing (`RerunChangesNothing`). No script saves a configuration for the
chain of `deploy:testnet` (`packages/protocol/package.json:47`), so that command
ends at the first script that loads one.

Of the contract functions: a nonce, gas limit, gas price or value of zero is
dropped (`function.ts:291-297`), and so is a value given to a constructor;
`from(null)` means the signer once the object is refined; a rejected promise is
cached like any other, so every later call on that object fails unless it is
refreshed. `SentAsBuilt` states the first three.

## 5. Proofs

`FundLifecycle_proofs` proves, for every finite or infinite set of releases,
funds, ComptrollerProxies and accounts and every set of timelocks, from the
named assumptions on the constants only:

- `ControlCorrect`: `Spec => []ControlInvariant`, and its corollaries
  `TypeCorrect`, `FundNeverBricked` (`AccessorInForce`),
  `RequestsStayExecutable` and `MigrationRequestsStayConsistent`. The three
  safety properties are not inductive one by one: cancelling a request destroys
  its ComptrollerProxy without asking whether it is in force, so
  `AccessorInForce` needs `RequestsAreExecutable`; executing one request
  activates its ComptrollerProxy, so `RequestsAreExecutable` needs that no two
  requests name the same one (`RequestsWellFormed`). One lemma per action, one
  step per conjunct.
- `FeesNeverChargedTwice`: `Spec => []NoSecondChargedTwice`, with the
  strengthening that nobody is charged beyond the present, from
  `ControlInvariant`.
- `PredecessorsAreDestroyed`: `Spec => []PredecessorsDestroyed`, with the
  strengthening that what escaped destruction stays activated for ever, and from
  `ControlInvariant`: what is activated was never activated before, and what is
  in force was activated for one fund only.
- `OwnerCanAlwaysCallOff` (`OwnerCanCallOff`), from `ControlInvariant`: that
  every pending request's ComptrollerProxy still answers the release that holds
  the request (`RequestsAreExecutable`), also after the fund has left it, and
  that the Dispatcher's request names a release exactly when one is pending
  (`MigrationRequestsConsistent`). So neither the destruction in the hook nor the
  one in `cancelReconfiguration` can be what reverts, and a hook that fails for
  another reason is bypassed.
- `LifecycleImplementsHandover`: `Spec => AccessorHandoverSpec`. Every request
  made is an `Announce`, every one cancelled a `Withdraw`, every one executed a
  `HandOver`, a new fund a `Found`, and all else a stutter, a `Tick` or a
  `Govern` (`RefineStep`, one lemma per action). The announcements of a fund are
  a set made of its requests on the Dispatcher and on every release; that one
  cancelled takes exactly one element away needs that no two requests name the
  same ComptrollerProxy, a part of `ControlInvariant`.

`FundShares_proofs` proves, for every set of investors and all amounts, units,
prices, fee rates and timelocks:

- `SharesTypeCorrect`: `Spec => []TypeOK`. That balances are natural numbers is
  the claim that nothing underflows: what is burned was held (the guards of
  `sub`), and what is paid out was there, after the buy-back took its MLN
  (`SliceFacts`, `SpecificFacts`, `InKindFacts`).
- `SharePriceCorrect`: `Spec => SharePriceNeverFalls`. A price `p` is a floor,
  the largest with `supply * p <= gav * SharesUnit` (`PriceFacts`,
  `PriceLargest`). Each part of a transaction keeps this inequality for the
  price of before: the buy-back takes at most what its shares are worth
  (`CollectedPrice`), a purchase issues at most what it pays for (`BuyPrice`), a
  payout takes at most the redeemer's part of the value (`SpecificPrice`,
  `InKindPrice`). So the price of after is at least as large. No induction is
  needed beyond `TypeOK`.
- `TimelockCorrect` and `FeeClockCorrect` (`NoEarlyExit`,
  `SupplyChangesPayTheFee`) need an invariant, `ClocksInv` (`ClocksCorrect`):
  nothing is dated in the future, and under a timelock nobody bought after the
  pending request was made.
- `AlwaysRedeemableInKind` (`RedeemableInKind`). That the redeemer's balance may
  be burned needs that it is at most the supply, also after the fee was minted
  and the fee shares bought back. `Backed` says that balances add up to the
  supply and is kept by minting, burning and moving shares
  (`BackedAlways`). That the fee can be paid needs `FeeHorizon`:
  `FeeBps * MaxTime <= MaxBps * SecondsInYear`, time does not run so long that
  the fee of one payment would be the whole fund or more. At the real rates
  that is decades without any payment, and past it `payProtocolFee` would indeed
  fail; the instance of `shares` meets it.

`FundFees_proofs` proves, for every list of fees without repetition, official
ones and a third party's, any rates, units, amounts, times and accounts:

- `FeesTypeCorrect` (`TypeOK`) and `OutstandingSharesAreBacked`
  (`SharesOutstandingBacked`), from the inductive invariant `FeesInv`: types,
  the clock of the management fee not ahead, shares outstanding backed, and that
  balances add up to the supply. The last is what the others need: a balance
  that may be moved or burned is at most the supply. A settlement is a recursion
  over the list of fees, so what holds after the first `n` of them is shown by
  induction on `n` (`SettledInTurn`).
- `AlwaysRedeemableInKind` (`RedeemableDespiteFees`), from `FeesInv`: the `try`
  gives back the state of before, the exit fee takes less than what is redeemed
  because its rate is below 100%, and shares are burned that their holder has.
- `PerformanceFeeKeepsMark` and `PerformanceFeeWorthItsDue`: after its shares
  are minted the price, rounded down, is at least the mark above which the
  performance fee was charged, and these shares are worth no more than the
  rate's part of the profit. The value due is rounded down to `raw` with
  `mark * supply <= (value - raw) * SharesUnit` (`RawValueFacts`), and the
  shares due to `due` with `(value - raw) * due <= raw * supply`
  (`SharesDueFacts`); both follow by multiplying these.
- `ProfitIsChargedOnce` (`ProfitChargedOnce`) and `HighWaterMarkNeverLost`
  (`HighWaterMarkHolds`), of a fund with the order of fees that the code
  recommends, `MarkedLast(p)`: the `p`-th fee is the performance fee and no fee
  that mints or burns for its own account comes after it. Without it both are
  false, for such a fee changes the price after the mark is taken. The second
  also needs that there is no third party's fee: one that mints shares dilutes
  the price by more than the protocol fee's shares, which is all the bound counts.
  The instance of `marks` meets both hypotheses. The proofs follow the mark
  through a settlement: up to the `p`-th fee it is the old one, then it is
  flagged, and the update sets it to a price that the later fees cannot lower.

The constants' assumptions are what `addFundSettings` of the fees demands (rates
of entrance and exit fees below 100%), that units are not zero and the flag,
2^256 - 1, is no price, that investors are finitely many, and that the vault and
the fee reserve hold and lock no shares as investors do.

`CallOnExtension_proofs` proves, for any assets, positions, adapters and
ComptrollerProxies, any actions of adapters and positions, and calls nested to
any depth: `MutexesAlwaysMatch` (`MutexesMatchCalls`), `NoCallIsOrphaned`
(`NoCallOutlivesItsComptroller`), `ApprovalsEndWithCalls`
(`NoApprovalOutlivesItsCall`), `PositionsAreOwn` (`OnlyOwnPositions`),
`DenominationStaysTracked` (`DenominationTracked`), `LimitHolds`
(`WithinPositionsLimit`), `OwnSharesAlwaysStay` (`OwnSharesStay`), `GainsAreNet`
(`GainIsNet`), `ReceiptsAreTracked` (`ReceivedIsTracked`) and `LossesAreAnnounced`
(`LossWithinAnnounced`). A failing call restores a saved state, so nothing is
inductive that does not hold of every saved state too. There, only the calls
below the failing one are open: each invariant is stated of a state and a number
of open calls, and holds of the present with all of them and of the state the
`i`-th call saved with `i - 1`. `ControlCorrect` is this for the mutexes: a call
is entered only with its mutexes free, so no two open calls are of one
ComptrollerProxy, and destruction needs the mutex, so it never meets an open
call. The approvals rest on it: an approval is made by the call on top, which
cannot end without the vault's obedience while one is left.

`OwnSharesStay` compares the fund's own shares in the vault with those that an open
call of the accessor began with. It needs the approvals (an adapter takes only
what is approved), that fees are never bought back with the fund's own shares,
which is the assumption that MLN is another token, and that the two ways they do
leave meet no open call of the accessor: payouts of fees wait for its mutex, and
a handover, which sweeps them to the owner, changes the accessor to one that has
no call open. A call of the one before may lose them by it, and makes no claim any
more. `VaultInv` has all this of the present and of every saved state, with the
balances that each call began with, from which `GainIsNet` follows. `LossInv` says what a call may still cost while it is open:
balance, announced amount and burned MLN are at least the balance of before and
what the adapter is still approved for, unless the asset moves freely, when the
check at the end is what counts (`CheckedLater`). It holds while the call's
ComptrollerProxy is the accessor, for then no other call is open.

`PoliciesAndWrapper_proofs` proves, for every set of policies, adapters, trades and
ComptrollerProxies:

- `TermsAlwaysStay` (`TermsStay`), from `HooksType` (what is on a hook is a
  policy that can be given). An owner's policy lands on all its hooks at once
  (`WithPoliciesIs`), so it is enough that one hook that restricts investors
  keeps it out.
- `LossesAlwaysWithinTolerance` (`LossesWithinTolerance`), for every length of
  time, tolerance and period. The invariant `SlippageInv` relates the two fields
  of the policy's record to the whole history of losses (`Bounded`): nothing was
  lost after the recorded time, and over every stretch that ends there the
  losses are at most what is recorded and what the stretch restored, both taken
  times the period because the code divides by it and rounds what is restored
  down. A new trade adds its loss to the last instant, and the two ends of each
  stretch say which case it is (`BoundedStep`). It needs that an open bypass
  window was announced in time (`WindowsAnnounced`), that a record of losses
  exists only where the policy is enabled, which it stays, since it cannot be
  disabled, and that time begins after the length of a window (`GenesisAssumption`:
  `block.timestamp` is not near 0), or else the window of an asset never
  announced would be open.

and, for every finite set of accounts, any tokens, stakes, rewards and
precision:

- `RewardsCoveredButForOvercount` (`CoveredButForOvercount`). What accounts may
  claim is a sum of parts that were each rounded down, at different times, and no
  inequality between such sums is inductive. What is due to an account before
  any division, in units of one part in `IntegralPrecision` (`DueTo`), is exact:
  a checkpoint only moves it from the integral's difference to the claimable
  reward, less what that rounds off; when the integral grows it grows by the
  stake times the growth, for all accounts together by the supply times the
  growth (`DuesAdvance`), which is at most what came in since the last checkpoint,
  because the growth was rounded down (`IntegralFacts`); and when a stake changes,
  its account has just been checkpointed, so it has nothing due by its stake
  (`TokenRestaked`). `Covered` says that the dues of all are at most the
  checkpointed balance plus `overcounted`, in the same units, and that this
  balance is still there. `RewardInv` adds, of every token, that what is held and
  owed by the pool never exceeds what accrued, and that the integral of a token
  not on the list is zero. Operations do not checkpoint such a token, so stakes
  change without it; nothing is due by a stake at an integral of zero.
- `RewardsFollow` (`RewardsFollowStakes`): every operation credits every account,
  with what it holds or with what it was paid, exactly what it had earned at the
  new integral and its old stake (`AllCredited`). An account that is not
  checkpointed keeps stake and data, one that is has nothing left by its stake. The
  difference to what the old integral gave is then one of two floors, within one
  unit of the exact value (`EarnedGain`). That the integral grows by no more than
  was counted is the division by the supply, rounded down (`GrowthFacts`, from
  `IntegralFacts`); what every operation counts is the balance above the
  checkpointed one, and what a claim leaves there is put down in `overcounted`
  (`CheckpointCounts`, `ClaimCounts`, `StepCounts`).
- `ShortOnlyByOvercount`: `Spec => []ShortByOvercount`, an account's earnings are
  at most what is held plus what was overcounted, since a sum covers each of its
  summands.

These three assume `CastsFit`: integrals, rewards and what the whole supply
could earn, up to the bounds of the guards, are below 2^128 once divided by the
precision, so that no cast to `uint128` loses anything. The code does not
guarantee it; it would take 2^128 units of a reward, or rewards of 2^128 / 10^18
units per unit of stake. The instance of `rewards` meets it.

`Deployment_proofs` proves, for any scripts that keep to two assumptions, in any
order, on any networks, however often the process stops and whatever lists
others make. TLC evaluates both assumptions on the repository's own 100 scripts
in every run of `MCDeployment`; a script that is added, moved or loses a
dependency so that one of them fails stops the run there.

- `ScriptsAssumption`: a call tied to a deployment comes later in the script
  that deploys, and no other script deploys that contract.
- `OrderAssumption`, a statement about the list of scripts alone, without a
  process, for each network: whatever a script looks up is recorded by an earlier
  one or by none (`LooksUpInTime`, `NamesInTime`); what would be added a second
  time comes after a call that reverts a second time (`RepeatsNothing`); and all
  that a release needs is called by some script (`Complete`).

What the theorems add to it is the process: interruptions between any two
steps, reruns from the records left behind, calls that are not made again.

- `FollowUpsNeverForgotten` (`FollowUpsDone`), from the first assumption only.
  Its invariant, `FollowUpsInvariant`, adds that between two scripts nothing is
  newly deployed: so what is newly deployed was deployed by the script being
  run, whose calls are ahead of it.
- The others rest on `BaseInvariant`: a step that the process is past, or that a
  skipped script has taken in an earlier run, has left its record or its call
  (`ProgressInvariant`), and nothing is recorded that no script of the network
  records (`PlaceInvariant`). `LookupsAlwaysSettled` (`LookupsSettled`) and
  `TypesAlwaysMatchLabels` (`TypesMatchLabels`) follow with an invariant each.
- `BypassListAlwaysOurs` (`BypassListIsOurs`): `BypassInvariant` follows the count
  from the step that reads it to the one that makes the list and the one that
  deploys the policy with it.
- `CompletedIsConfigured` (`ConfiguredWhenDone`): a complete run has recorded all
  (`AllIsRecorded`), so every call that is tied to nothing was made and, if no
  run was torn, every call that is tied to a deployment; `ListsInvariant` and
  `FeedsInvariant` say what the calls left on the chain.
- `RerunNeverChanges` (`RerunChangesNothing`): `RerunInvariant` says that a run
  after a complete one never gets past a call that reverts when repeated, before
  which there is nothing left to add.

`ContractFunctions_proofs` proves, for any programs, however many calls run
concurrently and however often the network fails:

- `ReceiptsAlwaysOwn` (`ReceiptsAreOwn`). Its invariant, `Receipts`, has what
  tasks are made of (`Typed`), that pool and blocks together hold at most one
  transaction of each task, which the node has accepted (`Ledger`), and what the
  state of a task says of its transaction (`Outcome`); a transaction that moves
  from the pool into a block needs the second to keep the third.
- `AlwaysSentAsBuilt` (`SentAsBuilt`). The property follows the chain of builder
  calls back from the object, a recursion over objects of which more are made all
  the time. `FunctionsBuilt` says that the options an object holds are what its
  chain named last; the chain of an old object stays what it is (`ChainStays`,
  by induction on the number of the object), and a new one's is one link longer.
  `PromisesOwn` says that a cached promise belongs to the object that holds it,
  and so does the promise a task waits for, so a transaction is never another
  object's.
- `AwaitedStubsAlwaysAnswer` (`AwaitedStubsAnswer`). `AnswersInv` has that the
  rules a mock answers by are those of the transactions in blocks, of which the
  last one for a key counts, and for each answer the number of blocks it was
  given at: later blocks do not change what had been told by then.

`ProgramsAssumption` says that user code starts from objects that
`ContractFunction.create` makes, and never names the sender zero, which is not
an address: `from: 0` is falsy and would silently mean the signer.

*Induction.* The induction theorems of the library take an operator and cannot
be used. `Arithmetic` proves what is needed instead for sets: a non-empty set of
numbers has a least element (`LeastElement`, since `<` is well-founded),
hence a set with 0 and all successors has every
number (`Induction`, `InductionUpTo`), hence a collection of sets with the empty
one and every extension by one element has all finite sets (`SetInduction`). What a recursive
function of a module computes is then shown by putting the numbers for which the
claim holds into a set.

The assumptions on the constants are the named `ASSUME`s of each module, which
TLC evaluates in every run: investors and a wrapper's accounts are finitely many
(their balances are summed), bounds and rates are numbers, units and precisions
are not zero.

Proved, though no run checks them because they say little on their own: `TypeOK`
of `FundLifecycle` and of `FundShares`, and `MigrationRequestsConsistent`. No run
checks `ShortByOvercount` either, which `CoveredButForOvercount` implies.

Only model-checked is liveness, `CleanInterruptionsHeal` and `EveryCallSettles`:
every other property of the passing runs is a theorem above.

## 6. Not modelled

- The list registries, the gas relay paymaster, the shares splitter and the
  arbitrary loan: planned, see section 2.
- Adapters, parsers, peripheral wrappers, the global configuration and off-chain
  views: translations of a call into others, and views; they keep no state.
- External positions other than their proxies' bookkeeping, price feeds' rates:
  their state is that of third-party protocols, which would have to be modelled.
- The manual value oracle: one value set by one account.
- `packages/protocol`'s code generator, compile task and utilities: pure
  functions without state.
- Tests and mocks were read for what they say of the code.

What is left out of a component that is modelled in part is in the note of the
component in `PROJECT.json`, and in section 3.
