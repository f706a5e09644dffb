--------------------------- MODULE CallOnExtension ---------------------------
(***************************************************************************)
(* What asset managers do with a fund's portfolio: ComptrollerLib's        *)
(* callOnExtension and its two mutexes, the IntegrationManager, the        *)
(* ExternalPositionManager, the ExternalPositionFactory's record of        *)
(* positions, and the VaultProxy's assets, approvals and positions.        *)
(*                                                                         *)
(* A trade and an action on an external position leave the protocol in the *)
(* middle: adapters, positions and the protocols behind them may call back *)
(* before they return.  Such a call is a begin and an end action, and what *)
(* happens between them are actions of their own.  The open calls form a   *)
(* stack; a failing call puts back everything that changed since it began. *)
(* A call that never leaves the protocol is one action.                    *)
(*                                                                         *)
(* Policies, the callers' roles and the existence of requests decide only  *)
(* whether a call goes through: the model lets every call go through and   *)
(* every open call fail.  The order of the vault's lists is left out.      *)
(***************************************************************************)
EXTENDS Naturals, Sequences, FiniteSets

CONSTANTS
  Assets,             \* ERC20 tokens
  SupportedAssets,    \* those the ValueInterpreter supports
  MlnToken,           \* the asset burned to buy back protocol fee shares
  VaultShares,        \* the fund's own shares, of which the vault may hold some
  Positions,          \* addresses of external positions, deployed or to be
  Adapters,           \* the integration adapters
  AdapterActions,     \* what parseAssetsForAction of an adapter may return
  PositionActions,    \* what parseAssetsForAction of a position's parser may return
  Comptrollers,       \* the ComptrollerProxies that the fund has in its life
  FirstComptroller,
  DenominationAsset,  \* of each ComptrollerProxy
  PositionsLimit,     \* VaultLib's POSITIONS_LIMIT
  Amounts,            \* the amounts that move in one step
  MaxBalance,         \* bound on what the vault holds of each asset
  MaxArray,           \* bound on the arrays that asset managers pass
  MaxBurned           \* bound on the MLN burned during one call

AmountOf == [asset : Assets, amount : Nat]

AdapterAction ==
  [spendAssetsHandleType : {"None", "Approve", "Transfer"},
   spendAssets : Seq(AmountOf), incomingAssets : Seq(AmountOf)]

PositionAction == [assetsToTransfer : Seq(AmountOf), assetsToReceive : SUBSET Assets]

ASSUME AssetsAssumption ==
  /\ IsFiniteSet(Assets) /\ SupportedAssets \subseteq Assets
  /\ MlnToken \in Assets \ {VaultShares}
ASSUME PositionsAssumption == IsFiniteSet(Positions) /\ PositionsLimit \in Nat \ {0}
ASSUME ComptrollersAssumption ==
  /\ FirstComptroller \in Comptrollers
  /\ DenominationAsset \in [Comptrollers -> SupportedAssets \ {VaultShares}]
ASSUME ActionsAssumption ==
  /\ \A a \in AdapterActions : a \in AdapterAction
  /\ \A a \in PositionActions : a \in PositionAction
ASSUME BoundsAssumption ==
  /\ Amounts \subseteq Nat /\ MaxBalance \in [Assets -> Nat] /\ MaxArray \in Nat
  /\ MaxBurned \in Nat

VARIABLES
  \* VaultProxy
  accessor,
  balance,                    \* what the vault holds, by asset
  allowance,                  \* what each adapter may take, by asset
  trackedAssets,
  activeExternalPositions,
  \* ExternalPositionFactory and the positions' own record of their vault
  deployedFor,
  \* ComptrollerProxy
  status,
  reentranceLocked,
  permissionedVaultActionAllowed,
  \* The open calls, the innermost last
  calls

mutexVars == <<reentranceLocked, permissionedVaultActionAllowed, calls>>
vars == <<accessor, balance, allowance, trackedAssets, activeExternalPositions, deployedFor,
          status, mutexVars>>

-----------------------------------------------------------------------------
\* Calls and what they put back when they fail

\* All the state that a failing call restores.
State ==
  [accessor |-> accessor, balance |-> balance, allowance |-> allowance,
   trackedAssets |-> trackedAssets, activeExternalPositions |-> activeExternalPositions,
   deployedFor |-> deployedFor, status |-> status, reentranceLocked |-> reentranceLocked,
   permissionedVaultActionAllowed |-> permissionedVaultActionAllowed]

Top == calls[Len(calls)]

IsOpen(kind) == calls # <<>> /\ Top.kind = kind

\* The modifiers locksReentrance and allowsPermissionedVaultAction: what they
\* require and set on the way in, and reset on the way out.
MayEnter(c) == ~reentranceLocked[c] /\ ~permissionedVaultActionAllowed[c]

Enter(call) ==
  /\ reentranceLocked' = [reentranceLocked EXCEPT ![call.comptroller] = TRUE]
  /\ permissionedVaultActionAllowed' =
       [permissionedVaultActionAllowed EXCEPT ![call.comptroller] = TRUE]
  /\ calls' = Append(calls, call)

\* Mutant: the permission is not withdrawn.
LeaveAllowed ==
  /\ reentranceLocked' = [reentranceLocked EXCEPT ![Top.comptroller] = FALSE]
  /\ UNCHANGED permissionedVaultActionAllowed
  /\ calls' = SubSeq(calls, 1, Len(calls) - 1)

Leave ==
  /\ reentranceLocked' = [reentranceLocked EXCEPT ![Top.comptroller] = FALSE]
  /\ permissionedVaultActionAllowed' =
       [permissionedVaultActionAllowed EXCEPT ![Top.comptroller] = FALSE]
  /\ calls' = SubSeq(calls, 1, Len(calls) - 1)

\* The vault obeys one ComptrollerProxy.
OnlyAccessor(c) == c = accessor

\* A ComptrollerProxy for whose calls on extensions the vault does something.
AcceptsCall(c) == status[c] # "destroyed" /\ MayEnter(c) /\ OnlyAccessor(c)

-----------------------------------------------------------------------------
\* Vault actions

AssetsOf(list) == {list[i].asset : i \in DOMAIN list}

\* Mutant: duplicates are let through.
IsAnyList(list) == TRUE

IsUniqueSet(list) ==
  \A i, j \in DOMAIN list : i # j => list[i].asset # list[j].asset

\* How much of an asset a list names, all its entries together.
TotalOf(list, a) ==
  LET sum[i \in 0..Len(list)] ==
        IF i = 0 THEN 0
        ELSE sum[i - 1] + (IF list[i].asset = a THEN list[i].amount ELSE 0)
  IN sum[Len(list)]

\* The entry of an asset that counts when each replaces the one before it.
LastOf(list, a) ==
  LET last == CHOOSE i \in DOMAIN list :
                /\ list[i].asset = a
                /\ \A j \in DOMAIN list : list[j].asset = a => j <= i
  IN list[last].amount

\* Mutant: shares not excluded.
CanWithdrawShares(list) == \A a \in AssetsOf(list) : TotalOf(list, a) <= balance[a]

CanWithdraw(list) ==
  /\ VaultShares \notin AssetsOf(list)
  /\ \A a \in AssetsOf(list) : TotalOf(list, a) <= balance[a]

Withdrawn(list) ==
  [a \in Assets |-> IF a \in AssetsOf(list) THEN balance[a] - TotalOf(list, a) ELSE balance[a]]

WithinLimit(assets, positions) == Cardinality(assets) + Cardinality(positions) <= PositionsLimit

\* Tracking assets one after the other; only a new one counts against the limit.
CanTrack(assets, positions) ==
  /\ VaultShares \notin assets
  /\ \/ assets \subseteq trackedAssets
     \/ WithinLimit(trackedAssets \cup assets, positions)

\* Mutant: the limit counts the positions alone.
CanActivateCountingPositions(position) ==
  \/ position \in activeExternalPositions
  \/ Cardinality(activeExternalPositions \cup {position}) <= PositionsLimit

CanActivate(position) ==
  \/ position \in activeExternalPositions
  \/ WithinLimit(trackedAssets, activeExternalPositions \cup {position})

-----------------------------------------------------------------------------
\* IntegrationManager

Approves(action) == action.spendAssetsHandleType = "Approve"

ApprovedFor(adapter, action) ==
  [allowance EXCEPT ![adapter] =
     [a \in Assets |-> IF a \in AssetsOf(action.spendAssets)
                       THEN LastOf(action.spendAssets, a) ELSE @[a]]]

\* The arrays that parseAssetsForAction returned are acceptable.
ValidAssetsForAction(action) ==
  /\ IsUniqueSet(action.spendAssets)
  /\ IsUniqueSet(action.incomingAssets)
  /\ AssetsOf(action.incomingAssets) \subseteq SupportedAssets

\* Mutant: they are read once the spend assets have moved.
BalancesAfterTransfer(action) ==
  IF action.spendAssetsHandleType = "Transfer" THEN Withdrawn(action.spendAssets) ELSE balance

\* The balances that incoming amounts are measured against are read before
\* any spend asset has moved.
PreCallIncomingBalances(action) == balance

\* How the adapter gets at the spend assets: by approval, by transfer, or not
\* through the vault at all.
HandSpendAssets(adapter, action) ==
  \/ /\ Approves(action)
     /\ VaultShares \notin AssetsOf(action.spendAssets)
     /\ allowance' = ApprovedFor(adapter, action)
     /\ UNCHANGED balance
  \/ /\ action.spendAssetsHandleType = "Transfer"
     /\ CanWithdraw(action.spendAssets)
     /\ balance' = Withdrawn(action.spendAssets)
     /\ UNCHANGED allowance
  \/ /\ action.spendAssetsHandleType = "None"
     /\ UNCHANGED <<balance, allowance>>

\* callOnExtension, receiveCallFromComptroller and __callOnIntegration up to
\* the call of the adapter.
BeginCallOnIntegration(c, adapter, action) ==
  /\ AcceptsCall(c)
  /\ ValidAssetsForAction(action)
  /\ HandSpendAssets(adapter, action)
  /\ Enter([kind |-> "integration", comptroller |-> c, adapter |-> adapter,
            action |-> action, before |-> State, burned |-> 0,
            preCallIncoming |-> PreCallIncomingBalances(action)])
  /\ UNCHANGED <<accessor, trackedAssets, activeExternalPositions, deployedFor, status>>

\* What __postProcessCoI reports to the policies.
IncomingAmount(call, a) == balance[a] - call.preCallIncoming[a]
SpendAmount(call, a) ==
  IF balance[a] < call.before.balance[a] THEN call.before.balance[a] - balance[a] ELSE 0

ReceivedEnough(call) ==
  \A i \in DOMAIN call.action.incomingAssets :
    LET in == call.action.incomingAssets[i] IN
    /\ balance[in.asset] >= call.preCallIncoming[in.asset]
    /\ IncomingAmount(call, in.asset) >= in.amount

\* Approvals and transfers limit the amount by themselves.
SpentAtMostMax(call) ==
  call.action.spendAssetsHandleType = "None" =>
    \A i \in DOMAIN call.action.spendAssets :
      LET out == call.action.spendAssets[i] IN SpendAmount(call, out.asset) <= out.amount

\* Mutant: they are left to the adapter.
NoApprovalsReset(call) == {}

\* The approvals that the adapter did not use up.
ApprovalsLeft(call) ==
  IF Approves(call.action)
  THEN {a \in AssetsOf(call.action.spendAssets) : allowance[call.adapter][a] > 0}
  ELSE {}

\* Mutant: an asset that the vault held before is taken for tracked.
NewAssetsToTrack(call) ==
  {a \in AssetsOf(call.action.incomingAssets) : call.preCallIncoming[a] = 0}

AssetsToTrack(call) == AssetsOf(call.action.incomingAssets)

\* The adapter has returned: __postProcessCoI, the policies, and the way out.
EndCallOnIntegration ==
  /\ IsOpen("integration")
  /\ ReceivedEnough(Top) /\ SpentAtMostMax(Top)
  /\ CanTrack(AssetsToTrack(Top), activeExternalPositions)
  /\ Top.action.incomingAssets # <<>> \/ ApprovalsLeft(Top) # {}
       => OnlyAccessor(Top.comptroller)
  /\ trackedAssets' = trackedAssets \cup AssetsToTrack(Top)
  /\ allowance' = [allowance EXCEPT ![Top.adapter] =
                     [a \in Assets |-> IF a \in ApprovalsLeft(Top) THEN 0 ELSE @[a]]]
  /\ Leave
  /\ UNCHANGED <<accessor, balance, activeExternalPositions, deployedFor, status>>

\* The arrays that asset managers pass, as sets: order and duplicates in them
\* make no difference.
Arrays == {s \in SUBSET Assets : s # {} /\ Cardinality(s) <= MaxArray}

AddTrackedAssets(c, assets) ==
  /\ AcceptsCall(c)
  /\ assets \subseteq SupportedAssets
  /\ CanTrack(assets, activeExternalPositions)
  /\ trackedAssets' = trackedAssets \cup assets
  /\ UNCHANGED <<accessor, balance, allowance, activeExternalPositions, deployedFor, status,
                 mutexVars>>

\* Mutant: no check.
MayUntrackAnything(c, assets) == TRUE

\* permissionedVaultAction's check of what may be untracked.
MayUntrack(c, assets) == DenominationAsset[c] \notin assets

RemoveTrackedAssets(c, assets) ==
  /\ AcceptsCall(c)
  /\ MayUntrack(c, assets)
  /\ trackedAssets' = trackedAssets \ assets
  /\ UNCHANGED <<accessor, balance, allowance, activeExternalPositions, deployedFor, status,
                 mutexVars>>

-----------------------------------------------------------------------------
\* ExternalPositionManager

\* The frame of a call on a position; its first part moves the assets out.
PositionCall(c, position, action) ==
  [kind |-> "position", comptroller |-> c, position |-> position, action |-> action,
   before |-> State, burned |-> 0]

BeginCallOnExternalPosition(c, position, action) ==
  /\ AcceptsCall(c)
  /\ position \in activeExternalPositions
  /\ CanWithdraw(action.assetsToTransfer)
  /\ balance' = Withdrawn(action.assetsToTransfer)
  /\ Enter(PositionCall(c, position, action))
  /\ UNCHANGED <<accessor, allowance, trackedAssets, activeExternalPositions, deployedFor,
                 status>>

\* The position has returned.  The vault is still inside its own function, and
\* does not ask again who its accessor is.
EndCallOnExternalPosition ==
  /\ IsOpen("position")
  /\ CanTrack(Top.action.assetsToReceive, activeExternalPositions)
  /\ trackedAssets' = trackedAssets \cup Top.action.assetsToReceive
  /\ Leave
  /\ UNCHANGED <<accessor, balance, allowance, activeExternalPositions, deployedFor, status>>

\* Deploys a position and adds it to the vault's.
CreateExternalPosition(c, position) ==
  /\ AcceptsCall(c)
  /\ deployedFor[position] = "nobody"
  /\ CanActivate(position)
  /\ deployedFor' = [deployedFor EXCEPT ![position] = "vault"]
  /\ activeExternalPositions' = activeExternalPositions \cup {position}
  /\ UNCHANGED <<accessor, balance, allowance, trackedAssets, status,
                 mutexVars>>

\* The same with a first action on the new position, in one call.
CreateAndCallExternalPosition(c, position, action) ==
  /\ AcceptsCall(c)
  /\ deployedFor[position] = "nobody"
  /\ CanActivate(position) /\ CanWithdraw(action.assetsToTransfer)
  /\ deployedFor' = [deployedFor EXCEPT ![position] = "vault"]
  /\ activeExternalPositions' = activeExternalPositions \cup {position}
  /\ balance' = Withdrawn(action.assetsToTransfer)
  /\ Enter(PositionCall(c, position, action))
  /\ UNCHANGED <<accessor, allowance, trackedAssets, status>>

RemoveExternalPosition(c, position) ==
  /\ AcceptsCall(c)
  /\ activeExternalPositions' = activeExternalPositions \ {position}
  /\ UNCHANGED <<accessor, balance, allowance, trackedAssets, deployedFor, status,
                 mutexVars>>

\* Mutant: any position that the factory deployed.
MayReactivateAny(position) == deployedFor[position] # "nobody"

\* A position that may come back to the vault: one that the factory deployed
\* for this vault.
MayReactivate(position) == deployedFor[position] = "vault"

ReactivateExternalPosition(c, position) ==
  /\ AcceptsCall(c)
  /\ MayReactivate(position) /\ CanActivate(position)
  /\ activeExternalPositions' = activeExternalPositions \cup {position}
  /\ UNCHANGED <<accessor, balance, allowance, trackedAssets, deployedFor, status,
                 mutexVars>>

\* Another fund creates a position.
DeployForAnotherVault(position) ==
  /\ deployedFor[position] = "nobody"
  /\ deployedFor' = [deployedFor EXCEPT ![position] = "another"]
  /\ UNCHANGED <<accessor, balance, allowance, trackedAssets, activeExternalPositions, status,
                 mutexVars>>

-----------------------------------------------------------------------------
\* The world outside

\* An adapter uses an approval: transferFrom at the token.
AdapterTakes(adapter, a, n) ==
  /\ 0 < n /\ n <= allowance[adapter][a] /\ n <= balance[a]
  /\ balance' = [balance EXCEPT ![a] = @ - n]
  /\ allowance' = [allowance EXCEPT ![adapter][a] = @ - n]
  /\ UNCHANGED <<accessor, trackedAssets, activeExternalPositions, deployedFor, status,
                 mutexVars>>

\* A protocol that moves the vault's asset by itself, during an action whose
\* adapter says so (SpendAssetsHandleType.None).
ProtocolTakes(a, n) ==
  /\ IsOpen("integration") /\ Top.action.spendAssetsHandleType = "None"
  /\ a \in AssetsOf(Top.action.spendAssets) \ {VaultShares}
  /\ 0 < n /\ n <= balance[a]
  /\ balance' = [balance EXCEPT ![a] = @ - n]
  /\ UNCHANGED <<accessor, allowance, trackedAssets, activeExternalPositions, deployedFor, status,
                 mutexVars>>

\* Anybody may send the vault assets, at any time: what a trade returns, a
\* claim of rewards by vaultCallOnContract, fee shares, a donation.
VaultReceives(a, n) ==
  /\ 0 < n /\ balance[a] + n <= MaxBalance[a]
  /\ balance' = [balance EXCEPT ![a] = @ + n]
  /\ UNCHANGED <<accessor, allowance, trackedAssets, activeExternalPositions, deployedFor, status,
                 mutexVars>>

-----------------------------------------------------------------------------
\* The fund's other operations that move assets or hand the vault over

\* Buying back protocol fee shares burns MLN of the vault.  It takes no mutex.
BuyBackProtocolFeeShares(n) ==
  /\ 0 < n /\ n <= balance[MlnToken]
  /\ calls # <<>> => Top.burned + n <= MaxBurned
  /\ balance' = [balance EXCEPT ![MlnToken] = @ - n]
  /\ calls' = IF calls = <<>> THEN calls ELSE [calls EXCEPT ![Len(calls)].burned = @ + n]
  /\ UNCHANGED <<accessor, allowance, trackedAssets, activeExternalPositions, deployedFor,
                 status, reentranceLocked, permissionedVaultActionAllowed>>

\* locksReentrance of the redemptions and of all else that settles fees.
MayRedeem == ~reentranceLocked[accessor]

\* A redemption pays an asset out.
RedeemShares(a, n) ==
  /\ MayRedeem
  /\ a # VaultShares /\ 0 < n /\ n <= balance[a]
  /\ balance' = [balance EXCEPT ![a] = @ - n]
  /\ UNCHANGED <<accessor, allowance, trackedAssets, activeExternalPositions, deployedFor, status,
                 mutexVars>>

\* Fees leave the vault's own shares with it as shares outstanding.  Settling
\* fees pays them out to the fees' recipient or burns them.
PayOutSharesOutstanding(n) ==
  /\ VaultShares \in Assets
  /\ MayRedeem
  /\ 0 < n /\ n <= balance[VaultShares]
  /\ balance' = [balance EXCEPT ![VaultShares] = @ - n]
  /\ UNCHANGED <<accessor, allowance, trackedAssets, activeExternalPositions, deployedFor, status,
                 mutexVars>>

\* Mutant: it does not.
MayDestructAnytime(c) == TRUE

\* destructActivated takes the mutex of the permissioned vault actions.
MayDestruct(c) == ~permissionedVaultActionAllowed[c]

\* activate(true) of the next ComptrollerProxy, which is now the accessor: the
\* owner gets whatever shares the vault holds, those included that
\* destructActivated could not pay out.
ActivateNext(next) ==
  /\ status[next] = "configured"
  /\ balance' = [a \in Assets |-> IF a = VaultShares THEN 0 ELSE balance[a]]
  /\ CanTrack({DenominationAsset[next]}, activeExternalPositions)
  /\ accessor' = next
  /\ trackedAssets' = trackedAssets \cup {DenominationAsset[next]}
  /\ UNCHANGED <<allowance, activeExternalPositions, deployedFor, mutexVars>>

\* A reconfiguration or a migration is executed.
HandOver(next) ==
  /\ MayDestruct(accessor)
  /\ ActivateNext(next)
  /\ status' = [status EXCEPT ![accessor] = "destroyed", ![next] = "activated"]

\* A migration is executed with _bypassPrevReleaseFailure, and destructActivated
\* fails, for one because a call of the accessor's is open.
HandOverBypassingFailure(next) ==
  /\ ActivateNext(next)
  /\ status' = [status EXCEPT ![next] = "activated"]

\* An open call fails, with all the calls inside it.
Revert(i) ==
  /\ i \in DOMAIN calls
  /\ LET old == calls[i].before IN
     /\ accessor' = old.accessor
     /\ balance' = old.balance
     /\ allowance' = old.allowance
     /\ trackedAssets' = old.trackedAssets
     /\ activeExternalPositions' = old.activeExternalPositions
     /\ deployedFor' = old.deployedFor
     /\ status' = old.status
     /\ reentranceLocked' = old.reentranceLocked
     /\ permissionedVaultActionAllowed' = old.permissionedVaultActionAllowed
  /\ calls' = SubSeq(calls, 1, i - 1)

-----------------------------------------------------------------------------
\* An activated fund: it tracks its denomination asset and nothing else.
Init ==
  /\ accessor = FirstComptroller
  /\ balance = [a \in Assets |-> 0]
  /\ allowance = [d \in Adapters |-> [a \in Assets |-> 0]]
  /\ trackedAssets = {DenominationAsset[FirstComptroller]}
  /\ activeExternalPositions = {}
  /\ deployedFor = [p \in Positions |-> "nobody"]
  /\ status = [c \in Comptrollers |->
                 IF c = FirstComptroller THEN "activated" ELSE "configured"]
  /\ reentranceLocked = [c \in Comptrollers |-> FALSE]
  /\ permissionedVaultActionAllowed = [c \in Comptrollers |-> FALSE]
  /\ calls = <<>>

AssetManagerStep(c) ==
  \/ \E d \in Adapters, action \in AdapterActions : BeginCallOnIntegration(c, d, action)
  \/ \E assets \in Arrays : AddTrackedAssets(c, assets) \/ RemoveTrackedAssets(c, assets)
  \/ \E p \in Positions :
       \/ CreateExternalPosition(c, p)
       \/ RemoveExternalPosition(c, p)
       \/ ReactivateExternalPosition(c, p)
       \/ \E action \in PositionActions :
            \/ BeginCallOnExternalPosition(c, p, action)
            \/ CreateAndCallExternalPosition(c, p, action)

OutsideStep ==
  \/ \E a \in Assets, n \in Amounts :
       \/ \E d \in Adapters : AdapterTakes(d, a, n)
       \/ ProtocolTakes(a, n)
       \/ VaultReceives(a, n)
  \/ \E p \in Positions : DeployForAnotherVault(p)

Next ==
  \/ \E c \in Comptrollers : AssetManagerStep(c)
  \/ EndCallOnIntegration
  \/ EndCallOnExternalPosition
  \/ OutsideStep
  \/ \E n \in Amounts : BuyBackProtocolFeeShares(n)
  \/ \E a \in Assets, n \in Amounts : RedeemShares(a, n)
  \/ \E n \in Amounts : PayOutSharesOutstanding(n)
  \/ \E next \in Comptrollers : HandOver(next) \/ HandOverBypassingFailure(next)
  \/ \E i \in DOMAIN calls : Revert(i)

Spec == Init /\ [][Next]_vars

-----------------------------------------------------------------------------
\* Properties

\* The mutexes of a ComptrollerProxy are taken exactly while one call of it is
\* open: no failure, handover or nesting leaves one taken (the fund would take
\* no more calls) or free (the call could be entered again).
MutexesMatchCalls ==
  /\ \A c \in Comptrollers :
       /\ reentranceLocked[c] <=> \E i \in DOMAIN calls : calls[i].comptroller = c
       /\ permissionedVaultActionAllowed[c] <=> reentranceLocked[c]
  /\ \A i, j \in DOMAIN calls : calls[i].comptroller = calls[j].comptroller => i = j

Grants(call, adapter, a) ==
  /\ call.kind = "integration" /\ Approves(call.action)
  /\ call.adapter = adapter /\ a \in AssetsOf(call.action.spendAssets)

\* An adapter can take an asset only while a call is open that approved it:
\* whatever the adapter left unused is gone when the call is, and a call that
\* lost the vault to another ComptrollerProxy cannot end and leave it.
NoApprovalOutlivesItsCall ==
  \A d \in Adapters, a \in Assets :
    allowance[d][a] > 0 => \E i \in DOMAIN calls : Grants(calls[i], d, a)

\* Every position that counts as the fund's was deployed for its vault.
OnlyOwnPositions == \A p \in activeExternalPositions : deployedFor[p] = "vault"

\* The asset in which the ComptrollerProxy in force values the fund is tracked.
DenominationTracked == DenominationAsset[accessor] \in trackedAssets

\* Tracked assets and active positions together stay within the limit.
WithinPositionsLimit == WithinLimit(trackedAssets, activeExternalPositions)

\* No handover destroys a ComptrollerProxy in the middle of a call of its own,
\* in which it would still have to take back approvals and to run policies.
NoCallOutlivesItsComptroller ==
  \A i \in DOMAIN calls : status[calls[i].comptroller] # "destroyed"

\* The fund's own shares that the vault holds are owed to somebody: they are
\* never an asset of the fund, and while a ComptrollerProxy is in force, no call
\* of it ever finds fewer of them than it began with, whatever adapters,
\* positions and the calls within it do.  They leave the vault as fees between
\* calls, and to the owner with the activation of the next ComptrollerProxy.
OwnSharesStay ==
  VaultShares \in Assets =>
    /\ VaultShares \notin trackedAssets
    /\ \A d \in Adapters : allowance[d][VaultShares] = 0
    /\ \A i \in DOMAIN calls :
         calls[i].comptroller = accessor
           => balance[VaultShares] >= calls[i].before.balance[VaultShares]

\* The call that ends now began with the vault at rest and kept it to itself.
Undisturbed == Len(calls) = 1 /\ Top.before.accessor = accessor

Burned(a) == IF a = MlnToken THEN Top.burned ELSE 0

\* Of each asset the vault has lost at most what the adapter announced for it,
\* and nothing of an asset that it did not announce; a position got exactly
\* what its parser announced.  MLN burned for fee shares meanwhile is apart.
LossWithinAnnounced ==
  [][/\ EndCallOnIntegration /\ Undisturbed =>
          /\ \A i \in DOMAIN Top.action.spendAssets :
               LET out == Top.action.spendAssets[i] IN
               balance[out.asset] + out.amount + Burned(out.asset)
                 >= Top.before.balance[out.asset]
          /\ \A a \in Assets \ AssetsOf(Top.action.spendAssets) :
               balance[a] + Burned(a) >= Top.before.balance[a]
     /\ EndCallOnExternalPosition /\ Undisturbed =>
          \A a \in Assets :
            balance[a] + TotalOf(Top.action.assetsToTransfer, a) + Burned(a)
              >= Top.before.balance[a]]_vars

\* What a call reports as received is the vault's gain over the whole call, an
\* asset that is spent too included, and is at least the announced minimum.
GainIsNet ==
  [][EndCallOnIntegration =>
       \A i \in DOMAIN Top.action.incomingAssets :
         LET in == Top.action.incomingAssets[i] IN
         /\ IncomingAmount(Top, in.asset) = balance[in.asset] - Top.before.balance[in.asset]
         /\ balance[in.asset] - Top.before.balance[in.asset] >= in.amount]_vars

\* Whatever a call brought in and announced counts in the fund's value
\* afterwards, an asset included that the vault held untracked before.
ReceivedIsTracked ==
  [][/\ EndCallOnIntegration => AssetsOf(Top.action.incomingAssets) \subseteq trackedAssets'
     /\ EndCallOnExternalPosition => Top.action.assetsToReceive \subseteq trackedAssets']_vars

=============================================================================
