------------------------------- MODULE Policies -------------------------------
(***************************************************************************)
(* PolicyManager, and CumulativeSlippageTolerancePolicy with its           *)
(* PricelessAssetBypassMixin, for one fund whose ComptrollerProxies        *)
(* succeed one another.  A trade passes when every policy on the hook      *)
(* PostCallOnIntegration accepts it.                                       *)
(*                                                                         *)
(* A transaction is one step, and one that reverts is none.  A policy that *)
(* keeps no record of what it accepted can only refuse, so of the others   *)
(* the model has their hooks and whether they can be disabled.  The fund's *)
(* owner manages its assets.                                               *)
(***************************************************************************)
EXTENDS Integers, FiniteSets, FiniteSetsExt

CONSTANTS
  Comptrollers,
  NoAddress,
  Assets,
  FailingAssets,       \* those whose price may fail
  Adapters,
  BypassableAdapters,  \* the list BYPASSABLE_ADAPTERS_LIST_ID
  Policies,            \* the policies an owner may enable
  Configurations,      \* the sets of them a fund may be configured with
  Tolerances,          \* the tolerances owners choose
  NoSettings,
  OneHundredPercent,   \* ONE_HUNDRED_PERCENT
  TolerancePeriodDuration,
  BypassTimelock,      \* PRICELESS_ASSET_BYPASS_TIMELOCK
  BypassTimeLimit,     \* PRICELESS_ASSET_BYPASS_TIME_LIMIT
  Trades,              \* [spend, incoming], each by asset
  Genesis,             \* the first block.timestamp
  MaxTime              \* bound on block.timestamp

ASSUME AddressAssumption == NoAddress \notin Comptrollers
ASSUME FailingAssumption == FailingAssets \subseteq Assets
ASSUME PeriodAssumption == TolerancePeriodDuration \in Nat \ {0}
\* No bypass window that was never opened is open.
ASSUME GenesisAssumption ==
  /\ BypassTimelock \in Nat
  /\ BypassTimeLimit \in Nat
  /\ Genesis \in Nat
  /\ BypassTimeLimit < Genesis
  /\ MaxTime \in Nat /\ Genesis <= MaxTime
ASSUME AmountsAssumption ==
  /\ OneHundredPercent \in Nat
  /\ Tolerances \subseteq Nat
  /\ IsFiniteSet(Assets)
  /\ \A trade \in Trades : {trade.spend, trade.incoming} \subseteq [Assets -> Nat]

VARIABLES
  now,                 \* block.timestamp
  configured,          \* the ComptrollerProxies that got their configuration
  accessor,            \* the ComptrollerProxy in force
  replaced,            \* those it was before
  hookToPolicies,      \* comptrollerProxyToHookToPolicies
  policyInfo,          \* comptrollerProxyToPolicyInfo
  bypassWindowStart,   \* comptrollerProxyToAssetToBypassWindowStart
  unpriced,            \* the assets without a valid price
  \* History: when the bypass of an asset was announced, and the slippage of
  \* the trades that were accepted, by the time of the trade.
  announced,
  accepted

vars == <<now, configured, accessor, replaced, hookToPolicies, policyInfo,
          bypassWindowStart, unpriced, announced, accepted>>
fundVars == <<configured, accessor, replaced>>
policyVars == <<policyInfo, bypassWindowStart>>
history == <<announced, accepted>>

Instants == Genesis..MaxTime

-----------------------------------------------------------------------------
(* Policies: what identifier, implementedHooks and canDisable return. *)

Policy(identifier, hooks, canDisable) ==
  [identifier |-> identifier, hooks |-> hooks, canDisable |-> canDisable]

CumulativeSlippageTolerance ==
  Policy("CUMULATIVE_SLIPPAGE_TOLERANCE", {"PostCallOnIntegration"}, FALSE)
AllowedAdapters ==
  Policy("ALLOWED_ADAPTERS", {"PostCallOnIntegration"}, FALSE)
AllowedAdaptersPerManager ==
  Policy("ALLOWED_ADAPTERS_PER_MANAGER", {"PostCallOnIntegration"}, TRUE)
AllowedAdapterIncomingAssets ==
  Policy("ALLOWED_ADAPTER_INCOMING_ASSETS", {"PostCallOnIntegration"}, FALSE)
OnlyUntrackDustOrPricelessAssets ==
  Policy("ONLY_UNTRACK_DUST_OR_PRICELESS_ASSETS", {"RemoveTrackedAssets"},
         FALSE)
OnlyRemoveDustExternalPosition ==
  Policy("ONLY_REMOVE_DUST_EXTERNAL_POSITION", {"RemoveExternalPosition"},
         FALSE)
AllowedExternalPositionTypes ==
  Policy("ALLOWED_EXTERNAL_POSITION_TYPES",
         {"CreateExternalPosition", "ReactivateExternalPosition"}, FALSE)
AllowedExternalPositionTypesPerManager ==
  Policy("ALLOWED_EXTERNAL_POSITION_TYPES_PER_MANAGER",
         {"CreateExternalPosition", "PostCallOnExternalPosition",
          "ReactivateExternalPosition", "RemoveExternalPosition"}, TRUE)
AllowedDepositRecipients ==
  Policy("ALLOWED_DEPOSIT_RECIPIENTS", {"PostBuyShares"}, TRUE)
MinMaxInvestment == Policy("MIN_MAX_INVESTMENT", {"PostBuyShares"}, TRUE)
AllowedSharesTransferRecipients ==
  Policy("ALLOWED_SHARES_TRANSFER_RECIPIENTS", {"PreTransferShares"}, TRUE)
AllowedAssetsForRedemption ==
  Policy("ALLOWED_ASSETS_FOR_REDEMPTION", {"RedeemSharesForSpecificAssets"},
         TRUE)
MinAssetBalancesPostRedemption ==
  Policy("MIN_ASSET_BALANCES_POST_REDEMPTION",
         {"RedeemSharesForSpecificAssets"}, TRUE)

OfficialPolicies ==
  {CumulativeSlippageTolerance, AllowedAdapters, AllowedAdaptersPerManager,
   AllowedAdapterIncomingAssets, OnlyUntrackDustOrPricelessAssets,
   OnlyRemoveDustExternalPosition, AllowedExternalPositionTypes,
   AllowedExternalPositionTypesPerManager, AllowedDepositRecipients,
   MinMaxInvestment, AllowedSharesTransferRecipients,
   AllowedAssetsForRedemption, MinAssetBalancesPostRedemption}

\* __getAllPolicyHooks
Hooks ==
  {"PostBuyShares", "PostCallOnIntegration", "PreTransferShares",
   "RedeemSharesForSpecificAssets", "AddTrackedAssets",
   "RemoveTrackedAssets", "CreateExternalPosition",
   "PostCallOnExternalPosition", "RemoveExternalPosition",
   "ReactivateExternalPosition"}

\* __policyHookRestrictsCurrentInvestorActions
RestrictsCurrentInvestorActions(hook) ==
  hook \in {"PreTransferShares", "RedeemSharesForSpecificAssets"}

PolicyIsEnabledOnHook(c, hook, p) == p \in hookToPolicies[c][hook]
EnabledPolicies(c) == UNION {hookToPolicies[c][hook] : hook \in Hooks}

NoPolicyInfo ==
  [tolerance |-> 0, cumulativeSlippage |-> 0, lastSlippageTimestamp |-> 0]

Init ==
  /\ now = Genesis
  /\ configured = {}
  /\ accessor = NoAddress
  /\ replaced = {}
  /\ hookToPolicies = [c \in Comptrollers |-> [hook \in Hooks |-> {}]]
  /\ policyInfo = [c \in Comptrollers |-> NoPolicyInfo]
  /\ bypassWindowStart = [c \in Comptrollers |-> [a \in Assets |-> 0]]
  /\ unpriced = {}
  /\ announced = [c \in Comptrollers |-> [a \in Assets |-> {}]]
  /\ accepted = [c \in Comptrollers |-> [t \in Instants |-> 0]]

-----------------------------------------------------------------------------
(* PolicyManager. *)

\* addFundSettings of the cumulative slippage policy, if any are given.
AddFundSettings(c, tolerance) ==
  IF tolerance = NoSettings
    THEN UNCHANGED policyInfo
    ELSE /\ tolerance < OneHundredPercent
         /\ policyInfo' =
              [policyInfo EXCEPT ![c] = [NoPolicyInfo EXCEPT
                                           !.tolerance = tolerance]]

WithPolicies(c, policies) ==
  [hookToPolicies EXCEPT ![c] =
     [hook \in Hooks |->
        hookToPolicies[c][hook] \cup {p \in policies : hook \in p.hooks}]]

\* setConfigForFund, by the FundDeployer when it deploys a ComptrollerProxy.
SetConfigForFund(c, policies, tolerance) ==
  /\ c \notin configured
  /\ configured' = configured \cup {c}
  /\ IF CumulativeSlippageTolerance \in policies
       THEN AddFundSettings(c, tolerance)
       ELSE tolerance = NoSettings /\ UNCHANGED policyInfo
  /\ hookToPolicies' = WithPolicies(c, policies)
  /\ UNCHANGED <<now, accessor, replaced, bypassWindowStart, unpriced,
                 history>>

\* The ComptrollerProxy comes into force.  activateForFund keeps no record.
Activate(c) ==
  /\ c \in configured \ (replaced \cup {accessor})
  /\ accessor' = c
  /\ replaced' = replaced \cup ({accessor} \ {NoAddress})
  /\ UNCHANGED <<now, configured, hookToPolicies, policyVars, unpriced,
                 history>>

\* The policy is on none of its hooks yet.
\* [Mutant: a policy may be enabled again.]
EnabledOrNot(c, p) == TRUE
NotEnabled(c, p) ==
  \A hook \in p.hooks : ~PolicyIsEnabledOnHook(c, hook, p)

\* [Mutant: one hook that restricts nobody is enough.]
RestrictsNobodySomewhere(p) ==
  \E hook \in p.hooks : ~RestrictsCurrentInvestorActions(hook)
RestrictsNobody(p) ==
  \A hook \in p.hooks : ~RestrictsCurrentInvestorActions(hook)

\* enablePolicyForFund, by the fund's owner.
EnablePolicyForFund(c, p, tolerance) ==
  /\ c \in configured
  /\ RestrictsNobody(p)
  /\ NotEnabled(c, p)
  /\ IF p = CumulativeSlippageTolerance
       THEN AddFundSettings(c, tolerance)
       ELSE tolerance = NoSettings /\ UNCHANGED policyInfo
  /\ hookToPolicies' = WithPolicies(c, {p})
  /\ UNCHANGED <<now, fundVars, bypassWindowStart, unpriced, history>>

\* disablePolicyForFund, by the fund's owner.
DisablePolicyForFund(c, p) ==
  /\ p \in EnabledPolicies(c)
  /\ p.canDisable
  /\ hookToPolicies' = [hookToPolicies EXCEPT ![c] =
       [hook \in Hooks |-> @[hook] \ (IF hook \in p.hooks THEN {p} ELSE {})]]
  /\ UNCHANGED <<now, fundVars, policyVars, unpriced, history>>

-----------------------------------------------------------------------------
(* PricelessAssetBypassMixin. *)

\* startAssetBypassTimelock, by the vault, for the ComptrollerProxy in force.
StartAssetBypassTimelock(a) ==
  /\ accessor # NoAddress
  /\ a \in unpriced
  /\ bypassWindowStart' =
       [bypassWindowStart EXCEPT ![accessor][a] = now + BypassTimelock]
  /\ announced' = [announced EXCEPT ![accessor][a] = @ \cup {now}]
  /\ UNCHANGED <<now, fundVars, hookToPolicies, policyInfo, unpriced,
                 accepted>>

\* [Mutant: the window opens at once.]
AssetIsBypassableAtOnce(c, a) ==
  /\ bypassWindowStart[c][a] # 0
  /\ bypassWindowStart[c][a] + BypassTimeLimit >= now
AssetIsBypassable(c, a) ==
  /\ bypassWindowStart[c][a] <= now
  /\ bypassWindowStart[c][a] + BypassTimeLimit >= now

\* Whether the valuation of the amounts does not revert.
Valuable(c, amounts) ==
  \A a \in unpriced : amounts[a] > 0 => AssetIsBypassable(c, a)

\* __calcTotalValueExlcudingBypassablePricelessAssets.  A unit of any asset
\* is worth one.
TotalValue(amounts) ==
  MapThenSumSet(LAMBDA a : amounts[a], Assets \ unpriced)

-----------------------------------------------------------------------------
(* CumulativeSlippageTolerancePolicy. *)

\* The loss as a part of what went out, rounded down; nothing when nothing of
\* value went out.
SlippageOf(outgoing, incoming) ==
  IF outgoing > incoming
    THEN ((outgoing - incoming) * OneHundredPercent) \div outgoing
    ELSE 0

\* __calcSlippage asks for the value of what came in only if something of
\* value went out.
SlippageKnown(c, trade) ==
  /\ Valuable(c, trade.spend)
  /\ TotalValue(trade.spend) > 0 => Valuable(c, trade.incoming)
Slippage(trade) ==
  SlippageOf(TotalValue(trade.spend), TotalValue(trade.incoming))

\* What is left of the cumulative slippage after the time since the last one.
Restored(info) ==
  LET restore ==
        (info.tolerance * (now - info.lastSlippageTimestamp))
          \div TolerancePeriodDuration
  IN  IF restore < info.cumulativeSlippage
        THEN info.cumulativeSlippage - restore
        ELSE 0

\* __updateCumulativeSlippage
\* [Mutant: the time of the last slippage is not recorded anew.]
NextPolicyInfoUntimed(info, newSlippage) ==
  [info EXCEPT !.cumulativeSlippage = Restored(info) + newSlippage,
               !.lastSlippageTimestamp = IF @ = 0 THEN now ELSE @]
NextPolicyInfo(info, newSlippage) ==
  [info EXCEPT !.cumulativeSlippage = Restored(info) + newSlippage,
               !.lastSlippageTimestamp = now]

-----------------------------------------------------------------------------
(* Trades. *)

\* An asset counts for nothing in a trade only if it has no price now and had
\* none when its bypass was announced, under the same ComptrollerProxy, for
\* long enough and not too long ago.
MayBeLeftOut(c, a) ==
  \E t \in announced[c][a] :
    /\ t + BypassTimelock <= now
    /\ t + BypassTimelock + BypassTimeLimit >= now
ValueGone(c, trade) ==
  MapThenSumSet(LAMBDA a : trade.spend[a],
                {a \in Assets : a \in unpriced => ~MayBeLeftOut(c, a)})
SlippageOfTrade(c, trade) ==
  SlippageOf(ValueGone(c, trade), TotalValue(trade.incoming))

\* callOnIntegration of the ComptrollerProxy in force, up to its validation
\* by the policies on PostCallOnIntegration, which is the last thing it does.
CallOnIntegration(adapter, trade) ==
  /\ accessor # NoAddress
  /\ IF ~PolicyIsEnabledOnHook(accessor, "PostCallOnIntegration",
                               CumulativeSlippageTolerance)
        \/ adapter \in BypassableAdapters
       THEN UNCHANGED <<policyInfo, accepted>>
       ELSE /\ SlippageKnown(accessor, trade)
            /\ LET info == NextPolicyInfo(policyInfo[accessor], Slippage(trade))
               IN  IF Slippage(trade) = 0
                     THEN UNCHANGED policyInfo
                     ELSE /\ info.cumulativeSlippage <= info.tolerance
                          /\ policyInfo' = [policyInfo EXCEPT ![accessor] = info]
            /\ accepted' = [accepted EXCEPT ![accessor][now] =
                              @ + SlippageOfTrade(accessor, trade)]
  /\ UNCHANGED <<now, fundVars, hookToPolicies, bypassWindowStart, unpriced,
                 announced>>

\* Prices get lost and come back.
PricesChange ==
  /\ unpriced' \in SUBSET FailingAssets \ {unpriced}
  /\ UNCHANGED <<now, fundVars, hookToPolicies, policyVars, history>>

Tick ==
  /\ now < MaxTime
  /\ now' = now + 1
  /\ UNCHANGED <<fundVars, hookToPolicies, policyVars, unpriced, history>>

Next ==
  \/ \E c \in Comptrollers, tolerance \in Tolerances \cup {NoSettings} :
       \/ \E policies \in Configurations :
            SetConfigForFund(c, policies, tolerance)
       \/ \E p \in Policies : EnablePolicyForFund(c, p, tolerance)
  \/ \E c \in Comptrollers :
       \/ Activate(c)
       \/ \E p \in EnabledPolicies(c) : DisablePolicyForFund(c, p)
  \/ \E a \in Assets : StartAssetBypassTimelock(a)
  \/ \E adapter \in Adapters, trade \in Trades :
       CallOnIntegration(adapter, trade)
  \/ PricesChange
  \/ Tick

Spec == Init /\ [][Next]_vars

-----------------------------------------------------------------------------
(* Properties. *)

AcceptedSlippage(c, from, to) ==
  MapThenSumSet(LAMBDA t : accepted[c][t], from..to)

\* The cumulative slippage policy bounds losses: over any stretch of time the
\* trades it let pass lost no more than the tolerance and what is restored of
\* it in that time, whatever the owner enables, disables, announces and
\* reconfigures in between, and whichever prices fail.  An asset whose bypass
\* was not announced in time counts in full.
LossesWithinTolerance ==
  \A c \in Comptrollers, from, to \in Instants :
    from <= to =>
      AcceptedSlippage(c, from, to) * TolerancePeriodDuration
        <= policyInfo[c].tolerance * (TolerancePeriodDuration + (to - from))

\* What investors found when the ComptrollerProxy was configured stays: no
\* policy comes to restrict those who are invested, and none that cannot be
\* disabled goes.
TermsStay ==
  [][\A c \in configured, hook \in Hooks :
       /\ RestrictsCurrentInvestorActions(hook) =>
            hookToPolicies'[c][hook] \subseteq hookToPolicies[c][hook]
       /\ \A p \in hookToPolicies[c][hook] \ hookToPolicies'[c][hook] :
            p.canDisable]_vars
===============================================================================
