------------------------------ MODULE FundFees ------------------------------
(***************************************************************************)
(* The fees of one fund: the FeeManager, which settles the enabled fees in *)
(* order on the hooks of purchases and redemptions, the official fees, and *)
(* one fee of a third party that keeps its shares outstanding.             *)
(*                                                                         *)
(* One action is one transaction.  The shares themselves, the timelock and *)
(* the protocol fee's amount are FundShares' subject: here a protocol fee  *)
(* is any of ProtocolFees, and the vault's assets are worth gav.           *)
(***************************************************************************)
EXTENDS SharesToken, Sequences, FiniteSets, Functions

CONSTANTS
  Investors,             \* accounts that buy shares
  FeeRecipient,          \* the recipient of every fee that has one
  Owner,                 \* of the vault
  VaultProxy,            \* the vault, as a holder of its own shares
  ProtocolFeeReserve,
  LockedSharesAddress,   \* LOCKED_SHARES_ADDRESS of the MinSharesSupplyFee
  Fees,                  \* the enabled fees, in the order they are applied
  SharesUnit,            \* SHARES_UNIT and SHARE_UNIT
  DenominationAssetUnit,
  OneHundredPercent,     \* ONE_HUNDRED_PERCENT
  PerformanceRate,       \* rates of the fees
  EntranceRate,
  ExitInKindRate,
  ExitSpecificAssetsRate,
  Growth,                \* rpow(scaledPerSecondRate, n) - RATE_SCALE_BASE
  RateScaleBase,
  MinSharesSupply,       \* MIN_SHARES_SUPPLY
  ResetHwmFlag,          \* RESET_HWM_FLAG
  ExternalSettlements,   \* what the third party's settle() may return
  ProtocolFees,          \* the shares a protocol fee may mint
  Investments,           \* the amounts investors pay in
  Gavs,                  \* the values that managers and markets bring about
  MaxSupply,             \* bound on the shares minted
  MaxGav,                \* bound on the value that purchases add up to
  MaxTime                \* bound on block.timestamp

Official == {"Management", "Performance", "EntranceRateBurn",
             "EntranceRateDirect", "ExitRateBurn", "ExitRateDirect",
             "MinSharesSupply"}
Holders == Investors \cup {FeeRecipient, Owner}
Accounts == Holders \cup {VaultProxy, ProtocolFeeReserve,
                       LockedSharesAddress}
Enabled(fee) == \E i \in DOMAIN Fees : Fees[i] = fee

\* The vault and the reserve, which are contracts, buy, redeem and transfer
\* no shares by themselves.
ASSUME AccountsAssumption ==
  /\ IsFiniteSet(Investors)
  /\ VaultProxy \notin Holders
  /\ ProtocolFeeReserve \notin Holders \cup {LockedSharesAddress}
ASSUME FeesAssumption ==
  /\ Fees \in Seq(Official \cup {"External"})
  /\ IsInjective(Fees)
ASSUME RatesAssumption ==
  /\ OneHundredPercent \in Nat
  /\ PerformanceRate \in 1..OneHundredPercent
  /\ {EntranceRate, ExitInKindRate, ExitSpecificAssetsRate}
       \subseteq 0..OneHundredPercent - 1
  /\ RateScaleBase \in Nat \ {0}
  /\ Growth \in [0..MaxTime -> Nat] /\ Growth[0] = 0
ASSUME UnitsAssumption ==
  /\ {SharesUnit, DenominationAssetUnit} \subseteq Nat \ {0}
  /\ MinSharesSupply \in Nat /\ ResetHwmFlag \notin Nat
ASSUME AmountsAssumption ==
  /\ ProtocolFees \cup Investments \cup Gavs \cup {MaxSupply, MaxGav}
       \subseteq Nat
  /\ MaxTime \in Nat \ {0}
ASSUME ExternalAssumption ==
  \A e \in ExternalSettlements :
    /\ e.type \in {"None", "MintSharesOutstanding", "BurnSharesOutstanding",
                   "Revert"}
    /\ e.due \in Nat

VARIABLES
  now,                  \* block.timestamp
  shares,               \* the shares token
  gav,                  \* what calcGav returns, when it does
  priced,               \* calcGav does not revert
  highWaterMark,        \* of the PerformanceFee
  lastSettled,          \* of the ManagementFee
  sharesOutstanding     \* of the third party's fee, in the FeeManager

marketVars == <<gav, priced>>
feeVars == <<highWaterMark, lastSettled, sharesOutstanding>>
vars == <<now, shares, marketVars, feeVars>>

TypeOK ==
  /\ now \in 1..MaxTime
  /\ shares \in [balanceOf : [Accounts -> Nat], totalSupply : Nat]
  /\ gav \in Nat
  /\ priced \in BOOLEAN
  /\ highWaterMark \in Nat
  /\ lastSettled \in 0..MaxTime
  /\ sharesOutstanding \in Nat

-----------------------------------------------------------------------------
(* The settlement of one fee.  s is the fund within a transaction: shares, *)
(* value, fee state, and ok, which a revert makes FALSE.                   *)

Fund == [shares |-> shares, gav |-> gav, highWaterMark |-> highWaterMark,
         lastSettled |-> lastSettled, sharesOutstanding |-> sharesOutstanding,
         ok |-> TRUE]

Require(s, condition) == [s EXCEPT !.ok = @ /\ condition]
Reverted(s) == Require(s, FALSE)

\* The three settlement types that move shares of and to accounts.
SettleMint(s, payee, due) == [s EXCEPT !.shares = Mint(@, payee, due)]
SettleBurn(s, payer, due) ==
  IF Burnable(s.shares, payer, due)
    THEN [s EXCEPT !.shares = Burn(@, payer, due)]
    ELSE Reverted(s)
SettleDirect(s, payer, payee, due) ==
  IF due <= s.shares.balanceOf[payer]
    THEN [s EXCEPT !.shares = Transfer(@, payer, payee, due)]
    ELSE Reverted(s)

\* __calcGrossShareValue, the same in ComptrollerLib and in PerformanceFee.
GrossShareValue(value, supply) ==
  IF supply = 0 THEN DenominationAssetUnit
                ELSE (value * SharesUnit) \div supply

\* PerformanceFee: the value due for a price above the high-water mark.
\* [Mutant: of the whole price.]
RawValueDueOfPrice(value, supply, mark) ==
  ((GrossShareValue(value, supply) * supply * PerformanceRate)
     \div OneHundredPercent) \div SharesUnit
RawValueDue(value, supply, mark) ==
  (((GrossShareValue(value, supply) - mark) * supply * PerformanceRate)
     \div OneHundredPercent) \div SharesUnit

AboveMark(value, supply, mark) ==
  /\ value > 0 /\ supply > 0
  /\ mark # ResetHwmFlag
  /\ GrossShareValue(value, supply) > mark

\* The division by what is left after the fee reverts when nothing is.
PerformanceSharesDue(value, supply, mark) ==
  LET raw == RawValueDue(value, supply, mark)
  IN  IF AboveMark(value, supply, mark) THEN (raw * supply) \div (value - raw)
                                        ELSE 0
PerformanceReverts(value, supply, mark) ==
  AboveMark(value, supply, mark) /\ RawValueDue(value, supply, mark) = value

\* [Mutant: the mark is not flagged for the update.]
SettlePerformanceUnflagged(s, value) ==
  LET due == PerformanceSharesDue(value, s.shares.totalSupply, s.highWaterMark)
  IN  IF PerformanceReverts(value, s.shares.totalSupply, s.highWaterMark)
        THEN Reverted(s)
        ELSE SettleMint(s, FeeRecipient, due)
SettlePerformance(s, value) ==
  LET supply == s.shares.totalSupply
      due == PerformanceSharesDue(value, supply, s.highWaterMark)
  IN  IF PerformanceReverts(value, supply, s.highWaterMark) THEN Reverted(s)
      ELSE IF due = 0 THEN s
      ELSE SettleMint([s EXCEPT !.highWaterMark = ResetHwmFlag],
                      FeeRecipient, due)

\* ManagementFee: settles even when nothing is due, except twice at a time.
SettleManagement(s) ==
  LET net == s.shares.totalSupply - s.shares.balanceOf[VaultProxy]
      due == (net * Growth[now - s.lastSettled]) \div RateScaleBase
  IN  SettleMint([s EXCEPT !.lastSettled = now], FeeRecipient, due)

\* EntranceRateFeeBase and ExitRateFeeBase: a part of the quantity bought or
\* redeemed, burned or paid by the payer d names.
RateDue(d, rate) == (d.quantity * rate) \div OneHundredPercent
ExitRate(d) == IF d.forSpecificAssets THEN ExitSpecificAssetsRate
                                      ELSE ExitInKindRate

\* MinSharesSupplyFee: locks the first shares for ever.
SettleMinSharesSupply(s, payer) ==
  LET locked == s.shares.balanceOf[LockedSharesAddress]
  IN  IF locked >= MinSharesSupply THEN s
      ELSE SettleDirect(s, payer, LockedSharesAddress,
                        MinSharesSupply - locked)

\* The third party's fee, whose shares the vault keeps until they are paid.
\* [Mutant: burned shares stay outstanding.]
SettleExternalKeepingBurned(s, e) ==
  IF e.type = "MintSharesOutstanding"
    THEN SettleMint([s EXCEPT !.sharesOutstanding = @ + e.due],
                    VaultProxy, e.due)
  ELSE IF e.type = "BurnSharesOutstanding"
    THEN SettleBurn(s, VaultProxy, e.due)
  ELSE IF e.type = "None" THEN s
  ELSE Reverted(s)
SettleExternal(s, e) ==
  IF e.type = "MintSharesOutstanding"
    THEN SettleMint([s EXCEPT !.sharesOutstanding = @ + e.due],
                    VaultProxy, e.due)
  ELSE IF e.type = "BurnSharesOutstanding" /\ e.due <= s.sharesOutstanding
    THEN SettleBurn([s EXCEPT !.sharesOutstanding = @ - e.due],
                    VaultProxy, e.due)
  ELSE IF e.type = "None" THEN s
  ELSE Reverted(s)

-----------------------------------------------------------------------------
(* FeeManager.invokeHook. *)

SettlesOnHook(fee, hook) ==
  CASE fee \in {"Management", "Performance", "External"} ->
         hook \in {"PreBuyShares", "PreRedeemShares", "Continuous"}
    [] fee \in {"EntranceRateBurn", "EntranceRateDirect", "MinSharesSupply"} ->
         hook = "PostBuyShares"
    [] fee \in {"ExitRateBurn", "ExitRateDirect"} -> hook = "PreRedeemShares"

\* [Mutant: a purchase leaves the mark flagged.]
UpdatesBeforePurchaseOnly(hook) == hook \in {"PreRedeemShares", "Continuous"}
PerformanceUpdatesOnHook(hook) ==
  hook \in {"PostBuyShares", "PreRedeemShares", "Continuous"}

\* __settleFee: what the fee's settle() returns, carried out.
SettleFee(s, fee, d, value, external) ==
  CASE fee = "Management" -> SettleManagement(s)
    [] fee = "Performance" -> SettlePerformance(s, value)
    [] fee = "External" -> SettleExternal(s, external)
    [] fee = "EntranceRateBurn" ->
         SettleBurn(s, d.payer, RateDue(d, EntranceRate))
    [] fee = "EntranceRateDirect" ->
         SettleDirect(s, d.payer, FeeRecipient, RateDue(d, EntranceRate))
    [] fee = "ExitRateBurn" ->
         SettleBurn(s, d.payer, RateDue(d, ExitRate(d)))
    [] fee = "ExitRateDirect" ->
         SettleDirect(s, d.payer, FeeRecipient, RateDue(d, ExitRate(d)))
    [] fee = "MinSharesSupply" -> SettleMinSharesSupply(s, d.payer)

\* __settleFees: the enabled fees in order, up to the first that reverts.
SettleOnHook(s, fee, hook, d, value, external) ==
  IF s.ok /\ SettlesOnHook(fee, hook) THEN SettleFee(s, fee, d, value, external)
                                      ELSE s
SettleFees(s, hook, d, value, external) ==
  LET settled[i \in 0..Len(Fees)] ==
        IF i = 0 THEN s
        ELSE SettleOnHook(settled[i - 1], Fees[i], hook, d, value, external)
  IN  settled[Len(Fees)]

\* __updateFees: a flagged mark becomes the price after all settlements.
UpdateFees(s, hook, value) ==
  IF /\ s.ok /\ Enabled("Performance") /\ PerformanceUpdatesOnHook(hook)
     /\ s.highWaterMark = ResetHwmFlag
    THEN [s EXCEPT !.highWaterMark =
                     GrossShareValue(value, s.shares.totalSupply)]
    ELSE s

\* A known value is passed on; otherwise calcGav is called when a fee needs
\* it, and may revert.
InvokeHook(s, hook, d, knownGav, external) ==
  LET value == IF knownGav = 0 THEN gav ELSE knownGav
  IN  IF Enabled("Performance") /\ knownGav = 0 /\ ~priced
        THEN Reverted(s)
        ELSE UpdateFees(SettleFees(s, hook, d, value, external), hook, value)

NoData == [quantity |-> 0]

\* The transaction whose outcome is s (bound once, so evaluated once), if the
\* supply stays within its bound.
Becomes(s) ==
  \E outcome \in {s} :
    /\ outcome.ok
    /\ outcome.shares.totalSupply <= MaxSupply
    /\ shares' = outcome.shares
    /\ gav' = outcome.gav
    /\ highWaterMark' = outcome.highWaterMark
    /\ lastSettled' = outcome.lastSettled
    /\ sharesOutstanding' = outcome.sharesOutstanding
    /\ UNCHANGED <<now, priced>>

\* VaultLib.payProtocolFee, of an amount that is none without any shares.
PayProtocolFee(s, due) ==
  IF s.shares.totalSupply = 0 THEN s ELSE SettleMint(s, ProtocolFeeReserve, due)

-----------------------------------------------------------------------------
(* Transactions. *)

\* A new fund, its fees activated: ManagementFee leaves its clock alone, and
\* PerformanceFee marks the initial price.
Init ==
  /\ now = 1
  /\ shares = [balanceOf |-> [a \in Accounts |-> 0], totalSupply |-> 0]
  /\ gav = 0
  /\ priced = TRUE
  /\ highWaterMark = IF Enabled("Performance") THEN DenominationAssetUnit ELSE 0
  /\ lastSettled = 0
  /\ sharesOutstanding = 0

\* ComptrollerLib.__buyShares: the fund is valued once, before the first hook;
\* settled is what that hook makes of it.  A price of zero cannot be divided by.
IssueShares(settled, buyer, investment, external, protocolFee) ==
  LET charged == PayProtocolFee(settled, protocolFee)
      price == GrossShareValue(gav, charged.shares.totalSupply)
      issued == (investment * SharesUnit) \div price
      minted == SettleMint([charged EXCEPT !.gav = @ + investment], buyer, issued)
      post == InvokeHook(minted, "PostBuyShares",
                         [payer |-> buyer, quantity |-> issued],
                         gav + investment, external)
  IN  IF price = 0 THEN Reverted(settled)
      ELSE Require(post, post.shares.balanceOf[buyer]
                           > charged.shares.balanceOf[buyer])

BuyShares(buyer, investment, external, protocolFee) ==
  /\ priced
  /\ gav + investment <= MaxGav
  /\ \E settled \in {InvokeHook(Fund, "PreBuyShares", NoData, gav, external)} :
       Becomes(IssueShares(settled, buyer, investment, external, protocolFee))

\* The fees are settled in a try: when one reverts, none is charged.
\* [Mutant: without the try.]
PreRedeemSharesHookUnguarded(d, knownGav, external) ==
  InvokeHook(Fund, "PreRedeemShares", d, knownGav, external)
PreRedeemSharesHook(d, knownGav, external) ==
  LET settled == InvokeHook(Fund, "PreRedeemShares", d, knownGav, external)
  IN  IF settled.ok THEN settled ELSE Fund

\* __redeemSharesSetup after the hook, and the payout of both redemptions.
\* Fees that the redeemer paid in shares reduce the quantity, unless all
\* that is left is redeemed.
PayOutShares(settled, redeemer, quantity, all, specific, protocolFee) ==
  LET before == shares.balanceOf[redeemer]
      after == settled.shares.balanceOf[redeemer]
      feesPaid == IF after < before THEN before - after ELSE 0
      sharesToRedeem == IF all THEN after ELSE quantity - feesPaid
      charged == PayProtocolFee(settled, protocolFee)
      supply == charged.shares.totalSupply
      owed == (gav * sharesToRedeem) \div supply
  IN  IF supply = 0 \/ feesPaid > quantity \/ (specific /\ owed = 0)
        THEN Reverted(settled)
        ELSE SettleBurn([charged EXCEPT !.gav = @ - owed],
                        redeemer, sharesToRedeem)

Redemption(redeemer, quantity, all, specific, external, protocolFee) ==
  LET d == [payer |-> redeemer, quantity |-> quantity,
            forSpecificAssets |-> specific]
  IN  PayOutShares(PreRedeemSharesHook(d, IF specific THEN gav ELSE 0, external),
                   redeemer, quantity, all, specific, protocolFee)

RedeemShares(redeemer, quantity, all, specific, external, protocolFee) ==
  /\ all => quantity = shares.balanceOf[redeemer]
  /\ specific => priced
  /\ Becomes(Redemption(redeemer, quantity, all, specific, external,
                        protocolFee))

\* FeeManager.receiveCallFromComptroller, action 0: anybody settles the
\* continuous fees.
SettleContinuousFees(external) ==
  Becomes(InvokeHook(Fund, "Continuous", NoData, 0, external))

\* __payoutSharesOutstanding; nothing to delete or to transfer is no error.
\* [Mutant: paid shares stay outstanding.]
PayoutKeepingOutstanding(s) ==
  SettleDirect(s, VaultProxy, FeeRecipient, s.sharesOutstanding)
Payout(s) ==
  SettleDirect([s EXCEPT !.sharesOutstanding = 0],
               VaultProxy, FeeRecipient, s.sharesOutstanding)

\* Action 1: anybody has the shares outstanding paid, if the fee agrees.
PayoutSharesOutstanding ==
  /\ Enabled("External")
  /\ sharesOutstanding > 0
  /\ Becomes(Payout(Fund))

TransferShares(sender, recipient, amount) ==
  /\ shares' = Transfer(shares, sender, recipient, amount)
  /\ UNCHANGED <<now, marketVars, feeVars>>

\* The FeeManager of a fund that migrates or is reconfigured.  The fees of
\* the old ComptrollerProxy are paid out unless that fails; what the vault
\* still holds goes to the owner.  The fees of the new one start afresh.
ManagementActivatedAt(supply) ==
  IF Enabled("Management") /\ supply > 0 THEN now ELSE 0
Reactivate(paysOut, protocolFee) ==
  LET charged == PayProtocolFee(Fund, protocolFee)
      paid == IF paysOut THEN Payout(charged) ELSE charged
      swept == SettleDirect(paid, VaultProxy, Owner,
                            paid.shares.balanceOf[VaultProxy])
      supply == swept.shares.totalSupply
  IN
  /\ Enabled("Performance") => priced
  /\ Becomes([swept EXCEPT
                !.highWaterMark = IF Enabled("Performance")
                                    THEN GrossShareValue(gav, supply) ELSE 0,
                !.lastSettled = ManagementActivatedAt(supply),
                !.sharesOutstanding = 0])

\* Managers trade, markets move, price feeds fail and recover.
MarketsMove(value, available) ==
  /\ gav' = value
  /\ priced' = available
  /\ UNCHANGED <<now, shares, feeVars>>

Tick ==
  /\ now < MaxTime
  /\ now' = now + 1
  /\ UNCHANGED <<shares, marketVars, feeVars>>

ExternalOutcomes ==
  IF Enabled("External") THEN ExternalSettlements
                         ELSE {[type |-> "None", due |-> 0]}

Invest ==
  \E buyer \in Investors, investment \in Investments,
     external \in ExternalOutcomes, protocolFee \in ProtocolFees :
    BuyShares(buyer, investment, external, protocolFee)

Leave ==
  \E redeemer \in Holders :
    \E quantity \in 1..shares.balanceOf[redeemer] :
      \/ \E all, specific \in BOOLEAN, external \in ExternalOutcomes,
            protocolFee \in ProtocolFees :
           RedeemShares(redeemer, quantity, all, specific, external,
                        protocolFee)
      \/ \E recipient \in Accounts :
           TransferShares(redeemer, recipient, quantity)

Next ==
  \/ Invest
  \/ Leave
  \/ \E external \in ExternalOutcomes : SettleContinuousFees(external)
  \/ PayoutSharesOutstanding
  \/ \E paysOut \in BOOLEAN, protocolFee \in ProtocolFees :
       Reactivate(paysOut, protocolFee)
  \/ \E value \in Gavs, available \in BOOLEAN : MarketsMove(value, available)
  \/ Tick

Spec == Init /\ [][Next]_vars

-----------------------------------------------------------------------------
(* Properties. *)

\* The vault holds the shares that the FeeManager has outstanding.
SharesOutstandingBacked == sharesOutstanding <= shares.balanceOf[VaultProxy]

\* Profit is charged once: after the fees were settled, nothing is due again
\* until the price rises.
ProfitChargedOnce ==
  [][ (\E external \in ExternalOutcomes : SettleContinuousFees(external))
      => PerformanceSharesDue(gav', shares'.totalSupply, highWaterMark') = 0
    ]_vars

\* With the recommended order, the ManagementFee before the PerformanceFee,
\* the high-water mark falls only with new fees, and in a purchase by no more
\* than the protocol fee's shares dilute it.
HighWaterMarkHolds ==
  [][ \/ \E paysOut \in BOOLEAN, protocolFee \in ProtocolFees :
           Reactivate(paysOut, protocolFee)
      \/ highWaterMark' >= highWaterMark
      \/ LET paid == shares'.balanceOf[ProtocolFeeReserve]
                       - shares.balanceOf[ProtocolFeeReserve]
         IN  /\ gav' > gav /\ paid > 0
             /\ highWaterMark' >= (highWaterMark * shares.totalSupply)
                                    \div (shares.totalSupply + paid)
    ]_vars

\* No fee, and no price that cannot be had, keeps a holder from redeeming all
\* of their shares in kind.
RedeemableDespiteFees ==
  \A holder \in Holders, external \in ExternalOutcomes :
    LET balance == shares.balanceOf[holder]
    IN  balance > 0 => Redemption(holder, balance, TRUE, FALSE, external, 0).ok
=============================================================================
