----------------------------- MODULE FundShares -----------------------------
(***************************************************************************)
(* The shares of one fund while one ComptrollerProxy is in force: buying,  *)
(* redeeming and transferring them, the timelock between a purchase and an *)
(* exit, the protocol fee paid in shares, and its buy-back in MLN.         *)
(*                                                                         *)
(* One action is one transaction.  The vault holds the denomination asset, *)
(* MLN, and external positions worth positionsValue; a price feed may fail *)
(* to answer.  The fund has no fee of its own: the hooks of the FeeManager *)
(* return at once, and the policies let everything pass.                   *)
(***************************************************************************)
EXTENDS SharesToken, FiniteSets

CONSTANTS
  Investors,              \* the accounts that hold shares
  ProtocolFeeReserve,     \* the account that collects the protocol fee
  BuySharesCallers,       \* those allowed to buy for others under a timelock
  SharesUnit,             \* SHARES_UNIT, one share
  DenominationAssetUnit,  \* one unit of the denomination asset
  MlnPrice,               \* MLN's price in the denomination asset
  SharesActionTimelock,   \* sharesActionTimelock of the ComptrollerProxy
  FeeBps, MaxBps,         \* getFeeBpsForVault, MAX_BPS
  SecondsInYear,          \* SECONDS_IN_YEAR
  Investments,            \* the amounts investors pay in
  AssetBalances,          \* the balances of the denomination asset, of MLN
  MlnBalances,            \*   and the values of external positions that
  PositionValues,         \*   managers and markets may bring about
  Percentages,            \* the percentages a redemption may specify
  MaxSupply,              \* bounds on the shares sold and on the assets
  MaxAssetBalance,        \*   that purchases bring into the vault
  MaxTime                 \* bound on block.timestamp

ASSUME AccountsAssumption ==
  ProtocolFeeReserve \notin Investors /\ IsFiniteSet(Investors)
ASSUME UnitsAssumption ==
  {SharesUnit, DenominationAssetUnit, MlnPrice, MaxBps, SecondsInYear}
    \subseteq Nat \ {0}
ASSUME FeeAssumption == FeeBps \in Nat /\ FeeBps < MaxBps
ASSUME AmountsAssumption ==
  /\ Investments \cup AssetBalances \cup MlnBalances \cup PositionValues
       \subseteq Nat
  /\ Percentages \subseteq 0..100
ASSUME BoundsAssumption ==
  /\ SharesActionTimelock \in Nat /\ MaxSupply \in Nat
  /\ MaxAssetBalance \in Nat /\ MaxTime \in Nat \ {0}

VARIABLES
  now,                              \* block.timestamp
  shares,                           \* the ERC20: balanceOf and totalSupply
  assetBalance,                     \* denomination asset held by the vault
  mlnBalance,                       \* MLN held by the vault
  positionsValue,                   \* value of the external positions
  unpriced,                         \* the prices no feed answers for
  lastPaid,                         \* of the vault, in the ProtocolFeeTracker
  autoProtocolFeeSharesBuyback,
  acctToLastSharesBoughtTimestamp,
  pendingRequest,                   \* of a migration or a reconfiguration
  requestedAt                       \* history: the time of that request

assetVars == <<assetBalance, mlnBalance, positionsValue>>
requestVars == <<pendingRequest, requestedAt>>
vars == <<now, shares, assetVars, unpriced, lastPaid,
          autoProtocolFeeSharesBuyback, acctToLastSharesBoughtTimestamp,
          requestVars>>

Accounts == Investors \cup {ProtocolFeeReserve}
Time == 1..MaxTime
SharesTokens == [balanceOf : [Accounts -> Nat], totalSupply : Nat]

TypeOK ==
  /\ now \in Time
  /\ shares \in SharesTokens
  /\ assetBalance \in Nat
  /\ mlnBalance \in Nat
  /\ positionsValue \in Nat
  /\ unpriced \subseteq {"MLN", "positions"}
  /\ lastPaid \in Time
  /\ autoProtocolFeeSharesBuyback \in BOOLEAN
  /\ acctToLastSharesBoughtTimestamp \in [Investors -> 0..MaxTime]
  /\ pendingRequest \in BOOLEAN
  /\ requestedAt \in 0..MaxTime

\* A new fund, activated and initialized (FundDeployer.createNewFund).
Init ==
  /\ now = 1
  /\ shares = [balanceOf |-> [a \in Accounts |-> 0], totalSupply |-> 0]
  /\ assetBalance = 0
  /\ mlnBalance = 0
  /\ positionsValue = 0
  /\ unpriced = {}
  /\ lastPaid = 1
  /\ autoProtocolFeeSharesBuyback = FALSE
  /\ acctToLastSharesBoughtTimestamp = [i \in Investors |-> 0]
  /\ pendingRequest = FALSE
  /\ requestedAt = 0

-----------------------------------------------------------------------------
(* Valuation. *)

\* calcGav asks for a price only of what is held.
GavAvailable ==
  /\ positionsValue > 0 => "positions" \notin unpriced
  /\ mlnBalance > 0 => "MLN" \notin unpriced

Gav == assetBalance + mlnBalance * MlnPrice + positionsValue

GrossShareValue(gav, supply) ==
  IF supply = 0 THEN DenominationAssetUnit
                ELSE (gav * SharesUnit) \div supply

-----------------------------------------------------------------------------
(* The protocol fee and its buy-back. *)

RawSharesDue(supply, secondsDue) ==
  ((supply * FeeBps * secondsDue) \div SecondsInYear) \div MaxBps

SharesDue(supply, secondsDue) ==
  LET raw == RawSharesDue(supply, secondsDue)
  IN  IF supply = raw THEN 0 ELSE (raw * supply) \div (supply - raw)

FeeDue ==
  IF lastPaid >= now THEN 0 ELSE SharesDue(shares.totalSupply, now - lastPaid)

\* payFee reverts when its subtraction would underflow.
FeePayable ==
  lastPaid < now =>
    RawSharesDue(shares.totalSupply, now - lastPaid) <= shares.totalSupply

FeePaid == Mint(shares, ProtocolFeeReserve, FeeDue)

\* [Mutant: the clock is only set when something was minted.]
PayFeeIfDue == lastPaid' = IF FeeDue > 0 THEN now ELSE lastPaid
PayFee == lastPaid' = IF lastPaid >= now THEN lastPaid ELSE now

BuybackValueInDenominationAsset(s, amount, gav) ==
  (GrossShareValue(gav, s.totalSupply) * amount) \div SharesUnit

\* The MLN to burn for an amount of the fee shares, at a discount of a half.
MlnToBurn(s, amount, gav) ==
  (BuybackValueInDenominationAsset(s, amount, gav) \div MlnPrice) \div 2

\* The conversion to MLN needs its price, except of nothing.
MlnConvertible(s, amount, gav) ==
  BuybackValueInDenominationAsset(s, amount, gav) > 0 => "MLN" \notin unpriced

\* __buyBackMaxProtocolFeeShares, with the shares s after the fee was paid:
\* failing for want of MLN it is caught, failing to convert to MLN it is not.
MaxBuyback(s, gav) ==
  LET amount == s.balanceOf[ProtocolFeeReserve]
      mln == MlnToBurn(s, amount, gav)
  IN  IF /\ autoProtocolFeeSharesBuyback
         /\ mln \in 1..mlnBalance
         /\ Burnable(s, ProtocolFeeReserve, amount)
        THEN [shares |-> Burn(s, ProtocolFeeReserve, amount), mln |-> mln]
        ELSE [shares |-> s, mln |-> 0]

\* [Mutant: the fund has to be valued, whatever the fee takes.]
CanCollectFeeOfValuedFund(gav) ==
  /\ FeePayable
  /\ autoProtocolFeeSharesBuyback =>
       /\ GavAvailable
       /\ MlnConvertible(FeePaid, FeePaid.balanceOf[ProtocolFeeReserve], gav)
CanCollectFee(gav) ==
  /\ FeePayable
  /\ autoProtocolFeeSharesBuyback =>
       MlnConvertible(FeePaid, FeePaid.balanceOf[ProtocolFeeReserve], gav)

\* The shares after the fee was paid and bought back, and the MLN burned.
Collected(gav) == MaxBuyback(FeePaid, gav)

-----------------------------------------------------------------------------
(* Buying shares. *)

\* [Mutant: purchases go on while a request is pending.]
MayAlwaysBuy(caller, buyer) ==
  caller = buyer \/ SharesActionTimelock = 0 \/ caller \in BuySharesCallers
MayBuy(caller, buyer) ==
  /\ caller = buyer \/ SharesActionTimelock = 0 \/ caller \in BuySharesCallers
  /\ SharesActionTimelock > 0 => ~pendingRequest

\* The fund is valued once, before the fee is paid and bought back.
\* [Mutant: rounded up.]
SharesIssuedRoundedUp(investment, gav, s) ==
  (investment * SharesUnit) \div GrossShareValue(gav, s.totalSupply) + 1
SharesIssued(investment, gav, s) ==
  (investment * SharesUnit) \div GrossShareValue(gav, s.totalSupply)

\* ComptrollerLib.buyShares and buySharesOnBehalf.  _minSharesQuantity, at
\* least 1, rejects a purchase that issues nothing.
BuyShares(caller, buyer, investment) ==
  LET after == Collected(Gav)
      issued == SharesIssued(investment, Gav, after.shares)
  IN
  /\ MayBuy(caller, buyer)
  /\ GavAvailable
  /\ CanCollectFee(Gav)
  /\ GrossShareValue(Gav, after.shares.totalSupply) > 0
  /\ issued > 0
  /\ after.shares.totalSupply + issued <= MaxSupply
  /\ assetBalance + investment <= MaxAssetBalance
  /\ shares' = Mint(after.shares, buyer, issued)
  /\ PayFee
  /\ assetBalance' = assetBalance + investment
  /\ mlnBalance' = mlnBalance - after.mln
  /\ acctToLastSharesBoughtTimestamp' =
       IF SharesActionTimelock > 0
         THEN [acctToLastSharesBoughtTimestamp EXCEPT ![buyer] = now]
         ELSE acctToLastSharesBoughtTimestamp
  /\ UNCHANGED <<now, positionsValue, unpriced, requestVars,
                 autoProtocolFeeSharesBuyback>>

-----------------------------------------------------------------------------
(* Leaving the fund. *)

SharesActionNotTimelocked(account) ==
  \/ acctToLastSharesBoughtTimestamp[account] = 0
  \/ now - acctToLastSharesBoughtTimestamp[account] >= SharesActionTimelock
  \/ pendingRequest

\* What __redeemSharesSetup requires of a redemption, and what it does to the
\* shares, before anything is paid out.
CanRedeem(redeemer, quantity, gav) ==
  /\ SharesActionNotTimelocked(redeemer)
  /\ quantity \in 1..shares.balanceOf[redeemer]
  /\ CanCollectFee(gav)
  /\ Burnable(Collected(gav).shares, redeemer, quantity)

RedeemSetup(redeemer, quantity, gav) ==
  /\ CanRedeem(redeemer, quantity, gav)
  /\ shares' = Burn(Collected(gav).shares, redeemer, quantity)
  /\ PayFee

\* redeemSharesForSpecificAssets: percentages of the value owed in the
\* denomination asset and in MLN, what is missing to 100 being forfeited.
RedeemSharesForSpecificAssets(redeemer, quantity, inAsset, inMln) ==
  LET after == Collected(Gav)
      owed == (Gav * quantity) \div after.shares.totalSupply
      asset == (owed * inAsset) \div 100
      mln == ((owed * inMln) \div 100) \div MlnPrice
  IN
  /\ inAsset + inMln <= 100
  /\ GavAvailable
  /\ RedeemSetup(redeemer, quantity, Gav)
  /\ inAsset > 0 => asset \in 1..assetBalance
  /\ inMln > 0 => mln \in 1..(mlnBalance - after.mln) /\ "MLN" \notin unpriced
  /\ assetBalance' = assetBalance - asset
  /\ mlnBalance' = mlnBalance - after.mln - mln
  /\ UNCHANGED <<now, positionsValue, unpriced, requestVars,
                 autoProtocolFeeSharesBuyback, acctToLastSharesBoughtTimestamp>>

\* The GAV that an in-kind redemption needs for the buy-back; that it cannot
\* be calculated does not matter.
GavOrZero ==
  IF autoProtocolFeeSharesBuyback /\ GavAvailable THEN Gav ELSE 0

InKind(balance, quantity, supply) == (balance * quantity) \div supply

\* redeemSharesInKind: a slice of every asset not skipped.
RedeemSharesInKind(redeemer, quantity, skipped) ==
  LET after == Collected(GavOrZero)
      slice(balance) == InKind(balance, quantity, after.shares.totalSupply)
      mlnLeft == mlnBalance - after.mln
  IN
  /\ RedeemSetup(redeemer, quantity, GavOrZero)
  /\ assetBalance' = IF "asset" \in skipped THEN assetBalance
                                   ELSE assetBalance - slice(assetBalance)
  /\ mlnBalance' = IF "MLN" \in skipped THEN mlnLeft
                                        ELSE mlnLeft - slice(mlnLeft)
  /\ UNCHANGED <<now, positionsValue, unpriced, requestVars,
                 autoProtocolFeeSharesBuyback, acctToLastSharesBoughtTimestamp>>

\* VaultLib.transfer and transferFrom, freely transferable or not.
TransferShares(sender, recipient, amount) ==
  /\ SharesActionNotTimelocked(sender)
  /\ amount \in 1..shares.balanceOf[sender]
  /\ shares' = Transfer(shares, sender, recipient, amount)
  /\ UNCHANGED <<now, assetVars, unpriced, lastPaid, requestVars,
                 autoProtocolFeeSharesBuyback, acctToLastSharesBoughtTimestamp>>

-----------------------------------------------------------------------------
(* The managers. *)

\* A buy-back that would burn no MLN does nothing.
BuyBackProtocolFeeShares(amount) ==
  LET mln == MlnToBurn(shares, amount, Gav)
  IN
  /\ GavAvailable
  /\ MlnConvertible(shares, amount, Gav)
  /\ mln \in 1..mlnBalance
  /\ Burnable(shares, ProtocolFeeReserve, amount)
  /\ shares' = Burn(shares, ProtocolFeeReserve, amount)
  /\ mlnBalance' = mlnBalance - mln
  /\ UNCHANGED <<now, assetBalance, positionsValue, unpriced, lastPaid,
                 requestVars, autoProtocolFeeSharesBuyback,
                 acctToLastSharesBoughtTimestamp>>

SetAutoProtocolFeeSharesBuyback(next) ==
  /\ autoProtocolFeeSharesBuyback # next
  /\ autoProtocolFeeSharesBuyback' = next
  /\ UNCHANGED <<now, shares, assetVars, unpriced, lastPaid, requestVars,
                 acctToLastSharesBoughtTimestamp>>

\* Managers trade and markets move: the vault's assets become anything.
ManageAssets(asset, mln, positions) ==
  /\ assetBalance' = asset
  /\ mlnBalance' = mln
  /\ positionsValue' = positions
  /\ UNCHANGED <<now, shares, unpriced, lastPaid, requestVars,
                 autoProtocolFeeSharesBuyback, acctToLastSharesBoughtTimestamp>>

\* Price feeds fail and recover.
PricesChange(missing) ==
  /\ unpriced' = missing
  /\ UNCHANGED <<now, shares, assetVars, lastPaid, requestVars,
                 autoProtocolFeeSharesBuyback, acctToLastSharesBoughtTimestamp>>

\* A migration or a reconfiguration is requested; a request is cancelled.
\* (Executing one ends the life of this ComptrollerProxy.)
Request ==
  /\ pendingRequest' = TRUE
  /\ requestedAt' = now
  /\ UNCHANGED <<now, shares, assetVars, unpriced, lastPaid,
                 autoProtocolFeeSharesBuyback, acctToLastSharesBoughtTimestamp>>

CancelRequest ==
  /\ pendingRequest
  /\ pendingRequest' = FALSE
  /\ requestedAt' = 0
  /\ UNCHANGED <<now, shares, assetVars, unpriced, lastPaid,
                 autoProtocolFeeSharesBuyback, acctToLastSharesBoughtTimestamp>>

Tick ==
  /\ now < MaxTime
  /\ now' = now + 1
  /\ UNCHANGED <<shares, assetVars, unpriced, lastPaid, requestVars,
                 autoProtocolFeeSharesBuyback, acctToLastSharesBoughtTimestamp>>

Invest ==
  \E caller, buyer \in Investors, investment \in Investments :
    BuyShares(caller, buyer, investment)

Leave ==
  \E investor \in Investors :
    \E quantity \in 1..shares.balanceOf[investor] :
      \/ \E inAsset, inMln \in Percentages :
           RedeemSharesForSpecificAssets(investor, quantity, inAsset, inMln)
      \/ \E skipped \in SUBSET {"asset", "MLN"} :
           RedeemSharesInKind(investor, quantity, skipped)
      \/ \E recipient \in Accounts :
           TransferShares(investor, recipient, quantity)

Manage ==
  \/ \E amount \in 1..shares.balanceOf[ProtocolFeeReserve] :
       BuyBackProtocolFeeShares(amount)
  \/ \E next \in BOOLEAN : SetAutoProtocolFeeSharesBuyback(next)
  \/ \E asset \in AssetBalances, mln \in MlnBalances,
        positions \in PositionValues : ManageAssets(asset, mln, positions)

Next ==
  \/ Invest
  \/ Leave
  \/ Manage
  \/ \E missing \in SUBSET {"MLN", "positions"} : PricesChange(missing)
  \/ Request
  \/ CancelRequest
  \/ Tick

Spec == Init /\ [][Next]_vars

-----------------------------------------------------------------------------
(* Properties. *)

\* The fee shares minted by the step.
FeeMinted == IF lastPaid' = lastPaid THEN 0 ELSE FeeDue

\* A redemption for specific assets values the fund before it buys back fee
\* shares, and so still counts the MLN that the buy-back burns.
BurnedButCounted ==
  IF \E investor \in Investors, inAsset, inMln \in Percentages :
       \E quantity \in 1..shares.balanceOf[investor] :
         RedeemSharesForSpecificAssets(investor, quantity, inAsset, inMln)
    THEN Collected(Gav).mln * MlnPrice
    ELSE 0

\* Nobody's purchase, redemption, transfer or buy-back takes value from the
\* shares of the others: whatever is rounded, and in whatever order fee,
\* buy-back, issue and payout happen, while investors hold shares the gross
\* share value does not fall below what the minted fee shares left of it,
\* but for MLN that a redemption for specific assets burned and counted.
SharePriceNeverFalls ==
  [][ /\ shares'.balanceOf # shares.balanceOf
      /\ shares.totalSupply > shares.balanceOf[ProtocolFeeReserve]
      /\ shares'.totalSupply > 0
      => GrossShareValue(Gav' + BurnedButCounted, shares'.totalSupply) >=
           GrossShareValue(Gav, shares.totalSupply + FeeMinted)
    ]_vars

\* Nobody leaves, by redemption or by transfer, within the timelock of a
\* purchase, but to avoid a migration or a reconfiguration requested after
\* that purchase: a pending request opens no way in and out again.
NoEarlyExit ==
  [][ \A i \in Investors :
        LET bought == acctToLastSharesBoughtTimestamp[i]
        IN  /\ shares'.balanceOf[i] < shares.balanceOf[i]
            /\ bought > 0
            /\ now - bought < SharesActionTimelock
            => pendingRequest /\ requestedAt >= bought
    ]_vars

\* The supply changes hands with the investors only once the protocol fee is
\* paid on it: no share is charged for a time before it was issued, and none
\* leaves without the fee for the time it was held.
SupplyChangesPayTheFee ==
  [][ /\ shares'.totalSupply # shares.totalSupply
      /\ \E i \in Investors : shares'.balanceOf[i] # shares.balanceOf[i]
      => lastPaid' = now
    ]_vars

\* Whoever is not timelocked can redeem all shares in kind, whatever price is
\* missing, except MLN's while the fee shares are bought back automatically:
\* the fee stays payable, and fee and buy-back leave the shares to burn.
\* (Nothing else can stop RedeemSharesInKind: the payout only divides.)
RedeemableInKind ==
  \A i \in Investors :
    /\ shares.balanceOf[i] > 0
    /\ SharesActionNotTimelocked(i)
    /\ autoProtocolFeeSharesBuyback => "MLN" \notin unpriced
    => CanRedeem(i, shares.balanceOf[i], GavOrZero)

==============================================================================
