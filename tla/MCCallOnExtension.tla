-------------------------- MODULE MCCallOnExtension --------------------------
(* Instances of CallOnExtension small enough for TLC. *)
EXTENDS CallOnExtension, TLC

CONSTANTS usd, mln, shares, first, second

Amt(a, n) == [asset |-> a, amount |-> n]
Trade(type, spend, incoming) ==
  [spendAssetsHandleType |-> type, spendAssets |-> spend, incomingAssets |-> incoming]

\* A swap, a stake, a swap with a fee in the asset bought, a deposit, a transfer
\* of one asset in two parts (refused), a delegated exchange and a claim.
Trades ==
  {Trade("Approve", <<Amt(usd, 2)>>, <<Amt(mln, 1)>>),
   Trade("Approve", <<Amt(mln, 1)>>, <<>>),
   Trade("Transfer", <<Amt(usd, 1), Amt(mln, 1)>>, <<Amt(mln, 1)>>),
   Trade("Transfer", <<Amt(usd, 1)>>, <<>>),
   Trade("Transfer", <<Amt(usd, 1), Amt(usd, 1)>>, <<>>),
   Trade("None", <<Amt(usd, 1)>>, <<Amt(mln, 0)>>),
   Trade("None", <<>>, <<Amt(usd, 0)>>)}

\* Trades in the fund's own shares.
ShareTrades ==
  {Trade("Approve", <<Amt(shares, 1)>>, <<>>),
   Trade("Transfer", <<Amt(shares, 1)>>, <<>>)}

\* A deposit, a withdrawal, and a deposit of two amounts that claims rewards.
PositionCalls ==
  {[assetsToTransfer |-> <<Amt(usd, 1)>>, assetsToReceive |-> {}],
   [assetsToTransfer |-> <<>>, assetsToReceive |-> {usd}],
   [assetsToTransfer |-> <<Amt(usd, 1), Amt(usd, 1)>>, assetsToReceive |-> {mln}],
   [assetsToTransfer |-> <<Amt(shares, 1)>>, assetsToReceive |-> {}]}

NoActions == {}
Denominations == (first :> usd) @@ (second :> mln)
TradeBalances == (usd :> 2) @@ (mln :> 2) @@ (shares :> 0)
PositionBalances == (usd :> 2) @@ (mln :> 1) @@ (shares :> 1)
PositionSymmetry == Permutations(Positions)
=============================================================================
