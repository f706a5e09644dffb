--------------------------- MODULE FundFees_proofs ---------------------------
(***************************************************************************)
(* Theorems about the properties of FundFees, for every list of fees and   *)
(* all values, supplies, marks, rates and units, and their proofs.         *)
(*                                                                         *)
(* First the amounts of one settlement, then what a fee, a list of fees, a *)
(* hook and a transaction make of the fund.  A list of fees is settled by  *)
(* a recursive function; what holds after all fees is shown by induction   *)
(* over the fees settled so far.                                           *)
(***************************************************************************)
EXTENDS FundFees, Arithmetic, TLAPS

\* The units are positive, the rate is one of at most all profit.
LEMMA Constants ==
  /\ SharesUnit \in Nat /\ SharesUnit > 0
  /\ OneHundredPercent \in Nat /\ OneHundredPercent > 0
  /\ PerformanceRate \in Nat /\ PerformanceRate <= OneHundredPercent
  BY UnitsAssumption, RatesAssumption

\* What the fee takes, in value, is at most what lies above the mark.
LEMMA RawValueFacts ==
  ASSUME NEW value \in Nat, NEW supply \in Nat, NEW mark \in Nat,
         AboveMark(value, supply, mark)
  PROVE  /\ RawValueDue(value, supply, mark) \in Nat
         /\ RawValueDue(value, supply, mark) <= value
         /\ mark * supply
              <= (value - RawValueDue(value, supply, mark)) * SharesUnit
<1> DEFINE price == GrossShareValue(value, supply)
           profit == (price - mark) * supply
           part == (profit * PerformanceRate) \div OneHundredPercent
           raw == RawValueDue(value, supply, mark)
<1>1. supply > 0
  BY DEF AboveMark
<1>2. value * SharesUnit \in Nat
  BY Constants, SMT
<1>3. price \in Nat /\ supply * price <= value * SharesUnit
  BY <1>1, <1>2, DivFacts DEF GrossShareValue
<1>4. price > mark
  BY DEF AboveMark
<1>5. price - mark \in Nat /\ profit \in Nat
  <2>1. price - mark \in Nat
    BY <1>3, <1>4, SMT
  <2> QED
    BY <2>1, SMT
<1>6. profit = supply * price - mark * supply
  BY <1>3, SMT
<1>7. raw = part \div SharesUnit
  BY DEF RawValueDue
<1> HIDE DEF price, profit, raw
<1>8. part \in Nat /\ part <= profit
  <2>1. profit * PerformanceRate \in Nat
    BY <1>5, Constants, SMT
  <2>2. part \in Nat /\ OneHundredPercent * part <= profit * PerformanceRate
    BY <2>1, Constants, DivFacts
  <2>3. profit * PerformanceRate <= profit * OneHundredPercent
    <3>1. PerformanceRate * profit <= OneHundredPercent * profit
      BY <1>5, Constants, Products
    <3>2. /\ PerformanceRate * profit = profit * PerformanceRate
          /\ OneHundredPercent * profit = profit * OneHundredPercent
      BY <1>5, Constants, SMT
    <3> QED
      BY <3>1, <3>2
  <2> HIDE DEF part
  <2>4. OneHundredPercent * part = part * OneHundredPercent
    BY <2>2, Constants, SMT
  <2>5. part * OneHundredPercent <= profit * OneHundredPercent
    <3>1. /\ part * OneHundredPercent \in Nat
          /\ profit * OneHundredPercent \in Nat
      BY <2>2, <1>5, Constants, SMT
    <3> QED
      BY <2>1, <2>2, <2>3, <2>4, <3>1, SMT
  <2> QED
    BY <2>2, <2>5, <1>5, Constants, Cancel
<1> HIDE DEF part
<1>9. raw \in Nat /\ SharesUnit * raw <= part
  BY <1>7, <1>8, Constants, DivFacts
<1>10. raw * SharesUnit <= value * SharesUnit - mark * supply
  <2>1. SharesUnit * raw = raw * SharesUnit /\ raw * SharesUnit \in Nat
    BY <1>9, Constants, SMT
  <2>2. supply * price \in Nat /\ mark * supply \in Nat
    BY <1>3, SMT
  <2> QED
    BY <2>1, <2>2, <1>2, <1>3, <1>5, <1>6, <1>8, <1>9, SMT
<1>11. raw <= value
  <2>1. mark * supply \in Nat /\ raw * SharesUnit \in Nat
    BY <1>9, Constants, SMT
  <2>2. raw * SharesUnit <= value * SharesUnit
    BY <2>1, <1>2, <1>10, SMT
  <2> QED
    BY <2>2, <1>9, Constants, Cancel
<1>12. (value - raw) * SharesUnit = value * SharesUnit - raw * SharesUnit
  BY <1>9, Constants, SMT
<1>13. mark * supply <= (value - raw) * SharesUnit
  <2>1. mark * supply \in Nat /\ raw * SharesUnit \in Nat
    BY <1>9, Constants, SMT
  <2> QED
    BY <2>1, <1>2, <1>10, <1>12, SMT
<1> QED
  BY <1>9, <1>11, <1>13 DEF raw

\* The shares due, times what is left of the value, fit into the value due
\* times the supply.
LEMMA SharesDueFacts ==
  ASSUME NEW value \in Nat, NEW supply \in Nat, NEW mark \in Nat,
         AboveMark(value, supply, mark),
         ~PerformanceReverts(value, supply, mark)
  PROVE  LET raw == RawValueDue(value, supply, mark)
             due == PerformanceSharesDue(value, supply, mark)
         IN  /\ raw \in Nat /\ raw < value /\ due \in Nat
             /\ (value - raw) * due <= raw * supply
<1> DEFINE raw == RawValueDue(value, supply, mark)
<1>1. raw \in Nat /\ raw <= value
  BY RawValueFacts
<1>2. raw # value
  BY DEF PerformanceReverts
<1>3. PerformanceSharesDue(value, supply, mark)
        = (raw * supply) \div (value - raw)
  BY DEF PerformanceSharesDue
<1> HIDE DEF raw
<1>4. raw < value /\ value - raw \in Nat /\ value - raw > 0
  BY <1>1, <1>2, SMT
<1>5. raw * supply \in Nat
  BY <1>1, SMT
<1>6. /\ (raw * supply) \div (value - raw) \in Nat
      /\ (value - raw) * ((raw * supply) \div (value - raw)) <= raw * supply
  BY <1>4, <1>5, DivFacts
<1> QED
  BY <1>1, <1>3, <1>4, <1>6 DEF raw

-----------------------------------------------------------------------------
\* The performance fee never takes the share price below the high-water mark
\* above which it charges: after its shares are minted, the price, floored,
\* is still at least the mark.  So when update() resets the mark to that
\* price the mark does not fall (PerformanceFee.__calcSharesDue).
THEOREM PerformanceFeeKeepsMark ==
  ASSUME NEW value \in Nat, NEW supply \in Nat, NEW mark \in Nat,
         AboveMark(value, supply, mark),
         ~PerformanceReverts(value, supply, mark)
  PROVE  GrossShareValue(value,
                         supply + PerformanceSharesDue(value, supply, mark))
           >= mark
<1> DEFINE raw == RawValueDue(value, supply, mark)
           due == PerformanceSharesDue(value, supply, mark)
           left == value - raw
           total == supply + due
<1>1. /\ raw \in Nat /\ raw < value /\ due \in Nat
      /\ left * due <= raw * supply
  BY SharesDueFacts
<1>2. mark * supply <= left * SharesUnit
  BY RawValueFacts
<1>3. supply > 0
  BY DEF AboveMark
<1> HIDE DEF raw, due
<1>4. left \in Nat /\ left > 0 /\ total \in Nat /\ total > 0
  BY <1>1, <1>3, SMT
\* The supply grows by no more than the value would have to.
<1>5. left * total <= value * supply
  <2>1. left * total = left * supply + left * due
    BY <1>1, <1>4, SMT
  <2>2. left * supply = value * supply - raw * supply
    BY <1>1, SMT
  <2>3. left * supply \in Nat /\ value * supply \in Nat /\ raw * supply \in Nat
    BY <1>1, <1>4, SMT
  <2>4. left * due \in Nat
    BY <1>1, <1>4, SMT
  <2> HIDE DEF left, total
  <2> QED
    BY <2>1, <2>2, <2>3, <2>4, <1>1, SMT
<1> HIDE DEF left, total
<1>6. (left * total) * mark <= (value * supply) * mark
  <2>1. left * total \in Nat /\ value * supply \in Nat
    BY <1>4, SMT
  <2> QED
    BY <2>1, <1>5, Products
<1>7. (mark * supply) * value <= (left * SharesUnit) * value
  <2>1. mark * supply \in Nat /\ left * SharesUnit \in Nat
    BY <1>4, Constants, SMT
  <2> QED
    BY <2>1, <1>2, Products
<1>8. (total * mark) * left <= (value * SharesUnit) * left
  <2>1. (left * total) * mark = (total * mark) * left
    BY <1>4, SMT
  <2>2. (value * supply) * mark = (mark * supply) * value
    BY SMT
  <2>3. (left * SharesUnit) * value = (value * SharesUnit) * left
    BY <1>4, Constants, SMT
  <2>4. /\ (total * mark) * left \in Nat
        /\ (mark * supply) * value \in Nat
        /\ (value * SharesUnit) * left \in Nat
    <3>1. total * mark \in Nat /\ mark * supply \in Nat /\ value * SharesUnit \in Nat
      BY <1>4, Constants, SMT
    <3> QED
      BY <3>1, <1>4, SMT
  <2> QED
    BY <1>6, <1>7, <2>1, <2>2, <2>3, <2>4, SMT
<1>9. total * mark \in Nat /\ value * SharesUnit \in Nat
  BY <1>4, Constants, SMT
<1>10. total * mark <= value * SharesUnit
  BY <1>4, <1>8, <1>9, Cancel
<1>11. mark <= (value * SharesUnit) \div total
  BY <1>4, <1>9, <1>10, DivLargest
<1>12. GrossShareValue(value, total) = (value * SharesUnit) \div total
  BY <1>4 DEF GrossShareValue
<1>13. (value * SharesUnit) \div total \in Nat
  BY <1>4, <1>9, DivFacts
<1>14. GrossShareValue(value, total) >= mark
  BY <1>11, <1>12, <1>13, SMT
<1> QED
  BY <1>14 DEF total, due

\* The shares of the performance fee are worth no more than the value due:
\* their part of the fund, after they are minted, times the fund's value is
\* at most the rate's part of the profit, inflation included
\* (PerformanceFee.__calcSharesDue).
THEOREM PerformanceFeeWorthItsDue ==
  ASSUME NEW value \in Nat, NEW supply \in Nat, NEW mark \in Nat,
         AboveMark(value, supply, mark),
         ~PerformanceReverts(value, supply, mark)
  PROVE  LET raw == RawValueDue(value, supply, mark)
             due == PerformanceSharesDue(value, supply, mark)
         IN  value * due <= raw * (supply + due)
<1> DEFINE raw == RawValueDue(value, supply, mark)
           due == PerformanceSharesDue(value, supply, mark)
<1>1. /\ raw \in Nat /\ raw < value /\ due \in Nat
      /\ (value - raw) * due <= raw * supply
  BY SharesDueFacts
<1> HIDE DEF raw, due
<1>2. (value - raw) * due = value * due - raw * due
  BY <1>1, SMT
<1>3. raw * (supply + due) = raw * supply + raw * due
  BY <1>1, SMT
<1>4. value * due \in Nat /\ raw * due \in Nat /\ raw * supply \in Nat
  BY <1>1, SMT
<1>5. value * due <= raw * (supply + due)
  BY <1>1, <1>2, <1>3, <1>4, SMT
<1> QED
  BY <1>5 DEF raw, due

-----------------------------------------------------------------------------
(* The shares token: its balances add up to its supply. *)

SharesTokens == [balanceOf : [Accounts -> Nat], totalSupply : Nat]

AddsUp(token) == SumOver(token.balanceOf, Accounts) = token.totalSupply

Token(token) == token \in SharesTokens /\ AddsUp(token)

LEMMA AccountsFinite == IsFiniteSet(Accounts)
<1>1. IsFiniteSet(Investors)
  BY AccountsAssumption
<1>2. Accounts = ((((Investors \cup {FeeRecipient}) \cup {Owner}) \cup {VaultProxy})
                    \cup {ProtocolFeeReserve}) \cup {LockedSharesAddress}
  BY DEF Accounts, Holders
<1>3. \A S, x : IsFiniteSet(S) => IsFiniteSet(S \cup {x})
  BY FS_AddElement
<1> QED
  BY <1>1, <1>2, <1>3

\* One balance changes, and the sum with it.
LEMMA BalanceChange ==
  ASSUME NEW f \in [Accounts -> Nat], NEW g \in [Accounts -> Nat],
         NEW a \in Accounts, \A x \in Accounts \ {a} : g[x] = f[x]
  PROVE  /\ SumOver(f, Accounts) \in Nat
         /\ SumOver(g, Accounts) = SumOver(f, Accounts) - f[a] + g[a]
  BY AccountsFinite, SumChange

\* No balance, and no two balances together, exceed the supply.
LEMMA WithinSupply ==
  ASSUME NEW token, Token(token), NEW a \in Accounts
  PROVE  /\ token.balanceOf[a] \in Nat /\ token.totalSupply \in Nat
         /\ token.balanceOf[a] <= token.totalSupply
         /\ \A b \in Accounts \ {a} :
              token.balanceOf[a] + token.balanceOf[b] <= token.totalSupply
<1> DEFINE f == token.balanceOf
<1>1. f \in [Accounts -> Nat] /\ token.totalSupply \in Nat
      /\ SumOver(f, Accounts) = token.totalSupply
  BY DEF Token, SharesTokens, AddsUp
<1> HIDE DEF f
<1>2. f[a] \in Nat
  BY <1>1
<1>3. /\ f[a] <= token.totalSupply
      /\ \A b \in Accounts \ {a} : f[a] + f[b] <= token.totalSupply
  BY <1>1, AccountsFinite, SumCovers
<1> QED
  BY <1>1, <1>2, <1>3 DEF f

\* Minting, burning and transferring within a balance keep a token one.
LEMMA MintFacts ==
  ASSUME NEW token, Token(token), NEW a \in Accounts, NEW n \in Nat
  PROVE  LET minted == Mint(token, a, n) IN
         /\ Token(minted)
         /\ minted.totalSupply = token.totalSupply + n
         /\ minted.balanceOf[a] = token.balanceOf[a] + n
         /\ \A b \in Accounts \ {a} : minted.balanceOf[b] = token.balanceOf[b]
<1> DEFINE f == token.balanceOf
           g == [f EXCEPT ![a] = f[a] + n]
<1>1. f \in [Accounts -> Nat] /\ token.totalSupply \in Nat
      /\ SumOver(f, Accounts) = token.totalSupply
  BY DEF Token, SharesTokens, AddsUp
<1>2. Mint(token, a, n) = [balanceOf |-> g, totalSupply |-> token.totalSupply + n]
  BY DEF Mint
<1> HIDE DEF f
<1>3. f[a] \in Nat /\ f[a] + n \in Nat
  BY <1>1
<1>4. g \in [Accounts -> Nat]
  BY <1>1, <1>3
<1>5. g[a] = f[a] + n /\ \A b \in Accounts \ {a} : g[b] = f[b]
  BY <1>1
<1> HIDE DEF g
<1>50. SumOver(g, Accounts) = SumOver(f, Accounts) - f[a] + g[a]
  BY <1>1, <1>4, <1>5, BalanceChange
<1>6. SumOver(g, Accounts) = token.totalSupply + n /\ token.totalSupply + n \in Nat
  BY <1>1, <1>3, <1>5, <1>50, SMT
<1>7. Token([balanceOf |-> g, totalSupply |-> token.totalSupply + n])
  BY <1>4, <1>6 DEF Token, SharesTokens, AddsUp
<1> QED
  BY <1>2, <1>5, <1>7 DEF f

LEMMA BurnFacts ==
  ASSUME NEW token, Token(token), NEW a \in Accounts, NEW n \in Nat,
         n <= token.balanceOf[a]
  PROVE  LET burned == Burn(token, a, n) IN
         /\ Token(burned) /\ n <= token.totalSupply
         /\ burned.totalSupply = token.totalSupply - n
         /\ burned.balanceOf[a] = token.balanceOf[a] - n
         /\ \A b \in Accounts \ {a} : burned.balanceOf[b] = token.balanceOf[b]
<1> DEFINE f == token.balanceOf
           g == [f EXCEPT ![a] = f[a] - n]
<1>1. f \in [Accounts -> Nat] /\ token.totalSupply \in Nat
      /\ SumOver(f, Accounts) = token.totalSupply
  BY DEF Token, SharesTokens, AddsUp
<1>2. Burn(token, a, n) = [balanceOf |-> g, totalSupply |-> token.totalSupply - n]
  BY DEF Burn
<1>0. n <= f[a] /\ f[a] <= token.totalSupply
  BY WithinSupply
<1> HIDE DEF f
<1>3. f[a] \in Nat /\ f[a] - n \in Nat
  BY <1>0, <1>1
<1>4. g \in [Accounts -> Nat]
  BY <1>1, <1>3
<1>5. g[a] = f[a] - n /\ \A b \in Accounts \ {a} : g[b] = f[b]
  BY <1>1
<1> HIDE DEF g
<1>50. SumOver(g, Accounts) = SumOver(f, Accounts) - f[a] + g[a]
  BY <1>1, <1>4, <1>5, BalanceChange
<1>6. /\ SumOver(g, Accounts) = token.totalSupply - n
      /\ token.totalSupply - n \in Nat /\ n <= token.totalSupply
  BY <1>0, <1>1, <1>3, <1>5, <1>50, SMT
<1>7. Token([balanceOf |-> g, totalSupply |-> token.totalSupply - n])
  BY <1>4, <1>6 DEF Token, SharesTokens, AddsUp
<1> QED
  BY <1>2, <1>5, <1>6, <1>7 DEF f

LEMMA TransferFacts ==
  ASSUME NEW token, Token(token), NEW a \in Accounts, NEW c \in Accounts,
         NEW n \in Nat, n <= token.balanceOf[a]
  PROVE  LET moved == Transfer(token, a, c, n) IN
         /\ Token(moved)
         /\ moved.totalSupply = token.totalSupply
         /\ moved.balanceOf[a] >= token.balanceOf[a] - n
         /\ moved.balanceOf[a] <= token.balanceOf[a]
         /\ \A b \in Accounts \ {a} : moved.balanceOf[b] >= token.balanceOf[b]
         /\ \A b \in Accounts \ {a, c} : moved.balanceOf[b] = token.balanceOf[b]
<1> DEFINE f == token.balanceOf
           d == [f EXCEPT ![a] = f[a] - n]
           g == [d EXCEPT ![c] = d[c] + n]
<1>1. f \in [Accounts -> Nat] /\ token.totalSupply \in Nat
      /\ SumOver(f, Accounts) = token.totalSupply
  BY DEF Token, SharesTokens, AddsUp
<1>2. Transfer(token, a, c, n) = [balanceOf |-> g, totalSupply |-> token.totalSupply]
  BY DEF Transfer
<1>0. n <= f[a]
  OBVIOUS
<1> HIDE DEF f
<1>3. f[a] \in Nat /\ f[a] - n \in Nat
  BY <1>0, <1>1
<1>4. d \in [Accounts -> Nat]
  BY <1>1, <1>3
<1>5. d[a] = f[a] - n /\ \A b \in Accounts \ {a} : d[b] = f[b]
  BY <1>1
<1> HIDE DEF d
<1>50. SumOver(d, Accounts) = SumOver(f, Accounts) - f[a] + d[a]
  BY <1>1, <1>4, <1>5, BalanceChange
<1>6. d[c] \in Nat /\ d[c] + n \in Nat
  BY <1>4
<1>7. g \in [Accounts -> Nat]
  BY <1>4, <1>6
<1>8. g[c] = d[c] + n /\ \A b \in Accounts \ {c} : g[b] = d[b]
  BY <1>4
<1> HIDE DEF g
<1>80. SumOver(g, Accounts) = SumOver(d, Accounts) - d[c] + g[c]
  BY <1>4, <1>7, <1>8, BalanceChange
<1>9. SumOver(g, Accounts) = token.totalSupply
  BY <1>1, <1>3, <1>5, <1>6, <1>8, <1>50, <1>80, SMT
<1>10. Token([balanceOf |-> g, totalSupply |-> token.totalSupply])
  BY <1>1, <1>7, <1>9 DEF Token, SharesTokens, AddsUp
<1>11. \A b \in Accounts : d[b] \in Nat /\ f[b] \in Nat /\ g[b] >= d[b]
  BY <1>1, <1>4, <1>8
<1>12. /\ g[a] >= f[a] - n /\ g[a] <= f[a]
       /\ \A b \in Accounts \ {a} : g[b] >= f[b]
       /\ \A b \in Accounts \ {a, c} : g[b] = f[b]
  BY <1>0, <1>3, <1>5, <1>8, <1>11
<1> QED
  BY <1>2, <1>10, <1>12 DEF f

-----------------------------------------------------------------------------
(* The settlement of one fee. *)

\* The fund within a transaction: its shares add up, the mark is flagged only
\* for a PerformanceFee that is there, and the vault holds the shares that are
\* outstanding.
Funds ==
  [shares : SharesTokens, gav : Nat, highWaterMark : Nat \cup {ResetHwmFlag},
   lastSettled : 0..now, sharesOutstanding : Nat, ok : BOOLEAN]

Sound(s) ==
  /\ s \in Funds
  /\ AddsUp(s.shares)
  /\ s.highWaterMark = ResetHwmFlag => Enabled("Performance")
  /\ s.sharesOutstanding <= s.shares.balanceOf[VaultProxy]

\* The shares that others than the vault hold.
Net(token) == token.totalSupply - token.balanceOf[VaultProxy]

\* What the hooks of purchases and redemptions are given.
DataFor(hook, d) ==
  /\ hook \in {"PostBuyShares", "PreRedeemShares"} =>
       d.payer \in Holders /\ d.quantity \in Nat
  /\ hook = "PreRedeemShares" => d.forSpecificAssets \in BOOLEAN

SettlementType(e) ==
  /\ e.type \in {"None", "MintSharesOutstanding", "BurnSharesOutstanding", "Revert"}
  /\ e.due \in Nat

LEMMA AccountFacts ==
  /\ VaultProxy \in Accounts /\ FeeRecipient \in Accounts \ {VaultProxy}
  /\ LockedSharesAddress \in Accounts /\ ProtocolFeeReserve \in Accounts
  /\ Owner \in Accounts \ {VaultProxy}
  /\ \A a \in Holders : a \in Accounts /\ a # VaultProxy
  /\ Investors \subseteq Holders /\ {FeeRecipient, Owner} \subseteq Holders
  BY AccountsAssumption DEF Accounts, Holders

\* What Sound says, and what it takes.
LEMMA SoundFacts ==
  ASSUME NEW s, Sound(s)
  PROVE  /\ Token(s.shares) /\ s.shares.totalSupply \in Nat
         /\ \A a \in Accounts : /\ s.shares.balanceOf[a] \in Nat
                                  /\ s.shares.balanceOf[a] <= s.shares.totalSupply
         /\ Net(s.shares) \in Nat
         /\ s.gav \in Nat /\ s.sharesOutstanding \in Nat
         /\ s.lastSettled \in 0..now /\ s.ok \in BOOLEAN
         /\ s.highWaterMark \in Nat \cup {ResetHwmFlag}
<1>1. Token(s.shares)
  BY DEF Sound, Funds, Token
<1>2. s.shares.totalSupply \in Nat /\ \A a \in Accounts : s.shares.balanceOf[a] \in Nat
  BY <1>1 DEF Token, SharesTokens
<1>3. \A a \in Accounts : s.shares.balanceOf[a] <= s.shares.totalSupply
  BY <1>1, WithinSupply
<1>4. Net(s.shares) \in Nat
  BY <1>2, <1>3, AccountFacts DEF Net
<1> QED
  BY <1>1, <1>2, <1>3, <1>4 DEF Sound, Funds

\* Other shares, of which the vault still holds those outstanding.
LEMMA SoundShares ==
  ASSUME NEW s, Sound(s), NEW token, Token(token), NEW n \in Nat,
         n <= token.balanceOf[VaultProxy]
  PROVE  /\ Sound([s EXCEPT !.shares = token, !.sharesOutstanding = n])
         /\ s.sharesOutstanding = n =>
              Sound([s EXCEPT !.shares = token])
<1>1. s \in Funds
  BY DEF Sound
<1>2. token \in SharesTokens /\ AddsUp(token)
  BY DEF Token
<1>3. /\ [s EXCEPT !.shares = token, !.sharesOutstanding = n] \in Funds
      /\ [s EXCEPT !.shares = token] \in Funds
  BY <1>1, <1>2 DEF Funds
<1> QED
  BY <1>1, <1>2, <1>3 DEF Sound, Funds

\* A revert takes back nothing but the transaction.
LEMMA RequireSound ==
  ASSUME NEW s, Sound(s), NEW condition \in BOOLEAN
  PROVE  /\ Sound(Require(s, condition))
         /\ Require(s, condition).ok = (s.ok /\ condition)
         /\ Require(s, condition).shares = s.shares
         /\ Require(s, condition).highWaterMark = s.highWaterMark
         /\ Require(s, condition).gav = s.gav
<1>1. s \in Funds /\ s.ok \in BOOLEAN
  BY SoundFacts DEF Sound
<1>2. [s EXCEPT !.ok = s.ok /\ condition] \in Funds
  BY <1>1 DEF Funds
<1> QED
  BY <1>1, <1>2 DEF Require, Sound, Funds

LEMMA RevertedSound ==
  ASSUME NEW s, Sound(s)
  PROVE  Sound(Reverted(s)) /\ ~Reverted(s).ok /\ Reverted(s).gav = s.gav
  BY RequireSound DEF Reverted

\* Fees that mint shares.
LEMMA SettleMintSound ==
  ASSUME NEW s, Sound(s), NEW payee \in Accounts, NEW due \in Nat
  PROVE  LET r == SettleMint(s, payee, due) IN
         /\ Sound(r) /\ r.ok = s.ok /\ r.highWaterMark = s.highWaterMark
         /\ r.gav = s.gav /\ r.lastSettled = s.lastSettled
         /\ r.sharesOutstanding = s.sharesOutstanding
         /\ r.shares.totalSupply = s.shares.totalSupply + due
         /\ r.shares.balanceOf[payee] = s.shares.balanceOf[payee] + due
         /\ \A a \in Accounts \ {payee} :
              r.shares.balanceOf[a] = s.shares.balanceOf[a]
         /\ payee # VaultProxy => Net(r.shares) = Net(s.shares) + due
<1> DEFINE token == Mint(s.shares, payee, due)
<1>1. /\ Token(token)
      /\ token.totalSupply = s.shares.totalSupply + due
      /\ token.balanceOf[payee] = s.shares.balanceOf[payee] + due
      /\ \A b \in Accounts \ {payee} : token.balanceOf[b] = s.shares.balanceOf[b]
  BY SoundFacts, MintFacts
<1>2. SettleMint(s, payee, due) = [s EXCEPT !.shares = token]
  BY DEF SettleMint
<1> HIDE DEF token
<1>3. /\ s.sharesOutstanding \in Nat /\ s.shares.totalSupply \in Nat
      /\ \A a \in Accounts : s.shares.balanceOf[a] \in Nat
      /\ s.sharesOutstanding <= s.shares.balanceOf[VaultProxy]
  BY SoundFacts DEF Sound
<1>4. s.sharesOutstanding <= token.balanceOf[VaultProxy]
  BY <1>1, <1>3, AccountFacts
<1>5. Sound([s EXCEPT !.shares = token])
  BY <1>1, <1>3, <1>4, SoundShares
<1>6. payee # VaultProxy => Net(token) = Net(s.shares) + due
  BY <1>1, <1>3, AccountFacts DEF Net
<1>7. s \in Funds
  BY DEF Sound
<1> QED
  BY <1>1, <1>2, <1>5, <1>6, <1>7 DEF Funds

\* The same, as one fact.
Issues(s, r, payee, due) ==
  /\ Sound(r) /\ r.ok = s.ok /\ r.highWaterMark = s.highWaterMark /\ r.gav = s.gav
  /\ r.shares.totalSupply = s.shares.totalSupply + due
  /\ r.shares.balanceOf[payee] = s.shares.balanceOf[payee] + due
  /\ \A a \in Accounts \ {payee} : r.shares.balanceOf[a] = s.shares.balanceOf[a]

LEMMA SettleMintIssues ==
  ASSUME NEW s, Sound(s), NEW payee \in Accounts, NEW due \in Nat
  PROVE  Issues(s, SettleMint(s, payee, due), payee, due)
<1> DEFINE r == SettleMint(s, payee, due)
<1>1. /\ Sound(r) /\ r.ok = s.ok /\ r.highWaterMark = s.highWaterMark /\ r.gav = s.gav
      /\ r.shares.totalSupply = s.shares.totalSupply + due
      /\ r.shares.balanceOf[payee] = s.shares.balanceOf[payee] + due
  BY SettleMintSound
<1>2. \A a \in Accounts \ {payee} : r.shares.balanceOf[a] = s.shares.balanceOf[a]
  BY SettleMintSound
<1> HIDE DEF r
<1> QED
  BY <1>1, <1>2 DEF Issues, r

\* Fees that burn shares of somebody else than the vault.
LEMMA SettleBurnSound ==
  ASSUME NEW s, Sound(s), NEW payer \in Accounts, payer # VaultProxy,
         NEW due \in Nat
  PROVE  LET r == SettleBurn(s, payer, due) IN
         /\ Sound(r) /\ r.gav = s.gav
         /\ r.ok => /\ s.ok /\ r.highWaterMark = s.highWaterMark
                     /\ Net(r.shares) = Net(s.shares) - due
<1> DEFINE token == Burn(s.shares, payer, due)
<1>0. s \in Funds
  BY DEF Sound
<1>1. CASE ~Burnable(s.shares, payer, due)
  <2>1. SettleBurn(s, payer, due) = Reverted(s)
    BY <1>1 DEF SettleBurn
  <2> QED
    BY <2>1, RevertedSound
<1>2. CASE Burnable(s.shares, payer, due)
  <2>1. /\ Token(token)
        /\ token.totalSupply = s.shares.totalSupply - due
        /\ \A b \in Accounts \ {payer} : token.balanceOf[b] = s.shares.balanceOf[b]
    BY <1>2, SoundFacts, BurnFacts DEF Burnable
  <2>2. SettleBurn(s, payer, due) = [s EXCEPT !.shares = token]
    BY <1>2 DEF SettleBurn
  <2> HIDE DEF token
  <2>3. /\ s.sharesOutstanding \in Nat /\ s.shares.totalSupply \in Nat
        /\ s.shares.balanceOf[VaultProxy] \in Nat
        /\ s.sharesOutstanding <= s.shares.balanceOf[VaultProxy]
    BY SoundFacts, AccountFacts DEF Sound
  <2>4. token.balanceOf[VaultProxy] = s.shares.balanceOf[VaultProxy]
    BY <2>1, AccountFacts
  <2>5. Sound([s EXCEPT !.shares = token])
    BY <2>1, <2>3, <2>4, SoundShares
  <2>6. Net(token) = Net(s.shares) - due
    BY <2>1, <2>3, <2>4 DEF Net
  <2> QED
    BY <1>0, <2>2, <2>5, <2>6 DEF Funds
<1> QED
  BY <1>1, <1>2

\* Fees that take shares of somebody else than the vault.
LEMMA SettleDirectSound ==
  ASSUME NEW s, Sound(s), NEW payer \in Accounts, payer # VaultProxy,
         NEW payee \in Accounts, NEW due \in Nat
  PROVE  LET r == SettleDirect(s, payer, payee, due) IN
         /\ Sound(r) /\ r.gav = s.gav
         /\ r.ok => s.ok /\ r.highWaterMark = s.highWaterMark
         /\ r.ok /\ payee # VaultProxy => Net(r.shares) = Net(s.shares)
<1> DEFINE token == Transfer(s.shares, payer, payee, due)
<1>0. s \in Funds
  BY DEF Sound
<1>1. CASE ~(due <= s.shares.balanceOf[payer])
  <2>1. SettleDirect(s, payer, payee, due) = Reverted(s)
    BY <1>1 DEF SettleDirect
  <2> QED
    BY <2>1, RevertedSound
<1>2. CASE due <= s.shares.balanceOf[payer]
  <2>1. /\ Token(token)
        /\ token.totalSupply = s.shares.totalSupply
        /\ token.balanceOf[VaultProxy] >= s.shares.balanceOf[VaultProxy]
        /\ payee # VaultProxy =>
             token.balanceOf[VaultProxy] = s.shares.balanceOf[VaultProxy]
    <3>1. Token(s.shares) /\ VaultProxy \in Accounts \ {payer}
      BY SoundFacts, AccountFacts
    <3>2. /\ Token(token)
          /\ token.totalSupply = s.shares.totalSupply
          /\ \A b \in Accounts \ {payer} : token.balanceOf[b] >= s.shares.balanceOf[b]
          /\ \A b \in Accounts \ {payer, payee} :
               token.balanceOf[b] = s.shares.balanceOf[b]
      BY <1>2, <3>1, TransferFacts
    <3> QED
      BY <3>1, <3>2
  <2>2. SettleDirect(s, payer, payee, due) = [s EXCEPT !.shares = token]
    BY <1>2 DEF SettleDirect
  <2> HIDE DEF token
  <2>3. /\ s.sharesOutstanding \in Nat
        /\ s.shares.balanceOf[VaultProxy] \in Nat
        /\ token.balanceOf[VaultProxy] \in Nat
        /\ s.sharesOutstanding <= s.shares.balanceOf[VaultProxy]
    BY <2>1, SoundFacts, WithinSupply, AccountFacts DEF Sound
  <2>4. s.sharesOutstanding <= token.balanceOf[VaultProxy]
    BY <2>1, <2>3
  <2>5. Sound([s EXCEPT !.shares = token])
    BY <2>1, <2>3, <2>4, SoundShares
  <2>6. payee # VaultProxy => Net(token) = Net(s.shares)
    BY <2>1 DEF Net
  <2> QED
    BY <1>0, <2>2, <2>5, <2>6 DEF Funds
<1> QED
  BY <1>1, <1>2

\* Every fee of the PreRedeemShares hook but the one that burns leaves the
\* others' shares as many as they were, or more.
NetKept(s, r, fee, hook, d) ==
  hook = "PreRedeemShares" =>
    IF fee = "ExitRateBurn"
      THEN Net(r.shares) = Net(s.shares) - RateDue(d, ExitRate(d))
      ELSE Net(r.shares) >= Net(s.shares)

\* What is burned, and what changes hands, as one fact each.
Takes(s, r, due) ==
  Sound(r) /\ r.gav = s.gav /\ (r.ok => Net(r.shares) = Net(s.shares) - due)
Hands(s, r, payee) ==
  Sound(r) /\ r.gav = s.gav
    /\ (r.ok /\ payee # VaultProxy => Net(r.shares) = Net(s.shares))

LEMMA SettleBurnTakes ==
  ASSUME NEW s, Sound(s), NEW payer \in Accounts, payer # VaultProxy,
         NEW due \in Nat
  PROVE  Takes(s, SettleBurn(s, payer, due), due)
BY SettleBurnSound DEF Takes

LEMMA SettleDirectHands ==
  ASSUME NEW s, Sound(s), NEW payer \in Accounts, payer # VaultProxy,
         NEW payee \in Accounts, NEW due \in Nat
  PROVE  Hands(s, SettleDirect(s, payer, payee, due), payee)
BY SettleDirectSound DEF Hands

\* The performance fee of a fund that is not flagged, or is.
LEMMA SettlePerformanceSound ==
  ASSUME NEW s, Sound(s), s.ok, NEW value \in Nat, Enabled("Performance")
  PROVE  LET r == SettlePerformance(s, value) IN
         /\ Sound(r) /\ r.gav = s.gav
         /\ r.ok => Net(r.shares) >= Net(s.shares)
<1> DEFINE supply == s.shares.totalSupply
           due == PerformanceSharesDue(value, supply, s.highWaterMark)
           flagged == [s EXCEPT !.highWaterMark = ResetHwmFlag]
<1>0. s \in Funds /\ Net(s.shares) \in Nat /\ supply \in Nat
  BY SoundFacts DEF Sound
<1>1. CASE PerformanceReverts(value, supply, s.highWaterMark)
  <2>1. SettlePerformance(s, value) = Reverted(s)
    BY <1>1 DEF SettlePerformance
  <2> QED
    BY <2>1, RevertedSound
<1>2. CASE ~PerformanceReverts(value, supply, s.highWaterMark) /\ due = 0
  <2>1. SettlePerformance(s, value) = s
    BY <1>2 DEF SettlePerformance
  <2> QED
    BY <1>0, <2>1
<1>3. CASE ~PerformanceReverts(value, supply, s.highWaterMark) /\ due # 0
  <2>1. SettlePerformance(s, value) = SettleMint(flagged, FeeRecipient, due)
    BY <1>3 DEF SettlePerformance
  <2>2. due \in Nat
    <3>1. AboveMark(value, supply, s.highWaterMark)
      BY <1>3 DEF PerformanceSharesDue
    <3>2. s.highWaterMark \in Nat
      BY <3>1, SoundFacts DEF AboveMark
    <3> QED
      BY <1>0, <1>3, <3>1, <3>2, SharesDueFacts
  <2>3. Sound(flagged) /\ Net(flagged.shares) = Net(s.shares) /\ flagged.gav = s.gav
    BY <1>0 DEF Sound, Funds
  <2> HIDE DEF due, flagged
  <2>4. /\ Sound(SettleMint(flagged, FeeRecipient, due))
        /\ SettleMint(flagged, FeeRecipient, due).gav = flagged.gav
        /\ Net(SettleMint(flagged, FeeRecipient, due).shares) = Net(flagged.shares) + due
    BY <2>2, <2>3, SettleMintSound, AccountFacts
  <2> QED
    BY <1>0, <2>1, <2>2, <2>3, <2>4
<1> QED
  BY <1>1, <1>2, <1>3

LEMMA SettleManagementSound ==
  ASSUME NEW s, Sound(s), s.ok, now \in 0..MaxTime
  PROVE  LET r == SettleManagement(s) IN
         /\ r.ok /\ Sound(r) /\ Net(r.shares) >= Net(s.shares)
         /\ r.highWaterMark = s.highWaterMark /\ r.gav = s.gav
         /\ r.shares.totalSupply >= s.shares.totalSupply
         /\ \A a \in Accounts \ {FeeRecipient} :
              r.shares.balanceOf[a] = s.shares.balanceOf[a]
<1> DEFINE net == s.shares.totalSupply - s.shares.balanceOf[VaultProxy]
           product == net * Growth[now - s.lastSettled]
           due == product \div RateScaleBase
           timed == [s EXCEPT !.lastSettled = now]
<1>1. s \in Funds /\ net \in Nat /\ net = Net(s.shares)
  BY SoundFacts DEF Sound, Net
<1>2. Growth[now - s.lastSettled] \in Nat
  <2>1. s.lastSettled \in 0..now
    BY SoundFacts
  <2>2. now - s.lastSettled \in 0..MaxTime
    BY <2>1, AmountsAssumption
  <2> QED
    BY <2>2, RatesAssumption
<1>3. product \in Nat
  <2> DEFINE growth == Growth[now - s.lastSettled]
  <2> HIDE DEF net, growth
  <2>1. growth \in Nat
    BY <1>2 DEF growth
  <2>2. net * growth \in Nat
    BY <1>1, <2>1, SMT
  <2> QED
    BY <2>2 DEF growth
<1>4. due \in Nat
  <2> HIDE DEF product
  <2> QED
    BY <1>3, DivFacts, RatesAssumption
<1>5. SettleManagement(s) = SettleMint(timed, FeeRecipient, due)
  BY DEF SettleManagement
<1>6. Sound(timed) /\ timed.shares = s.shares /\ timed.ok
        /\ timed.highWaterMark = s.highWaterMark /\ timed.gav = s.gav
  BY <1>1 DEF Sound, Funds
<1>7. s.shares.totalSupply \in Nat
  BY SoundFacts
<1> HIDE DEF net, due, timed
<1> DEFINE r == SettleMint(timed, FeeRecipient, due)
<1>70. FeeRecipient \in Accounts /\ FeeRecipient # VaultProxy
  BY AccountFacts
<1>700. Sound(timed) /\ FeeRecipient \in Accounts /\ due \in Nat
  BY <1>4, <1>6, <1>70
<1>71. /\ Sound(r) /\ r.ok = timed.ok /\ r.highWaterMark = timed.highWaterMark
       /\ r.gav = timed.gav
       /\ r.shares.totalSupply = timed.shares.totalSupply + due
       /\ Net(r.shares) = Net(timed.shares) + due
  BY <1>700, <1>70, SettleMintSound
<1>72. ASSUME NEW a \in Accounts \ {FeeRecipient}
       PROVE  r.shares.balanceOf[a] = timed.shares.balanceOf[a]
  BY <1>700, <1>70, SettleMintSound
<1> HIDE DEF r
<1>8. /\ Sound(r) /\ r.ok = timed.ok /\ r.highWaterMark = timed.highWaterMark
      /\ r.gav = timed.gav
      /\ r.shares.totalSupply = s.shares.totalSupply + due
      /\ \A a \in Accounts \ {FeeRecipient} :
           r.shares.balanceOf[a] = s.shares.balanceOf[a]
      /\ Net(r.shares) = Net(s.shares) + due
  BY <1>6, <1>71, <1>72
<1>9. Net(r.shares) >= Net(s.shares) /\ r.shares.totalSupply >= s.shares.totalSupply
  BY <1>1, <1>4, <1>7, <1>8
<1> QED
  BY <1>5, <1>6, <1>8, <1>9 DEF r

LEMMA SettleExternalSound ==
  ASSUME NEW s, Sound(s), s.ok, NEW e, SettlementType(e)
  PROVE  LET r == SettleExternal(s, e) IN
         /\ Sound(r) /\ r.gav = s.gav
         /\ r.ok => Net(r.shares) >= Net(s.shares)
<1>0. s \in Funds /\ Net(s.shares) \in Nat /\ e.due \in Nat /\ Token(s.shares)
        /\ s.sharesOutstanding \in Nat
        /\ s.sharesOutstanding <= s.shares.balanceOf[VaultProxy]
        /\ s.shares.balanceOf[VaultProxy] \in Nat /\ s.shares.totalSupply \in Nat
  BY SoundFacts, AccountFacts DEF Sound, SettlementType
<1>1. CASE e.type = "MintSharesOutstanding"
  <2> DEFINE token == Mint(s.shares, VaultProxy, e.due)
             n == s.sharesOutstanding + e.due
  <2>1. SettleExternal(s, e) = [s EXCEPT !.shares = token, !.sharesOutstanding = n]
    BY <1>0, <1>1 DEF SettleExternal, SettleMint, Funds
  <2>2. /\ Token(token) /\ token.totalSupply = s.shares.totalSupply + e.due
        /\ token.balanceOf[VaultProxy] = s.shares.balanceOf[VaultProxy] + e.due
    <3>1. VaultProxy \in Accounts /\ Token(s.shares) /\ e.due \in Nat
      BY <1>0, AccountFacts
    <3> QED
      BY <3>1, MintFacts
  <2> HIDE DEF token
  <2>3. n \in Nat /\ n <= token.balanceOf[VaultProxy] /\ Net(token) = Net(s.shares)
    BY <1>0, <2>2 DEF Net
  <2> HIDE DEF n
  <2>4. Sound([s EXCEPT !.shares = token, !.sharesOutstanding = n])
    BY <2>2, <2>3, SoundShares
  <2> QED
    BY <1>0, <2>1, <2>3, <2>4 DEF Funds
<1>2. CASE e.type = "BurnSharesOutstanding" /\ e.due <= s.sharesOutstanding
  <2> DEFINE token == Burn(s.shares, VaultProxy, e.due)
             n == s.sharesOutstanding - e.due
  <2>1. e.due <= s.shares.balanceOf[VaultProxy] /\ n \in Nat
    BY <1>0, <1>2
  <2>2. /\ Token(token) /\ token.totalSupply = s.shares.totalSupply - e.due
        /\ token.balanceOf[VaultProxy] = s.shares.balanceOf[VaultProxy] - e.due
        /\ e.due <= s.shares.totalSupply
    BY <1>0, <2>1, AccountFacts, BurnFacts
  <2>3. SettleExternal(s, e) = [s EXCEPT !.shares = token, !.sharesOutstanding = n]
    BY <1>0, <1>2, <2>1, <2>2 DEF SettleExternal, SettleBurn, Burnable, Funds
  <2> HIDE DEF token
  <2>4. n <= token.balanceOf[VaultProxy] /\ Net(token) = Net(s.shares)
    BY <1>0, <2>2 DEF Net
  <2> HIDE DEF n
  <2>5. Sound([s EXCEPT !.shares = token, !.sharesOutstanding = n])
    BY <2>1, <2>2, <2>4, SoundShares
  <2> QED
    BY <1>0, <2>3, <2>4, <2>5 DEF Funds
<1>3. CASE e.type = "None"
  <2>1. SettleExternal(s, e) = s
    BY <1>3 DEF SettleExternal
  <2> QED
    BY <1>0, <2>1
<1>4. CASE ~(e.type = "MintSharesOutstanding") /\ ~(e.type = "None")
           /\ ~(e.type = "BurnSharesOutstanding" /\ e.due <= s.sharesOutstanding)
  <2>1. SettleExternal(s, e) = Reverted(s)
    BY <1>4 DEF SettleExternal
  <2> QED
    BY <2>1, RevertedSound
<1> QED
  BY <1>1, <1>2, <1>3, <1>4

\* A part of the quantity, which is less than it.
LEMMA RateDueFacts ==
  ASSUME NEW d, d.quantity \in Nat, NEW rate \in 0..OneHundredPercent - 1
  PROVE  /\ RateDue(d, rate) \in Nat
         /\ d.quantity > 0 => RateDue(d, rate) < d.quantity
<1> DEFINE q == d.quantity
           x == RateDue(d, rate)
<1>1. rate \in Nat /\ rate < OneHundredPercent /\ OneHundredPercent \in Nat
        /\ OneHundredPercent > 0
  BY Constants
<1>2. q \in Nat
  OBVIOUS
<1> HIDE DEF q
<1>3. q * rate \in Nat
  BY <1>1, <1>2, SMT
<1>4. x = (q * rate) \div OneHundredPercent
  BY DEF RateDue, q
<1> HIDE DEF x
<1>5. x \in Nat /\ OneHundredPercent * x <= q * rate
  BY <1>1, <1>3, <1>4, DivFacts
<1>6. ASSUME q > 0, q <= x PROVE FALSE
  <2>1. q * OneHundredPercent <= x * OneHundredPercent
    BY <1>1, <1>2, <1>5, <1>6, Products
  <2>2. (rate + 1) * q <= OneHundredPercent * q
    BY <1>1, <1>2, Products
  <2>3. (rate + 1) * q = q * rate + q /\ OneHundredPercent * q = q * OneHundredPercent
          /\ OneHundredPercent * x = x * OneHundredPercent
    BY <1>1, <1>2, <1>5, SMT
  <2>4. q * OneHundredPercent \in Nat /\ x * OneHundredPercent \in Nat
    BY <1>1, <1>2, <1>5, SMT
  <2> QED
    BY <1>2, <1>3, <1>5, <1>6, <2>1, <2>2, <2>3, <2>4, SMT
<1> QED
  BY <1>2, <1>5, <1>6 DEF q, x

LEMMA RatesFacts ==
  /\ EntranceRate \in 0..OneHundredPercent - 1
  /\ \A d : d.forSpecificAssets \in BOOLEAN => ExitRate(d) \in 0..OneHundredPercent - 1
  BY RatesAssumption DEF ExitRate

-----------------------------------------------------------------------------
(* The settlement of all fees, and the hook. *)

\* What a fee that settles on a hook does.
LEMMA SettleFeeSound ==
  ASSUME NEW s, Sound(s), s.ok, NEW fee \in Official \cup {"External"},
         Enabled(fee), NEW hook, SettlesOnHook(fee, hook), NEW d, DataFor(hook, d),
         NEW value \in Nat, NEW e, SettlementType(e), now \in 0..MaxTime
  PROVE  LET r == SettleFee(s, fee, d, value, e) IN
         Sound(r) /\ r.gav = s.gav /\ (r.ok => NetKept(s, r, fee, hook, d))
<1>0. Net(s.shares) \in Nat
  BY SoundFacts
<1>1. CASE fee = "Management"
  <2>1. SettleFee(s, fee, d, value, e) = SettleManagement(s)
    BY <1>1 DEF SettleFee
  <2> QED
    BY <1>1, <2>1, SettleManagementSound DEF NetKept
<1>2. CASE fee = "Performance"
  <2>1. SettleFee(s, fee, d, value, e) = SettlePerformance(s, value)
    BY <1>2 DEF SettleFee
  <2> QED
    BY <1>2, <2>1, SettlePerformanceSound DEF NetKept
<1>3. CASE fee = "External"
  <2>1. SettleFee(s, fee, d, value, e) = SettleExternal(s, e)
    BY <1>3 DEF SettleFee
  <2> QED
    BY <1>3, <2>1, SettleExternalSound DEF NetKept
<1>4. CASE fee \in {"EntranceRateBurn", "EntranceRateDirect", "MinSharesSupply"}
  <2>0. hook = "PostBuyShares"
    BY <1>4 DEF SettlesOnHook
  <2>1. d.payer \in Accounts /\ d.payer # VaultProxy /\ d.quantity \in Nat
    BY <2>0, AccountFacts DEF DataFor
  <2>2. RateDue(d, EntranceRate) \in Nat
    BY <2>1, RatesFacts, RateDueFacts
  <2>3. CASE fee = "EntranceRateBurn"
    <3>1. SettleFee(s, fee, d, value, e) = SettleBurn(s, d.payer, RateDue(d, EntranceRate))
      BY <2>3 DEF SettleFee
    <3>2. Takes(s, SettleFee(s, fee, d, value, e), RateDue(d, EntranceRate))
      BY <2>1, <2>2, <3>1, SettleBurnTakes
    <3> QED
      BY <2>0, <3>2 DEF NetKept, Takes
  <2>4. CASE fee = "EntranceRateDirect"
    <3>1. SettleFee(s, fee, d, value, e)
            = SettleDirect(s, d.payer, FeeRecipient, RateDue(d, EntranceRate))
      BY <2>4 DEF SettleFee
    <3> DEFINE r == SettleFee(s, fee, d, value, e)
           due == RateDue(d, EntranceRate)
    <3>2. r = SettleDirect(s, d.payer, FeeRecipient, due) /\ due \in Nat
            /\ FeeRecipient \in Accounts
      BY <2>2, <3>1, AccountFacts
    <3> HIDE DEF r, due
    <3>3. Sound(r) /\ r.gav = s.gav
      BY <2>1, <3>2, SettleDirectSound
    <3> QED
      BY <2>0, <3>3 DEF NetKept, r
  <2>5. CASE fee = "MinSharesSupply"
    <3>1. SettleFee(s, fee, d, value, e) = SettleMinSharesSupply(s, d.payer)
      BY <2>5 DEF SettleFee
    <3> DEFINE locked == s.shares.balanceOf[LockedSharesAddress]
    <3>2. locked \in Nat /\ MinSharesSupply \in Nat
      BY SoundFacts, AccountFacts, UnitsAssumption
    <3>3. CASE locked >= MinSharesSupply
      BY <2>0, <3>1, <3>3 DEF SettleMinSharesSupply, NetKept
    <3>4. CASE ~(locked >= MinSharesSupply)
      <4>1. SettleFee(s, fee, d, value, e)
              = SettleDirect(s, d.payer, LockedSharesAddress, MinSharesSupply - locked)
        BY <3>1, <3>4 DEF SettleMinSharesSupply
      <4>2. MinSharesSupply - locked \in Nat
        BY <3>2, <3>4
      <4>3. /\ Sound(SettleDirect(s, d.payer, LockedSharesAddress, MinSharesSupply - locked))
            /\ SettleDirect(s, d.payer, LockedSharesAddress, MinSharesSupply - locked).gav
                 = s.gav
        <5>1. LockedSharesAddress \in Accounts
          BY AccountFacts
        <5> HIDE DEF locked
        <5> QED
          BY <2>1, <4>2, <5>1, SettleDirectSound
      <4> QED
        BY <2>0, <4>1, <4>3 DEF NetKept
    <3> QED
      BY <3>3, <3>4
  <2> QED
    BY <1>4, <2>3, <2>4, <2>5
<1>5. CASE fee \in {"ExitRateBurn", "ExitRateDirect"}
  <2>0. hook = "PreRedeemShares"
    BY <1>5 DEF SettlesOnHook
  <2>1. d.payer \in Accounts /\ d.payer # VaultProxy /\ d.quantity \in Nat
        /\ d.forSpecificAssets \in BOOLEAN
    BY <2>0, AccountFacts DEF DataFor
  <2>2. RateDue(d, ExitRate(d)) \in Nat
    BY <2>1, RatesFacts, RateDueFacts
  <2>3. CASE fee = "ExitRateBurn"
    <3>1. SettleFee(s, fee, d, value, e) = SettleBurn(s, d.payer, RateDue(d, ExitRate(d)))
      BY <2>3 DEF SettleFee
    <3>2. Takes(s, SettleFee(s, fee, d, value, e), RateDue(d, ExitRate(d)))
      BY <2>1, <2>2, <3>1, SettleBurnTakes
    <3> QED
      BY <2>0, <2>3, <3>2 DEF NetKept, Takes
  <2>4. CASE fee = "ExitRateDirect"
    <3>1. SettleFee(s, fee, d, value, e)
            = SettleDirect(s, d.payer, FeeRecipient, RateDue(d, ExitRate(d)))
      BY <2>4 DEF SettleFee
    <3>2. FeeRecipient \in Accounts /\ FeeRecipient # VaultProxy
      BY AccountFacts
    <3> DEFINE r == SettleFee(s, fee, d, value, e)
           due == RateDue(d, ExitRate(d))
    <3>3. r = SettleDirect(s, d.payer, FeeRecipient, due) /\ due \in Nat
      BY <2>2, <3>1
    <3> HIDE DEF r, due
    <3>4. Sound(r) /\ r.gav = s.gav /\ (r.ok => Net(r.shares) = Net(s.shares))
      <4>1. Hands(s, r, FeeRecipient)
        BY <2>1, <3>2, <3>3, SettleDirectHands
      <4> QED
        BY <3>2, <4>1 DEF Hands
    <3> QED
      BY <1>0, <2>4, <3>4 DEF NetKept, r
  <2> QED
    BY <1>5, <2>3, <2>4
<1> QED
  BY <1>1, <1>2, <1>3, <1>4, <1>5 DEF Official

LEMMA SettleOnHookSound ==
  ASSUME NEW s, Sound(s), NEW fee \in Official \cup {"External"}, Enabled(fee),
         NEW hook, NEW d, DataFor(hook, d),
         NEW value \in Nat, NEW e, SettlementType(e), now \in 0..MaxTime
  PROVE  LET r == SettleOnHook(s, fee, hook, d, value, e) IN
         /\ Sound(r) /\ r.gav = s.gav
         /\ r.ok => s.ok /\ (r = s \/ NetKept(s, r, fee, hook, d))
<1>1. CASE s.ok /\ SettlesOnHook(fee, hook)
  <2>1. SettleOnHook(s, fee, hook, d, value, e) = SettleFee(s, fee, d, value, e)
    BY <1>1 DEF SettleOnHook
  <2> QED
    BY <1>1, <2>1, SettleFeeSound
<1>2. CASE ~(s.ok /\ SettlesOnHook(fee, hook))
  <2>1. SettleOnHook(s, fee, hook, d, value, e) = s
    BY <1>2 DEF SettleOnHook
  <2> QED
    BY <2>1
<1> QED
  BY <1>1, <1>2

\* settled[i] is the fund after the first i fees.
InTurn(settled, s, hook, d, value, e) ==
  /\ settled[0] = s
  /\ \A i \in 1..Len(Fees) :
       settled[i] = SettleOnHook(settled[i - 1], Fees[i], hook, d, value, e)
  /\ SettleFees(s, hook, d, value, e) = settled[Len(Fees)]

\* The recursive function of SettleFees is one.
LEMMA SettledInTurn ==
  ASSUME NEW s, NEW hook, NEW d, NEW value, NEW e
  PROVE  \E settled : InTurn(settled, s, hook, d, value, e)
<1> DEFINE Next1(x, i) == SettleOnHook(x, Fees[i], hook, d, value, e)
           Turns(g) == g = [i \in 0..Len(Fees) |->
                              IF i = 0 THEN s ELSE Next1(g[i - 1], i)]
           UpTo(n, g) == g = [i \in 0..Len(Fees) |->
                                IF i = 0 THEN s
                                ELSE IF i <= n THEN Next1(g[i - 1], i) ELSE s]
           N == {n \in Nat : \E g : UpTo(n, g)}
<1>0. Len(Fees) \in Nat
  BY FeesAssumption
<1>1. 0 \in N
  <2> DEFINE start == [i \in 0..Len(Fees) |-> s]
  <2>1. UpTo(0, start)
    BY <1>0
  <2> QED
    BY <2>1
<1>2. ASSUME NEW n \in Nat, n \in N PROVE n + 1 \in N
  <2>1. PICK g : UpTo(n, g)
    BY <1>2
  <2> HIDE DEF Next1
  <2> DEFINE more == [i \in 0..Len(Fees) |->
                        IF i = 0 THEN s
                        ELSE IF i <= n + 1 THEN Next1(g[i - 1], i) ELSE s]
  <2>2. ASSUME NEW i \in 0..Len(Fees), i <= n PROVE more[i] = g[i]
    BY <1>0, <2>1, <2>2
  <2>3. ASSUME NEW i \in 0..Len(Fees), i # 0, i <= n + 1
        PROVE  Next1(more[i - 1], i) = Next1(g[i - 1], i)
    <3>1. i - 1 \in 0..Len(Fees) /\ i - 1 <= n
      BY <1>0, <2>3
    <3> QED
      BY <2>2, <3>1
  <2>4. UpTo(n + 1, more)
    BY <2>3
  <2>5. \E h : UpTo(n + 1, h)
    <3> HIDE DEF UpTo, more
    <3> QED
      BY <2>4
  <2> QED
    BY <2>5
<1>3. Len(Fees) \in N
  <2> HIDE DEF N
  <2> QED
    BY <1>0, <1>1, <1>2, Induction
<1>4. \E g : Turns(g)
  <2>1. PICK g : UpTo(Len(Fees), g)
    BY <1>3
  <2> HIDE DEF Next1
  <2>2. Turns(g)
    BY <1>0, <2>1
  <2> HIDE DEF Turns
  <2> QED
    BY <2>2
<1> DEFINE settled == CHOOSE g : Turns(g)
<1>5. Turns(settled)
  <2> HIDE DEF Turns
  <2> QED
    BY <1>4
<1>6. SettleFees(s, hook, d, value, e) = settled[Len(Fees)]
  BY DEF SettleFees
<1> HIDE DEF settled
<1>7. InTurn(settled, s, hook, d, value, e)
  BY <1>0, <1>5, <1>6 DEF InTurn
<1> QED
  BY <1>7

\* What the fees that burn a redeemer's shares can take.
ExitBurn(n, d) ==
  IF \E k \in 1..n : Fees[k] = "ExitRateBurn" THEN RateDue(d, ExitRate(d)) ELSE 0

LEMMA SettleFeesSound ==
  ASSUME NEW s, Sound(s), NEW hook, NEW d, DataFor(hook, d),
         NEW value \in Nat, NEW e, SettlementType(e), now \in 0..MaxTime
  PROVE  LET r == SettleFees(s, hook, d, value, e) IN
         /\ Sound(r) /\ r.gav = s.gav
         /\ r.ok => s.ok
         /\ r.ok /\ hook = "PreRedeemShares" =>
              Net(r.shares) + ExitBurn(Len(Fees), d) >= Net(s.shares)
<1>1. PICK settled : InTurn(settled, s, hook, d, value, e)
  BY SettledInTurn
<1> DEFINE Kept(n, x) ==
             hook = "PreRedeemShares" => Net(x.shares) + ExitBurn(n, d) >= Net(s.shares)
           P == {n \in Nat : /\ Sound(settled[n]) /\ settled[n].gav = s.gav
                             /\ settled[n].ok => s.ok /\ Kept(n, settled[n])}
<1>0. Len(Fees) \in Nat /\ Net(s.shares) \in Nat
  BY FeesAssumption, SoundFacts
<1>2. 0 \in P
  <2>1. ExitBurn(0, d) = 0
    BY DEF ExitBurn
  <2> QED
    BY <1>0, <1>1, <2>1 DEF InTurn
<1>3. ASSUME NEW n \in 0..(Len(Fees) - 1), n \in P PROVE n + 1 \in P
  <2> DEFINE x == settled[n]
             y == settled[n + 1]
             fee == Fees[n + 1]
  <2>1. n + 1 \in 1..Len(Fees) /\ n \in Nat /\ (n + 1) - 1 = n
    BY <1>0
  <2>2. y = SettleOnHook(x, fee, hook, d, value, e)
    BY <1>1, <2>1 DEF InTurn
  <2>3. fee \in Official \cup {"External"} /\ Enabled(fee)
    BY <2>1, FeesAssumption DEF Enabled
  <2>4. Sound(x) /\ x.gav = s.gav /\ (x.ok => s.ok /\ Kept(n, x))
    BY <1>3
  <2> HIDE DEF x, y, fee, Kept
  <2>5. Sound(y) /\ y.gav = x.gav /\ (y.ok => x.ok /\ (y = x \/ NetKept(x, y, fee, hook, d)))
    BY <2>2, <2>3, <2>4, SettleOnHookSound
  <2>6. ASSUME y.ok, hook = "PreRedeemShares"
        PROVE  Net(y.shares) + ExitBurn(n + 1, d) >= Net(s.shares)
    <3>1. Net(x.shares) + ExitBurn(n, d) >= Net(s.shares)
      BY <2>4, <2>5, <2>6 DEF Kept
    <3>2. RateDue(d, ExitRate(d)) \in Nat
      BY <2>6, RatesFacts, RateDueFacts DEF DataFor
    <3>3. Net(x.shares) \in Nat /\ Net(y.shares) \in Nat
      BY <2>4, <2>5, SoundFacts
    <3>4. ExitBurn(n, d) \in {0, RateDue(d, ExitRate(d))}
      BY DEF ExitBurn
    <3>5. CASE fee = "ExitRateBurn"
      <4>1. ExitBurn(n + 1, d) = RateDue(d, ExitRate(d))
        BY <2>1, <3>5 DEF ExitBurn, fee
      <4>2. ~ \E k \in 1..n : Fees[k] = "ExitRateBurn"
        <5>1. ASSUME NEW k \in 1..n, Fees[k] = "ExitRateBurn" PROVE FALSE
          <6>1. k \in DOMAIN Fees /\ n + 1 \in DOMAIN Fees /\ k # n + 1
            BY <1>0, <2>1, FeesAssumption
          <6> QED
            BY <3>5, <5>1, <6>1, FeesAssumption DEF IsInjective, fee
        <5> QED
          BY <5>1
      <4>3. ExitBurn(n, d) = 0
        BY <4>2 DEF ExitBurn
      <4>4. y = x \/ Net(y.shares) = Net(x.shares) - RateDue(d, ExitRate(d))
        BY <2>5, <2>6, <3>5 DEF NetKept
      <4> QED
        BY <1>0, <3>1, <3>2, <3>3, <4>1, <4>3, <4>4
    <3>6. CASE fee # "ExitRateBurn"
      <4>1. ExitBurn(n + 1, d) = ExitBurn(n, d)
        <5>1. \A k \in 1..(n + 1) : k \in 1..n \/ k = n + 1
          BY <2>1
        <5>2. \A k \in 1..n : k \in 1..(n + 1)
          BY <2>1
        <5> QED
          BY <3>6, <5>1, <5>2 DEF ExitBurn, fee
      <4>2. Net(y.shares) >= Net(x.shares)
        BY <2>5, <2>6, <3>3, <3>6 DEF NetKept
      <4> QED
        BY <1>0, <3>1, <3>2, <3>3, <3>4, <4>1, <4>2
    <3> QED
      BY <3>5, <3>6
  <2> QED
    BY <2>1, <2>4, <2>5, <2>6 DEF Kept, y
<1>4. \A n \in 0..Len(Fees) : n \in P
  <2> HIDE DEF P
  <2> QED
    BY <1>0, <1>2, <1>3, InductionUpTo
<1>5. Len(Fees) \in P
  BY <1>0, <1>4
<1> QED
  BY <1>1, <1>5 DEF InTurn

LEMMA GrossShareValueFacts ==
  ASSUME NEW value \in Nat, NEW supply \in Nat
  PROVE  GrossShareValue(value, supply) \in Nat
<1>1. value * SharesUnit \in Nat
  BY Constants, SMT
<1>2. supply # 0 => (value * SharesUnit) \div supply \in Nat
  <2> DEFINE x == value * SharesUnit
  <2>1. x \in Nat
    BY <1>1
  <2> HIDE DEF x
  <2>2. supply # 0 => x \div supply \in Nat
    BY <2>1, DivFacts
  <2> QED
    BY <2>2 DEF x
<1> QED
  BY <1>2, UnitsAssumption DEF GrossShareValue

Hooks == {"PreBuyShares", "PostBuyShares", "PreRedeemShares", "Continuous"}

\* A hook that does not revert leaves the fund sound, its mark flagged only
\* before a purchase, and the others' shares reduced by the exit fee at most.
LEMMA InvokeHookSound ==
  ASSUME NEW s, Sound(s), NEW hook \in Hooks, NEW d, DataFor(hook, d),
         NEW knownGav \in Nat, NEW e, SettlementType(e), now \in 0..MaxTime,
         gav \in Nat
  PROVE  LET r == InvokeHook(s, hook, d, knownGav, e) IN
         /\ Sound(r) /\ r.gav = s.gav
         /\ r.ok => s.ok
         /\ r.ok /\ hook # "PreBuyShares" => r.highWaterMark \in Nat
         /\ r.ok /\ hook = "PreRedeemShares" =>
              Net(r.shares) + ExitBurn(Len(Fees), d) >= Net(s.shares)
<1> DEFINE value == IF knownGav = 0 THEN gav ELSE knownGav
           x == SettleFees(s, hook, d, value, e)
           r == InvokeHook(s, hook, d, knownGav, e)
<1>1. CASE Enabled("Performance") /\ knownGav = 0 /\ ~priced
  <2>1. r = Reverted(s)
    BY <1>1 DEF InvokeHook
  <2> HIDE DEF r
  <2>2. Sound(r) /\ r.gav = s.gav /\ ~r.ok
    BY <2>1, RevertedSound
  <2> QED
    BY <2>2 DEF r
<1>2. CASE ~(Enabled("Performance") /\ knownGav = 0 /\ ~priced)
  <2>1. r = UpdateFees(x, hook, value)
    BY <1>2 DEF InvokeHook
  <2>2. value \in Nat
    OBVIOUS
  <2> HIDE DEF value
  <2>3. /\ Sound(x) /\ x.gav = s.gav /\ (x.ok => s.ok)
        /\ x.ok /\ hook = "PreRedeemShares" =>
             Net(x.shares) + ExitBurn(Len(Fees), d) >= Net(s.shares)
    BY <2>2, SettleFeesSound
  <2> HIDE DEF x, r
  <2>4. /\ Sound(r) /\ r.gav = x.gav /\ r.ok = x.ok /\ r.shares = x.shares
        /\ r.ok /\ hook # "PreBuyShares" => r.highWaterMark \in Nat
    <3> DEFINE updates == /\ x.ok /\ Enabled("Performance")
                          /\ PerformanceUpdatesOnHook(hook)
                          /\ x.highWaterMark = ResetHwmFlag
    <3>0. /\ x \in Funds /\ x.highWaterMark \in Nat \cup {ResetHwmFlag}
          /\ x.shares.totalSupply \in Nat
          /\ x.highWaterMark = ResetHwmFlag => Enabled("Performance")
      BY <2>3, SoundFacts DEF Sound
    <3>1. CASE updates
      <4> DEFINE price == GrossShareValue(value, x.shares.totalSupply)
      <4>1. r = [x EXCEPT !.highWaterMark = price]
        BY <2>1, <3>1 DEF UpdateFees
      <4>2. price \in Nat
        BY <2>2, <3>0, GrossShareValueFacts
      <4> HIDE DEF price
      <4> QED
        BY <2>3, <3>0, <3>1, <4>1, <4>2 DEF Sound, Funds
    <3>2. CASE ~updates
      <4>1. r = x
        BY <2>1, <3>2 DEF UpdateFees
      <4> QED
        BY <2>3, <3>0, <3>2, <4>1 DEF PerformanceUpdatesOnHook, Hooks
    <3> QED
      BY <3>1, <3>2
  <2> QED
    BY <2>3, <2>4 DEF r
<1> QED
  BY <1>1, <1>2

LEMMA PayProtocolFeeSound ==
  ASSUME NEW s, Sound(s), NEW due \in Nat
  PROVE  LET r == PayProtocolFee(s, due) IN
         /\ Sound(r) /\ r.gav = s.gav /\ r.ok = s.ok
         /\ r.highWaterMark = s.highWaterMark
         /\ \A a \in Accounts \ {ProtocolFeeReserve} :
              r.shares.balanceOf[a] = s.shares.balanceOf[a]
         /\ r.shares.balanceOf[ProtocolFeeReserve]
              >= s.shares.balanceOf[ProtocolFeeReserve]
         /\ r.shares.totalSupply >= s.shares.totalSupply
<1> DEFINE r == PayProtocolFee(s, due)
<1>0. ProtocolFeeReserve \in Accounts /\ s.shares.totalSupply \in Nat
        /\ \A a \in Accounts : s.shares.balanceOf[a] \in Nat
  BY SoundFacts, AccountFacts
<1>1. CASE s.shares.totalSupply = 0
  <2>1. r = s
    BY <1>1 DEF PayProtocolFee
  <2> QED
    BY <1>0, <2>1
<1>2. CASE s.shares.totalSupply # 0
  <2>1. r = SettleMint(s, ProtocolFeeReserve, due)
    BY <1>2 DEF PayProtocolFee
  <2> HIDE DEF r
  <2>2. Issues(s, r, ProtocolFeeReserve, due)
    BY <1>0, <2>1, SettleMintIssues
  <2>3. /\ Sound(r) /\ r.gav = s.gav /\ r.ok = s.ok
        /\ r.highWaterMark = s.highWaterMark
        /\ r.shares.totalSupply = s.shares.totalSupply + due
        /\ r.shares.balanceOf[ProtocolFeeReserve]
             = s.shares.balanceOf[ProtocolFeeReserve] + due
        /\ \A a \in Accounts \ {ProtocolFeeReserve} :
             r.shares.balanceOf[a] = s.shares.balanceOf[a]
    BY <2>2 DEF Issues
  <2>4. /\ r.shares.balanceOf[ProtocolFeeReserve]
             >= s.shares.balanceOf[ProtocolFeeReserve]
        /\ r.shares.totalSupply >= s.shares.totalSupply
    BY <1>0, <2>3
  <2> QED
    BY <2>3, <2>4 DEF r
<1> QED
  BY <1>1, <1>2

-----------------------------------------------------------------------------
(* The transactions. *)

\* The inductive invariant: the shares add up, the clock of the ManagementFee
\* is not ahead, and the vault holds the shares outstanding.
FeesInv ==
  /\ TypeOK
  /\ AddsUp(shares)
  /\ lastSettled <= now
  /\ SharesOutstandingBacked

LEMMA FundIsSound ==
  ASSUME FeesInv
  PROVE  /\ Sound(Fund) /\ Fund.ok /\ Fund.highWaterMark \in Nat /\ Fund.gav = gav
         /\ Fund.shares = shares /\ gav \in Nat /\ now \in 0..MaxTime
<1>1. lastSettled \in 0..now
  BY AmountsAssumption DEF FeesInv, TypeOK
<1>2. highWaterMark # ResetHwmFlag
  BY UnitsAssumption DEF FeesInv, TypeOK
<1> QED
  BY <1>1, <1>2 DEF FeesInv, TypeOK, Sound, Funds, Fund, SharesTokens,
                    SharesOutstandingBacked

\* What a transaction leaves behind.
LEMMA BecomesSound ==
  ASSUME FeesInv, NEW s, Becomes(s), s.ok => Sound(s) /\ s.highWaterMark \in Nat
  PROVE  FeesInv'
<1>1. /\ s.ok
      /\ shares' = s.shares /\ gav' = s.gav /\ highWaterMark' = s.highWaterMark
      /\ lastSettled' = s.lastSettled /\ sharesOutstanding' = s.sharesOutstanding
      /\ now' = now /\ priced' = priced
  BY DEF Becomes
<1>2. Sound(s) /\ s.highWaterMark \in Nat
  BY <1>1
<1>3. now \in 1..MaxTime /\ MaxTime \in Nat /\ priced \in BOOLEAN
  BY AmountsAssumption DEF FeesInv, TypeOK
<1>4. s.lastSettled \in 0..MaxTime /\ s.lastSettled <= now
  BY <1>2, <1>3, SoundFacts
<1>5. /\ s.shares \in SharesTokens /\ s.gav \in Nat /\ s.sharesOutstanding \in Nat
      /\ AddsUp(s.shares) /\ s.sharesOutstanding <= s.shares.balanceOf[VaultProxy]
  BY <1>2, SoundFacts DEF Sound, Token
<1>6. AddsUp(shares)' /\ SharesOutstandingBacked'
  BY <1>1, <1>5 DEF AddsUp, SharesOutstandingBacked
<1>7. TypeOK'
  BY <1>1, <1>2, <1>3, <1>4, <1>5 DEF TypeOK, SharesTokens
<1> QED
  BY <1>1, <1>4, <1>6, <1>7 DEF FeesInv

LEMMA ExternalTypes ==
  ASSUME NEW e \in ExternalOutcomes
  PROVE  SettlementType(e)
  BY ExternalAssumption DEF ExternalOutcomes, SettlementType

\* Other value.
LEMMA SoundGav ==
  ASSUME NEW s, Sound(s), NEW value \in Nat
  PROVE  LET r == [s EXCEPT !.gav = value] IN
         /\ Sound(r) /\ r.shares = s.shares /\ r.ok = s.ok
         /\ r.highWaterMark = s.highWaterMark /\ r.gav = value
  BY DEF Sound, Funds

LEMMA IssueSharesSound ==
  ASSUME FeesInv, NEW settled, Sound(settled), settled.gav = gav,
         NEW buyer \in Investors, NEW investment \in Nat, NEW e, SettlementType(e),
         NEW protocolFee \in Nat
  PROVE  LET r == IssueShares(settled, buyer, investment, e, protocolFee) IN
         r.ok => Sound(r) /\ r.highWaterMark \in Nat
<1> DEFINE r == IssueShares(settled, buyer, investment, e, protocolFee)
           charged == PayProtocolFee(settled, protocolFee)
           price == GrossShareValue(gav, charged.shares.totalSupply)
           issued == (investment * SharesUnit) \div price
           valued == [charged EXCEPT !.gav = @ + investment]
           minted == SettleMint(valued, buyer, issued)
           d == [payer |-> buyer, quantity |-> issued]
           post == InvokeHook(minted, "PostBuyShares", d, gav + investment, e)
           more == post.shares.balanceOf[buyer] > charged.shares.balanceOf[buyer]
<1>1. CASE price = 0
  <2>1. r = Reverted(settled)
    BY <1>1 DEF IssueShares
  <2> HIDE DEF r
  <2>2. ~r.ok
    BY <2>1, RevertedSound
  <2> QED
    BY <2>2 DEF r
<1>2. CASE price # 0
  <2>1. r = Require(post, more)
    BY <1>2 DEF IssueShares
  <2>2. Sound(charged) /\ charged.gav = gav /\ charged.shares.totalSupply \in Nat
    BY PayProtocolFeeSound, SoundFacts
  <2>3. gav \in Nat /\ now \in 0..MaxTime
    BY FundIsSound
  <2> HIDE DEF charged
  <2>4. price \in Nat
    BY <2>2, <2>3, GrossShareValueFacts
  <2> HIDE DEF price
  <2>5. issued \in Nat
    <3> DEFINE x == investment * SharesUnit
    <3>1. x \in Nat
      BY Constants, SMT
    <3> HIDE DEF x
    <3>2. x \div price \in Nat
      BY <1>2, <2>4, <3>1, DivFacts
    <3> QED
      BY <3>2 DEF x
  <2>6. Sound(valued)
    <3>1. charged \in Funds /\ charged.gav + investment \in Nat
      BY <2>2, <2>3 DEF Sound
    <3> QED
      BY <2>2, <3>1, SoundGav
  <2>7. buyer \in Accounts /\ buyer \in Holders
    BY AccountFacts
  <2> HIDE DEF issued, valued
  <2>8. Sound(minted)
    BY <2>5, <2>6, <2>7, SettleMintSound
  <2>9. DataFor("PostBuyShares", d)
    BY <2>5, <2>7 DEF DataFor
  <2> HIDE DEF minted, d
  <2>10. Sound(post) /\ (post.ok => post.highWaterMark \in Nat)
    <3>1. gav + investment \in Nat /\ "PostBuyShares" \in Hooks
      BY <2>3 DEF Hooks
    <3> QED
      BY <2>3, <2>8, <2>9, <3>1, InvokeHookSound
  <2> HIDE DEF post, r
  <2>11. more \in BOOLEAN
    OBVIOUS
  <2> HIDE DEF more
  <2>12. Sound(r) /\ (r.ok => r.highWaterMark \in Nat)
    BY <2>1, <2>10, <2>11, RequireSound
  <2> QED
    BY <2>12 DEF r
<1> QED
  BY <1>1, <1>2

LEMMA BuySharesSound ==
  ASSUME FeesInv, NEW buyer \in Investors, NEW investment \in Investments,
         NEW external \in ExternalOutcomes, NEW protocolFee \in ProtocolFees,
         BuyShares(buyer, investment, external, protocolFee)
  PROVE  FeesInv'
<1> DEFINE settled == InvokeHook(Fund, "PreBuyShares", NoData, gav, external)
           r == IssueShares(settled, buyer, investment, external, protocolFee)
<1>1. Becomes(r)
  BY DEF BuyShares
<1>2. investment \in Nat /\ protocolFee \in Nat
  BY AmountsAssumption
<1>3. SettlementType(external)
  BY ExternalTypes
<1>4. Sound(settled) /\ settled.gav = gav
  <2>1. /\ Sound(Fund) /\ Fund.gav = gav /\ gav \in Nat /\ now \in 0..MaxTime
    BY FundIsSound
  <2>2. "PreBuyShares" \in Hooks /\ DataFor("PreBuyShares", NoData)
    BY DEF Hooks, DataFor
  <2> QED
    BY <1>3, <2>1, <2>2, InvokeHookSound
<1> HIDE DEF settled
<1>5. r.ok => Sound(r) /\ r.highWaterMark \in Nat
  BY <1>2, <1>3, <1>4, IssueSharesSound
<1> HIDE DEF r
<1> QED
  BY <1>1, <1>5, BecomesSound

\* The hook before a redemption, guarded by the try.
LEMMA PreRedeemSound ==
  ASSUME FeesInv, NEW d, DataFor("PreRedeemShares", d), NEW knownGav \in Nat,
         NEW e, SettlementType(e)
  PROVE  LET r == PreRedeemSharesHook(d, knownGav, e) IN
         /\ Sound(r) /\ r.ok /\ r.gav = gav /\ r.highWaterMark \in Nat
         /\ \/ Net(r.shares) >= Net(shares)
            \/ Net(r.shares) + ExitBurn(Len(Fees), d) >= Net(shares)
<1> DEFINE x == InvokeHook(Fund, "PreRedeemShares", d, knownGav, e)
           r == PreRedeemSharesHook(d, knownGav, e)
<1>1. /\ Sound(Fund) /\ Fund.ok /\ Fund.highWaterMark \in Nat /\ Fund.gav = gav
      /\ Fund.shares = shares /\ gav \in Nat /\ now \in 0..MaxTime
  BY FundIsSound
<1>2. "PreRedeemShares" \in Hooks
  BY DEF Hooks
<1>3. /\ Sound(x) /\ x.gav = Fund.gav
      /\ x.ok => /\ x.highWaterMark \in Nat
                 /\ Net(x.shares) + ExitBurn(Len(Fees), d) >= Net(Fund.shares)
  BY <1>1, <1>2, InvokeHookSound
<1>4. r = IF x.ok THEN x ELSE Fund
  BY DEF PreRedeemSharesHook
<1>5. Net(shares) \in Nat
  BY <1>1, SoundFacts
<1> HIDE DEF x, r
<1>6. CASE x.ok
  BY <1>1, <1>3, <1>4, <1>6 DEF r
<1>7. CASE ~x.ok
  BY <1>1, <1>4, <1>5, <1>7 DEF r
<1> QED
  BY <1>6, <1>7

\* A part of a whole is worth no more than the whole.
LEMMA PartOfValue ==
  ASSUME NEW value \in Nat, NEW supply \in Nat, supply # 0, NEW part \in Nat
  PROVE  /\ (value * part) \div supply \in Nat
         /\ part <= supply => (value * part) \div supply <= value
<1> DEFINE x == value * part
           y == x \div supply
<1>1. x \in Nat
  BY SMT
<1> HIDE DEF x
<1>2. y \in Nat /\ supply * y <= x
  BY <1>1, DivFacts
<1>3. ASSUME part <= supply, value < y PROVE FALSE
  <2> HIDE DEF y
  <2>1. value * part <= value * supply
    <3>1. part * value <= supply * value
      BY <1>3, Products
    <3>2. part * value = value * part /\ supply * value = value * supply
      BY SMT
    <3> QED
      BY <3>1, <3>2
  <2>2. (value + 1) * supply <= y * supply
    BY <1>2, <1>3, Products
  <2>3. (value + 1) * supply = value * supply + supply /\ supply * y = y * supply
    BY <1>2, SMT
  <2>4. value * supply \in Nat /\ y * supply \in Nat
    BY <1>2, SMT
  <2> QED
    BY <1>1, <1>2, <2>1, <2>2, <2>3, <2>4, SMT DEF x
<1> QED
  BY <1>2, <1>3 DEF x

LEMMA PayOutSharesSound ==
  ASSUME FeesInv, NEW settled, Sound(settled), settled.ok, settled.gav = gav,
         settled.highWaterMark \in Nat, NEW redeemer \in Holders,
         NEW quantity \in Nat, NEW all \in BOOLEAN, NEW specific \in BOOLEAN,
         NEW protocolFee \in Nat
  PROVE  LET r == PayOutShares(settled, redeemer, quantity, all, specific,
                               protocolFee) IN
         r.ok => Sound(r) /\ r.highWaterMark = settled.highWaterMark
<1> DEFINE r == PayOutShares(settled, redeemer, quantity, all, specific, protocolFee)
           before == shares.balanceOf[redeemer]
           after == settled.shares.balanceOf[redeemer]
           feesPaid == IF after < before THEN before - after ELSE 0
           sharesToRedeem == IF all THEN after ELSE quantity - feesPaid
           charged == PayProtocolFee(settled, protocolFee)
           supply == charged.shares.totalSupply
           owed == (gav * sharesToRedeem) \div supply
           paidOut == [charged EXCEPT !.gav = @ - owed]
           fails == supply = 0 \/ feesPaid > quantity \/ (specific /\ owed = 0)
<1>1. CASE fails
  <2>1. r = Reverted(settled)
    BY <1>1 DEF PayOutShares
  <2> HIDE DEF r
  <2>2. ~r.ok
    BY <2>1, RevertedSound
  <2> QED
    BY <2>2 DEF r
<1>2. CASE ~fails
  <2>1. r = SettleBurn(paidOut, redeemer, sharesToRedeem)
    BY <1>2 DEF PayOutShares
  <2>2. redeemer \in Accounts /\ redeemer # VaultProxy
    BY AccountFacts
  <2>3. before \in Nat /\ after \in Nat
    BY <2>2, SoundFacts, FundIsSound
  <2>4. feesPaid \in Nat /\ feesPaid <= quantity
    BY <1>2, <2>3
  <2>5. sharesToRedeem \in Nat
    <3> HIDE DEF feesPaid, after
    <3> QED
      BY <2>3, <2>4
  <2>6. supply # 0
    BY <1>2
  <2> HIDE DEF sharesToRedeem
  <2>7. /\ Sound(charged) /\ charged.gav = gav /\ charged.ok
        /\ charged.highWaterMark = settled.highWaterMark
    BY PayProtocolFeeSound
  <2> HIDE DEF charged, fails
  <2>8. supply \in Nat /\ gav \in Nat /\ charged \in Funds
    BY <2>7, SoundFacts, FundIsSound DEF Sound
  <2>9. CASE Burnable(paidOut.shares, redeemer, sharesToRedeem)
    <3>1. paidOut.shares = charged.shares
      BY <2>8 DEF Funds
    <3>2. sharesToRedeem <= supply
      BY <2>9, <3>1 DEF Burnable
    <3>3. owed \in Nat /\ owed <= gav
      BY <2>5, <2>6, <2>8, <3>2, PartOfValue
    <3> HIDE DEF owed
    <3>4. Sound(paidOut) /\ paidOut.highWaterMark = charged.highWaterMark
      <4>1. charged.gav - owed \in Nat
        BY <2>7, <2>8, <3>3
      <4> QED
        BY <2>7, <4>1, SoundGav
    <3> HIDE DEF paidOut, r
    <3>5. Sound(r) /\ (r.ok => r.highWaterMark = paidOut.highWaterMark)
      BY <2>1, <2>2, <2>5, <3>4, SettleBurnSound
    <3> QED
      BY <2>7, <3>4, <3>5 DEF r
  <2>10. CASE ~Burnable(paidOut.shares, redeemer, sharesToRedeem)
    <3>1. r = Reverted(paidOut)
      BY <2>1, <2>10 DEF SettleBurn
    <3>2. paidOut = [charged EXCEPT !.gav = @ - owed]
      OBVIOUS
    <3> HIDE DEF r, owed
    <3>3. ~r.ok
      BY <2>8, <3>1 DEF Reverted, Require, Funds
    <3> QED
      BY <3>3 DEF r
  <2> QED
    BY <2>9, <2>10
<1> QED
  BY <1>1, <1>2

LEMMA RedeemSharesSound ==
  ASSUME FeesInv, NEW redeemer \in Holders, NEW quantity \in Nat,
         NEW all \in BOOLEAN, NEW specific \in BOOLEAN,
         NEW external \in ExternalOutcomes, NEW protocolFee \in ProtocolFees,
         RedeemShares(redeemer, quantity, all, specific, external, protocolFee)
  PROVE  FeesInv'
<1> DEFINE d == [payer |-> redeemer, quantity |-> quantity,
                 forSpecificAssets |-> specific]
           known == IF specific THEN gav ELSE 0
           settled == PreRedeemSharesHook(d, known, external)
           r == PayOutShares(settled, redeemer, quantity, all, specific, protocolFee)
<1>1. Becomes(r)
  BY DEF RedeemShares, Redemption
<1>2. DataFor("PreRedeemShares", d) /\ known \in Nat /\ SettlementType(external)
  BY FundIsSound, ExternalTypes DEF DataFor
<1> HIDE DEF d, known
<1>3. /\ Sound(settled) /\ settled.ok /\ settled.gav = gav
      /\ settled.highWaterMark \in Nat
  BY <1>2, PreRedeemSound
<1> HIDE DEF settled
<1>4. r.ok => Sound(r) /\ r.highWaterMark = settled.highWaterMark
  <2>1. protocolFee \in Nat
    BY AmountsAssumption
  <2> QED
    BY <1>3, <2>1, PayOutSharesSound
<1> HIDE DEF r
<1> QED
  BY <1>1, <1>3, <1>4, BecomesSound

LEMMA SettleContinuousSound ==
  ASSUME FeesInv, NEW external \in ExternalOutcomes, SettleContinuousFees(external)
  PROVE  FeesInv'
<1> DEFINE r == InvokeHook(Fund, "Continuous", NoData, 0, external)
<1>1. Becomes(r)
  BY DEF SettleContinuousFees
<1>2. Sound(Fund) /\ gav \in Nat /\ now \in 0..MaxTime
  BY FundIsSound
<1>3. "Continuous" \in Hooks /\ DataFor("Continuous", NoData) /\ 0 \in Nat
        /\ SettlementType(external)
  BY ExternalTypes DEF Hooks, DataFor
<1>4. Sound(r) /\ (r.ok => r.highWaterMark \in Nat)
  BY <1>2, <1>3, InvokeHookSound
<1> HIDE DEF r
<1> QED
  BY <1>1, <1>4, BecomesSound

\* The vault gives away shares when none are outstanding any more.
LEMMA FromVaultSound ==
  ASSUME NEW s, Sound(s), s.sharesOutstanding = 0, NEW payee \in Accounts,
         NEW due \in Nat
  PROVE  LET r == SettleDirect(s, VaultProxy, payee, due) IN
         /\ Sound(r) /\ r.gav = s.gav /\ r.highWaterMark = s.highWaterMark
         /\ r.sharesOutstanding = 0
<1> DEFINE r == SettleDirect(s, VaultProxy, payee, due)
           token == Transfer(s.shares, VaultProxy, payee, due)
<1>0. s \in Funds /\ VaultProxy \in Accounts
  BY AccountFacts DEF Sound
<1>1. CASE ~(due <= s.shares.balanceOf[VaultProxy])
  <2>1. r = Reverted(s)
    BY <1>1 DEF SettleDirect
  <2> QED
    BY <1>0, <2>1, RevertedSound DEF Reverted, Require, Funds
<1>2. CASE due <= s.shares.balanceOf[VaultProxy]
  <2>1. r = [s EXCEPT !.shares = token]
    BY <1>2 DEF SettleDirect
  <2>2. Token(token)
    BY <1>0, <1>2, SoundFacts, TransferFacts
  <2> HIDE DEF token
  <2>3. token.balanceOf[VaultProxy] \in Nat
    BY <1>0, <2>2, WithinSupply
  <2>4. s.sharesOutstanding \in Nat /\ s.sharesOutstanding <= token.balanceOf[VaultProxy]
    BY <2>3
  <2>5. Sound([s EXCEPT !.shares = token])
    BY <2>2, <2>4, SoundShares
  <2> QED
    BY <1>0, <2>1, <2>5 DEF Funds
<1> QED
  BY <1>1, <1>2

\* Nothing outstanding.
LEMMA NoneOutstanding ==
  ASSUME NEW s, Sound(s)
  PROVE  LET r == [s EXCEPT !.sharesOutstanding = 0] IN
         /\ Sound(r) /\ r.gav = s.gav /\ r.highWaterMark = s.highWaterMark
         /\ r.sharesOutstanding = 0 /\ r.shares = s.shares /\ r.ok = s.ok
<1>1. s \in Funds /\ s.shares.balanceOf[VaultProxy] \in Nat
  BY SoundFacts, AccountFacts DEF Sound
<1> QED
  BY <1>1 DEF Sound, Funds

LEMMA PayoutSound ==
  ASSUME NEW s, Sound(s)
  PROVE  LET r == Payout(s) IN
         /\ Sound(r) /\ r.gav = s.gav /\ r.highWaterMark = s.highWaterMark
<1> DEFINE cleared == [s EXCEPT !.sharesOutstanding = 0]
           r == Payout(s)
<1>1. r = SettleDirect(cleared, VaultProxy, FeeRecipient, s.sharesOutstanding)
  BY DEF Payout
<1>2. /\ Sound(cleared) /\ cleared.gav = s.gav
      /\ cleared.highWaterMark = s.highWaterMark /\ cleared.sharesOutstanding = 0
  BY NoneOutstanding
<1>3. s.sharesOutstanding \in Nat /\ FeeRecipient \in Accounts
  BY SoundFacts, AccountFacts
<1> HIDE DEF cleared, r
<1>4. Sound(r) /\ r.gav = cleared.gav /\ r.highWaterMark = cleared.highWaterMark
  BY <1>1, <1>2, <1>3, FromVaultSound
<1> QED
  BY <1>2, <1>4 DEF r

LEMMA PayoutSharesOutstandingSound ==
  ASSUME FeesInv, PayoutSharesOutstanding
  PROVE  FeesInv'
<1> DEFINE r == Payout(Fund)
<1>1. Becomes(r)
  BY DEF PayoutSharesOutstanding
<1>2. Sound(r) /\ r.highWaterMark \in Nat
  BY FundIsSound, PayoutSound
<1> HIDE DEF r
<1> QED
  BY <1>1, <1>2, BecomesSound

LEMMA ReactivateSound ==
  ASSUME FeesInv, NEW paysOut \in BOOLEAN, NEW protocolFee \in ProtocolFees,
         Reactivate(paysOut, protocolFee)
  PROVE  FeesInv'
<1> DEFINE charged == PayProtocolFee(Fund, protocolFee)
           paid == IF paysOut THEN Payout(charged) ELSE charged
           kept == paid.shares.balanceOf[VaultProxy]
           swept == SettleDirect(paid, VaultProxy, Owner, kept)
           mark == IF Enabled("Performance")
                     THEN GrossShareValue(gav, swept.shares.totalSupply) ELSE 0
           clock == ManagementActivatedAt(swept.shares.totalSupply)
           r == [swept EXCEPT !.highWaterMark = mark, !.lastSettled = clock,
                              !.sharesOutstanding = 0]
           token == Transfer(paid.shares, VaultProxy, Owner, kept)
<1>1. Becomes(r)
  BY DEF Reactivate
<1>2. gav \in Nat /\ now \in 0..MaxTime /\ now \in Nat /\ Sound(Fund)
  BY FundIsSound DEF FeesInv, TypeOK
<1>3. Sound(charged)
  BY <1>2, AmountsAssumption, PayProtocolFeeSound
<1> HIDE DEF charged
<1>4. Sound(paid)
  BY <1>3, PayoutSound
<1> HIDE DEF paid
<1>5. paid \in Funds /\ kept \in Nat /\ Token(paid.shares) /\ VaultProxy \in Accounts
        /\ Owner \in Accounts
  BY <1>4, SoundFacts, AccountFacts DEF Sound
<1>6. swept = [paid EXCEPT !.shares = token]
  BY <1>5 DEF SettleDirect
<1>7. Token(token)
  BY <1>5, TransferFacts
<1> HIDE DEF token, kept
<1>8. swept.shares = token /\ swept \in Funds
  BY <1>5, <1>6, <1>7 DEF Funds, Token
<1> HIDE DEF swept
<1>9. token \in SharesTokens /\ AddsUp(token) /\ token.totalSupply \in Nat
        /\ token.balanceOf[VaultProxy] \in Nat
  BY <1>5, <1>7, WithinSupply DEF Token
<1>10. mark \in Nat
  BY <1>2, <1>8, <1>9, GrossShareValueFacts
<1>11. clock \in 0..now
  BY <1>2 DEF ManagementActivatedAt
<1>12. mark # ResetHwmFlag
  BY <1>10, UnitsAssumption
<1> HIDE DEF mark, clock
<1>13. /\ r.shares = token /\ r.sharesOutstanding = 0 /\ r.highWaterMark = mark
       /\ r \in Funds
  BY <1>8, <1>9, <1>10, <1>11 DEF Funds
<1> HIDE DEF r
<1>14. Sound(r) /\ r.highWaterMark \in Nat
  BY <1>9, <1>10, <1>12, <1>13 DEF Sound
<1> QED
  BY <1>1, <1>14, BecomesSound

LEMMA TransferSharesSound ==
  ASSUME FeesInv, NEW sender \in Holders, NEW recipient \in Accounts,
         NEW amount \in 1..shares.balanceOf[sender],
         TransferShares(sender, recipient, amount)
  PROVE  FeesInv'
<1> DEFINE token == Transfer(shares, sender, recipient, amount)
<1>1. shares' = token /\ UNCHANGED <<now, marketVars, feeVars>>
  BY DEF TransferShares
<1>2. sender \in Accounts /\ sender # VaultProxy /\ VaultProxy \in Accounts
  BY AccountFacts
<1>3. Token(shares) /\ shares.balanceOf[sender] \in Nat
        /\ shares.balanceOf[VaultProxy] \in Nat
  BY <1>2, SoundFacts, FundIsSound
<1>4. amount \in Nat /\ amount <= shares.balanceOf[sender]
  BY <1>3
<1>5. /\ Token(token)
      /\ \A b \in Accounts \ {sender} : token.balanceOf[b] >= shares.balanceOf[b]
  BY <1>2, <1>3, <1>4, TransferFacts
<1> HIDE DEF token
<1>6. token.balanceOf[VaultProxy] >= shares.balanceOf[VaultProxy]
        /\ token.balanceOf[VaultProxy] \in Nat
  BY <1>2, <1>5, WithinSupply
<1>7. TypeOK'
  BY <1>1, <1>5 DEF FeesInv, TypeOK, Token, SharesTokens, marketVars, feeVars
<1>8. AddsUp(shares)'
  BY <1>1, <1>5 DEF Token, AddsUp
<1>9. SharesOutstandingBacked'
  BY <1>1, <1>3, <1>6 DEF FeesInv, TypeOK, SharesOutstandingBacked, feeVars
<1> QED
  BY <1>1, <1>7, <1>8, <1>9 DEF FeesInv, feeVars

\* A new fund has no shares.
LEMMA InitFees == Init => FeesInv
<1> SUFFICES ASSUME Init PROVE FeesInv
  OBVIOUS
<1> DEFINE zero == [a \in Accounts |-> 0]
<1>1. AddsUp(shares)
  <2>1. SumOver(zero, Accounts) = 0
    <3>1. \A a \in Accounts : zero[a] \in Nat
      OBVIOUS
    <3>2. \A a \in Accounts \ {} : zero[a] = 0
      OBVIOUS
    <3> HIDE DEF zero
    <3>3. SumOver(zero, Accounts) = SumOver(zero, {})
      BY <3>1, <3>2, AccountsFinite, SumZeros
    <3> QED
      BY <3>3, SumEmpty
  <2>2. shares.balanceOf = zero /\ shares.totalSupply = 0
    BY DEF Init
  <2> QED
    BY <2>1, <2>2 DEF AddsUp
<1>2. TypeOK
  BY AmountsAssumption, UnitsAssumption DEF Init, TypeOK
<1>3. SharesOutstandingBacked
  BY AccountFacts DEF Init, SharesOutstandingBacked
<1> QED
  BY <1>1, <1>2, <1>3 DEF FeesInv, Init

LEMMA NextFees == FeesInv /\ [Next]_vars => FeesInv'
<1> SUFFICES ASSUME FeesInv, [Next]_vars PROVE FeesInv'
  OBVIOUS
<1>1. CASE Invest
  BY <1>1, BuySharesSound DEF Invest
<1>2. ASSUME NEW redeemer \in Holders, NEW quantity \in 1..shares.balanceOf[redeemer],
             NEW all \in BOOLEAN, NEW specific \in BOOLEAN,
             NEW external \in ExternalOutcomes, NEW protocolFee \in ProtocolFees,
             RedeemShares(redeemer, quantity, all, specific, external, protocolFee)
      PROVE  FeesInv'
  <2>1. quantity \in Nat
    OBVIOUS
  <2> QED
    BY <1>2, <2>1, RedeemSharesSound
<1>3. CASE Leave
  BY <1>2, <1>3, TransferSharesSound DEF Leave
<1>4. CASE \E external \in ExternalOutcomes : SettleContinuousFees(external)
  BY <1>4, SettleContinuousSound
<1>5. CASE PayoutSharesOutstanding
  BY <1>5, PayoutSharesOutstandingSound
<1>6. CASE \E paysOut \in BOOLEAN, protocolFee \in ProtocolFees :
             Reactivate(paysOut, protocolFee)
  BY <1>6, ReactivateSound
<1>7. CASE \E value \in Gavs, available \in BOOLEAN : MarketsMove(value, available)
  BY <1>7, AmountsAssumption
     DEF FeesInv, TypeOK, MarketsMove, feeVars, AddsUp, SharesOutstandingBacked
<1>8. CASE Tick
  <2>1. now' \in 1..MaxTime /\ now' = now + 1 /\ now \in Nat
    BY <1>8, AmountsAssumption DEF Tick, FeesInv, TypeOK
  <2>2. UNCHANGED <<shares, marketVars, feeVars>>
    BY <1>8 DEF Tick
  <2> QED
    BY <2>1, <2>2
       DEF FeesInv, TypeOK, marketVars, feeVars, AddsUp, SharesOutstandingBacked
<1>9. CASE UNCHANGED vars
  BY <1>9 DEF FeesInv, TypeOK, vars, marketVars, feeVars, AddsUp,
              SharesOutstandingBacked
<1> QED
  BY <1>1, <1>3, <1>4, <1>5, <1>6, <1>7, <1>8, <1>9 DEF Next

\* The state of a fund's fees and shares has its type in every history of
\* purchases, redemptions, settlements and migrations; in particular no
\* balance and no value falls below zero, and a flagged high-water mark never
\* outlives its transaction.
THEOREM FeesTypeCorrect == Spec => []TypeOK
<1>1. FeesInv => TypeOK
  BY DEF FeesInv
<1> QED
  BY <1>1, InitFees, NextFees, PTL DEF Spec

\* The vault always holds the shares that the FeeManager has outstanding,
\* whatever the third party's fee returns and whoever trades shares meanwhile.
THEOREM OutstandingSharesAreBacked == Spec => []SharesOutstandingBacked
<1>1. FeesInv => SharesOutstandingBacked
  BY DEF FeesInv
<1> QED
  BY <1>1, InitFees, NextFees, PTL DEF Spec

\* No fee, no third party's fee that reverts, and no price that cannot be had
\* keeps a holder from redeeming all of their shares in kind: the settlement is
\* in a try, and what the exit fees take is less than what is redeemed.
THEOREM AlwaysRedeemableInKind == Spec => []RedeemableDespiteFees
<1>1. ASSUME FeesInv, NEW holder \in Holders, NEW external \in ExternalOutcomes,
             shares.balanceOf[holder] > 0
      PROVE  Redemption(holder, shares.balanceOf[holder], TRUE, FALSE, external, 0).ok
  <2> DEFINE balance == shares.balanceOf[holder]
             d == [payer |-> holder, quantity |-> balance, forSpecificAssets |-> FALSE]
             settled == PreRedeemSharesHook(d, 0, external)
             r == PayOutShares(settled, holder, balance, TRUE, FALSE, 0)
             after == settled.shares.balanceOf[holder]
             charged == PayProtocolFee(settled, 0)
             supply == charged.shares.totalSupply
             owed == (gav * after) \div supply
             paidOut == [charged EXCEPT !.gav = @ - owed]
  <2>1. Redemption(holder, balance, TRUE, FALSE, external, 0) = r
    BY DEF Redemption
  <2>2. holder \in Accounts /\ holder # VaultProxy /\ VaultProxy \in Accounts
    BY AccountFacts
  <2>3. Token(shares) /\ balance \in Nat
    BY <1>1, <2>2, SoundFacts, FundIsSound
  <2>4. /\ DataFor("PreRedeemShares", d) /\ SettlementType(external)
        /\ d.quantity \in Nat /\ d.quantity > 0
    BY <1>1, <2>3, ExternalTypes DEF DataFor
  <2>5. Net(shares) >= balance
    <3>1. balance + shares.balanceOf[VaultProxy] <= shares.totalSupply
            /\ shares.balanceOf[VaultProxy] \in Nat /\ shares.totalSupply \in Nat
      BY <2>2, <2>3, WithinSupply
    <3> HIDE DEF balance
    <3> QED
      BY <2>3, <3>1 DEF Net
  <2>6. ExitBurn(Len(Fees), d) \in Nat /\ ExitBurn(Len(Fees), d) < balance
    <3>1. RateDue(d, ExitRate(d)) \in Nat /\ RateDue(d, ExitRate(d)) < balance
      <4>1. ExitRate(d) \in 0..OneHundredPercent - 1
        BY RatesAssumption DEF ExitRate
      <4> QED
        BY <2>4, <4>1, RateDueFacts
    <3> QED
      BY <1>1, <3>1 DEF ExitBurn
  <2>7. /\ Sound(settled) /\ settled.ok
        /\ \/ Net(settled.shares) >= Net(shares)
           \/ Net(settled.shares) + ExitBurn(Len(Fees), d) >= Net(shares)
    <3> HIDE DEF d
    <3> QED
      BY <1>1, <2>4, PreRedeemSound
  <2> HIDE DEF settled, d, balance
  <2>8. settled.shares.totalSupply \in Nat /\ settled.shares.totalSupply > 0
          /\ after \in Nat
    <3>1. Net(settled.shares) \in Nat /\ Net(shares) \in Nat
      BY <1>1, <2>7, SoundFacts, FundIsSound
    <3>2. Net(settled.shares) > 0
      BY <2>3, <2>5, <2>6, <2>7, <3>1
    <3>3. settled.shares.totalSupply \in Nat /\ after \in Nat
            /\ settled.shares.balanceOf[VaultProxy] \in Nat
      BY <2>2, <2>7, SoundFacts
    <3> QED
      BY <3>2, <3>3 DEF Net
  <2>9. /\ Sound(charged) /\ charged.ok
        /\ charged.shares.totalSupply >= settled.shares.totalSupply
        /\ charged.shares.balanceOf[holder] >= after
    <3>1. /\ Sound(charged) /\ charged.ok = settled.ok
          /\ charged.shares.totalSupply >= settled.shares.totalSupply
          /\ \A a \in Accounts \ {ProtocolFeeReserve} :
               charged.shares.balanceOf[a] = settled.shares.balanceOf[a]
          /\ charged.shares.balanceOf[ProtocolFeeReserve]
               >= settled.shares.balanceOf[ProtocolFeeReserve]
      <4>1. 0 \in Nat
        OBVIOUS
      <4> HIDE DEF charged
      <4> QED
        BY <2>7, <4>1, PayProtocolFeeSound DEF charged
    <3> HIDE DEF charged
    <3> QED
      BY <2>2, <2>7, <2>8, <3>1
  <2> HIDE DEF charged
  <2>10. supply # 0 /\ charged \in Funds
    BY <2>8, <2>9, SoundFacts DEF Sound
  <2>11. r = SettleBurn(paidOut, holder, after)
    <3>1. ~(IF after < balance THEN balance - after ELSE 0) > balance
      BY <2>3, <2>8
    <3> QED
      BY <2>10, <3>1 DEF PayOutShares, balance, charged
  <2>12. /\ after <= charged.shares.balanceOf[holder]
         /\ after <= charged.shares.totalSupply
    <3>1. charged.shares.balanceOf[holder] \in Nat
            /\ charged.shares.balanceOf[holder] <= charged.shares.totalSupply
            /\ charged.shares.totalSupply \in Nat
      BY <2>2, <2>9, SoundFacts
    <3> HIDE DEF after
    <3> QED
      BY <2>8, <2>9, <3>1
  <2> HIDE DEF after, owed
  <2>13. SettleBurn(paidOut, holder, after).ok
    BY <2>9, <2>10, <2>12 DEF SettleBurn, Burnable, Funds
  <2> QED
    BY <2>1, <2>11, <2>13 DEF balance
<1>2. FeesInv => RedeemableDespiteFees
  BY <1>1 DEF RedeemableDespiteFees
<1> QED
  BY <1>2, InitFees, NextFees, PTL DEF Spec

-----------------------------------------------------------------------------
(* The high-water mark. *)

\* The recommended order: no fee that mints or burns for its own account
\* settles after the PerformanceFee.
MarkedLast(p) ==
  /\ p \in 1..Len(Fees) /\ Fees[p] = "Performance"
  /\ \A n \in 1..Len(Fees) : n > p => Fees[n] \notin {"Management", "External"}

\* What a fee does to the mark, to the supply, to the reserve and to who pays.
Moves(s, r, fee, hook, d) ==
  /\ fee # "Performance" => r.highWaterMark = s.highWaterMark
  /\ fee \notin {"Management", "External", "Performance"} =>
       r.shares.totalSupply <= s.shares.totalSupply
  /\ fee \in {"Management", "Performance"} =>
       r.shares.totalSupply >= s.shares.totalSupply
  /\ fee # "External" => r.shares.balanceOf[ProtocolFeeReserve]
                           = s.shares.balanceOf[ProtocolFeeReserve]
  /\ hook = "PostBuyShares" =>
       r.shares.balanceOf[d.payer] <= s.shares.balanceOf[d.payer]

LEMMA ReserveFacts ==
  /\ ProtocolFeeReserve \in Accounts \ {FeeRecipient, LockedSharesAddress}
  /\ \A a \in Holders : a # ProtocolFeeReserve
  BY AccountsAssumption DEF Accounts, Holders

LEMMA NothingMoves ==
  ASSUME NEW s, Sound(s), NEW fee, NEW hook, NEW d, DataFor(hook, d)
  PROVE  Moves(s, s, fee, hook, d)
<1>1. s.shares.totalSupply \in Nat
  BY SoundFacts
<1>2. hook = "PostBuyShares" => s.shares.balanceOf[d.payer] \in Nat
  BY SoundFacts, AccountFacts DEF DataFor
<1> QED
  BY <1>1, <1>2 DEF Moves

LEMMA BurnMoves ==
  ASSUME NEW s, Sound(s), NEW fee \in {"EntranceRateBurn", "ExitRateBurn"},
         NEW hook, NEW d, DataFor(hook, d), d.payer \in Holders, NEW due \in Nat,
         NEW r, r = SettleBurn(s, d.payer, due), r.ok
  PROVE  Moves(s, r, fee, hook, d)
<1> DEFINE payer == d.payer
           token == Burn(s.shares, payer, due)
<1>0. /\ s \in Funds /\ payer \in Accounts /\ payer # ProtocolFeeReserve
      /\ ProtocolFeeReserve \in Accounts
  BY AccountFacts, ReserveFacts DEF Sound
<1>1. CASE ~Burnable(s.shares, payer, due)
  BY <1>1, RevertedSound DEF SettleBurn
<1>2. CASE Burnable(s.shares, payer, due)
  <2>1. r = [s EXCEPT !.shares = token]
    BY <1>2 DEF SettleBurn
  <2>2. Token(s.shares) /\ due <= s.shares.balanceOf[payer]
    BY <1>2, SoundFacts DEF Burnable
  <2>3. /\ token.totalSupply = s.shares.totalSupply - due
        /\ token.balanceOf[payer] = s.shares.balanceOf[payer] - due
        /\ token.balanceOf[ProtocolFeeReserve] = s.shares.balanceOf[ProtocolFeeReserve]
    BY <1>0, <2>2, BurnFacts
  <2>4. s.shares.totalSupply \in Nat /\ s.shares.balanceOf[payer] \in Nat
    BY <1>0, SoundFacts
  <2> HIDE DEF token
  <2>5. r.shares = token /\ r.highWaterMark = s.highWaterMark
    BY <1>0, <2>1 DEF Funds
  <2> HIDE DEF payer
  <2>6. token.totalSupply <= s.shares.totalSupply
          /\ token.balanceOf[payer] <= s.shares.balanceOf[payer]
    BY <2>3, <2>4
  <2> QED
    BY <2>3, <2>5, <2>6 DEF Moves, payer
<1> QED
  BY <1>1, <1>2

LEMMA DirectMoves ==
  ASSUME NEW s, Sound(s),
         NEW fee \in {"EntranceRateDirect", "ExitRateDirect", "MinSharesSupply"},
         NEW hook, NEW d, DataFor(hook, d), d.payer \in Holders, NEW due \in Nat,
         NEW payee \in {FeeRecipient, LockedSharesAddress},
         NEW r, r = SettleDirect(s, d.payer, payee, due), r.ok
  PROVE  Moves(s, r, fee, hook, d)
<1> DEFINE payer == d.payer
           token == Transfer(s.shares, payer, payee, due)
<1>0. /\ s \in Funds /\ payer \in Accounts /\ payer # ProtocolFeeReserve
      /\ payee \in Accounts /\ payee # ProtocolFeeReserve
      /\ ProtocolFeeReserve \in Accounts
  BY AccountFacts, ReserveFacts DEF Sound
<1>1. CASE ~(due <= s.shares.balanceOf[payer])
  BY <1>1, RevertedSound DEF SettleDirect
<1>2. CASE due <= s.shares.balanceOf[payer]
  <2>1. r = [s EXCEPT !.shares = token]
    BY <1>2 DEF SettleDirect
  <2>2. Token(s.shares)
    BY SoundFacts
  <2>3. /\ token.totalSupply = s.shares.totalSupply
        /\ token.balanceOf[payer] <= s.shares.balanceOf[payer]
        /\ token.balanceOf[ProtocolFeeReserve] = s.shares.balanceOf[ProtocolFeeReserve]
    BY <1>0, <1>2, <2>2, TransferFacts
  <2>4. s.shares.totalSupply \in Nat /\ s.shares.balanceOf[payer] \in Nat
    BY <1>0, SoundFacts
  <2> HIDE DEF token
  <2>5. r.shares = token /\ r.highWaterMark = s.highWaterMark
    BY <1>0, <2>1 DEF Funds
  <2> HIDE DEF payer
  <2>6. token.totalSupply <= s.shares.totalSupply
    BY <2>3, <2>4
  <2> QED
    BY <2>3, <2>5, <2>6 DEF Moves, payer
<1> QED
  BY <1>1, <1>2

LEMMA MintMoves ==
  ASSUME NEW s, Sound(s), NEW fee \in {"Management", "Performance"}, NEW hook,
         hook # "PostBuyShares", NEW d, NEW due \in Nat, NEW before,
         before.shares = s.shares,
         fee # "Performance" => s.highWaterMark = before.highWaterMark,
         NEW r, r = SettleMint(s, FeeRecipient, due)
  PROVE  Moves(before, r, fee, hook, d)
<1>1. FeeRecipient \in Accounts /\ ProtocolFeeReserve \in Accounts \ {FeeRecipient}
  BY AccountFacts, ReserveFacts
<1>2. /\ r.highWaterMark = s.highWaterMark
      /\ r.shares.totalSupply = s.shares.totalSupply + due
  BY <1>1, SettleMintSound
<1>3. r.shares.balanceOf[ProtocolFeeReserve] = s.shares.balanceOf[ProtocolFeeReserve]
  BY <1>1, SettleMintSound
<1>4. s.shares.totalSupply \in Nat
  BY SoundFacts
<1>5. r.shares.totalSupply >= s.shares.totalSupply
  BY <1>2, <1>4
<1> QED
  BY <1>2, <1>3, <1>5 DEF Moves

\* The performance fee charges nothing, or flags the mark and leaves a price
\* that is no lower.
PerformanceOutcome(s, r, value) ==
  \/ r = s /\ PerformanceSharesDue(value, s.shares.totalSupply, s.highWaterMark) = 0
  \/ /\ r.highWaterMark = ResetHwmFlag
     /\ s.shares.totalSupply > 0
     /\ r.shares.totalSupply >= s.shares.totalSupply
     /\ GrossShareValue(value, r.shares.totalSupply) >= s.highWaterMark
     /\ r.shares.balanceOf[ProtocolFeeReserve] = s.shares.balanceOf[ProtocolFeeReserve]

LEMMA SettlePerformanceOutcome ==
  ASSUME NEW s, Sound(s), NEW value \in Nat, Enabled("Performance"),
         NEW r, r = SettlePerformance(s, value), r.ok
  PROVE  PerformanceOutcome(s, r, value)
<1> DEFINE supply == s.shares.totalSupply
           due == PerformanceSharesDue(value, supply, s.highWaterMark)
           flagged == [s EXCEPT !.highWaterMark = ResetHwmFlag]
<1>0. s \in Funds /\ supply \in Nat
  BY SoundFacts DEF Sound
<1>1. ~PerformanceReverts(value, supply, s.highWaterMark)
  <2>1. PerformanceReverts(value, supply, s.highWaterMark) => r = Reverted(s)
    BY DEF SettlePerformance
  <2> QED
    BY <2>1, RevertedSound
<1>2. CASE due = 0
  BY <1>1, <1>2 DEF SettlePerformance, PerformanceOutcome
<1>3. CASE due # 0
  <2>1. r = SettleMint(flagged, FeeRecipient, due)
    BY <1>1, <1>3 DEF SettlePerformance
  <2>2. AboveMark(value, supply, s.highWaterMark)
    BY <1>3 DEF PerformanceSharesDue
  <2>3. s.highWaterMark \in Nat /\ supply > 0
    BY <2>2, SoundFacts DEF AboveMark
  <2>4. due \in Nat
    BY <1>0, <1>1, <2>2, <2>3, SharesDueFacts
  <2>5. GrossShareValue(value, supply + due) >= s.highWaterMark
    BY <1>0, <1>1, <2>2, <2>3, PerformanceFeeKeepsMark
  <2>6. /\ Sound(flagged) /\ flagged.shares = s.shares
        /\ flagged.highWaterMark = ResetHwmFlag
    BY <1>0 DEF Sound, Funds
  <2>7. FeeRecipient \in Accounts /\ ProtocolFeeReserve \in Accounts \ {FeeRecipient}
    BY AccountFacts, ReserveFacts
  <2> HIDE DEF due, flagged
  <2>8. /\ r.highWaterMark = flagged.highWaterMark
        /\ r.shares.totalSupply = flagged.shares.totalSupply + due
    BY <2>1, <2>4, <2>6, <2>7, SettleMintSound
  <2>9. r.shares.balanceOf[ProtocolFeeReserve]
          = flagged.shares.balanceOf[ProtocolFeeReserve]
    BY <2>1, <2>4, <2>6, <2>7, SettleMintSound
  <2>10. r.shares.totalSupply >= s.shares.totalSupply
    BY <1>0, <2>4, <2>6, <2>8
  <2> QED
    BY <2>3, <2>5, <2>6, <2>8, <2>9, <2>10 DEF PerformanceOutcome
<1> QED
  BY <1>2, <1>3

LEMMA SettleFeeMoves ==
  ASSUME NEW s, Sound(s), s.ok, NEW fee \in Official, Enabled(fee), NEW hook,
         SettlesOnHook(fee, hook), NEW d, DataFor(hook, d), NEW value \in Nat,
         NEW e, now \in 0..MaxTime,
         NEW r, r = SettleFee(s, fee, d, value, e), r.ok
  PROVE  Moves(s, r, fee, hook, d)
<1>1. CASE fee = "Management"
  <2>1. r = SettleManagement(s)
    BY <1>1 DEF SettleFee
  <2>2. hook # "PostBuyShares"
    BY <1>1 DEF SettlesOnHook
  <2>3. /\ r.highWaterMark = s.highWaterMark
        /\ r.shares.totalSupply >= s.shares.totalSupply
    BY <2>1, SettleManagementSound
  <2>4. r.shares.balanceOf[ProtocolFeeReserve] = s.shares.balanceOf[ProtocolFeeReserve]
    <3>1. ProtocolFeeReserve \in Accounts \ {FeeRecipient}
      BY ReserveFacts
    <3> QED
      BY <2>1, <3>1, SettleManagementSound
  <2> QED
    BY <1>1, <2>2, <2>3, <2>4 DEF Moves
<1>2. CASE fee = "Performance"
  <2>1. r = SettlePerformance(s, value)
    BY <1>2 DEF SettleFee
  <2>2. hook # "PostBuyShares"
    BY <1>2 DEF SettlesOnHook
  <2>3. PerformanceOutcome(s, r, value)
    BY <1>2, <2>1, SettlePerformanceOutcome
  <2> QED
    BY <1>2, <2>2, <2>3, NothingMoves DEF Moves, PerformanceOutcome
<1>3. CASE fee \notin {"Management", "Performance"}
  <2>0. d.payer \in Holders /\ d.payer \in Accounts
    <3>1. hook \in {"PostBuyShares", "PreRedeemShares"}
      BY <1>3 DEF SettlesOnHook, Official
    <3> QED
      BY <3>1, AccountFacts DEF DataFor
  <2>1. /\ hook = "PostBuyShares" => RateDue(d, EntranceRate) \in Nat
        /\ hook = "PreRedeemShares" => RateDue(d, ExitRate(d)) \in Nat
    BY RatesFacts, RateDueFacts DEF DataFor
  <2>2. CASE fee \in {"EntranceRateBurn", "ExitRateBurn"}
    <3> DEFINE due == IF fee = "EntranceRateBurn" THEN RateDue(d, EntranceRate)
                                                  ELSE RateDue(d, ExitRate(d))
    <3>1. r = SettleBurn(s, d.payer, due)
      BY <2>2 DEF SettleFee
    <3>2. due \in Nat
      BY <2>1, <2>2 DEF SettlesOnHook
    <3> HIDE DEF due
    <3> QED
      BY <2>0, <2>2, <3>1, <3>2, BurnMoves
  <2>3. CASE fee \in {"EntranceRateDirect", "ExitRateDirect"}
    <3> DEFINE due == IF fee = "EntranceRateDirect" THEN RateDue(d, EntranceRate)
                                                    ELSE RateDue(d, ExitRate(d))
    <3>1. r = SettleDirect(s, d.payer, FeeRecipient, due)
      BY <2>3 DEF SettleFee
    <3>2. due \in Nat
      BY <2>1, <2>3 DEF SettlesOnHook
    <3> HIDE DEF due
    <3> QED
      BY <2>0, <2>3, <3>1, <3>2, DirectMoves
  <2>4. CASE fee = "MinSharesSupply"
    <3> DEFINE locked == s.shares.balanceOf[LockedSharesAddress]
               due == MinSharesSupply - locked
    <3>1. r = SettleMinSharesSupply(s, d.payer)
      BY <2>4 DEF SettleFee
    <3>2. locked \in Nat /\ MinSharesSupply \in Nat
      BY SoundFacts, AccountFacts, UnitsAssumption
    <3>3. CASE locked >= MinSharesSupply
      <4>1. r = s
        BY <3>1, <3>3 DEF SettleMinSharesSupply
      <4> QED
        BY <4>1, NothingMoves
    <3>4. CASE ~(locked >= MinSharesSupply)
      <4>1. r = SettleDirect(s, d.payer, LockedSharesAddress, due)
        BY <3>1, <3>4 DEF SettleMinSharesSupply
      <4>2. due \in Nat
        BY <3>2, <3>4
      <4> HIDE DEF due
      <4> QED
        BY <2>0, <2>4, <4>1, <4>2, DirectMoves
    <3> QED
      BY <3>3, <3>4
  <2> QED
    BY <1>3, <2>2, <2>3, <2>4 DEF Official
<1> QED
  BY <1>1, <1>2, <1>3

\* The third party's fee leaves the mark alone.
LEMMA SettleExternalMark ==
  ASSUME NEW s, Sound(s), NEW e
  PROVE  SettleExternal(s, e).highWaterMark = s.highWaterMark
  BY DEF SettleExternal, SettleMint, SettleBurn, Reverted, Require, Sound, Funds

\* What a fee makes of the fund on a hook, whether it settles or not.
LEMMA SettleOnHookMoves ==
  ASSUME NEW s, Sound(s), NEW fee \in Official \cup {"External"}, Enabled(fee),
         NEW hook, NEW d, DataFor(hook, d), NEW value \in Nat,
         NEW e, SettlementType(e), now \in 0..MaxTime,
         NEW r, r = SettleOnHook(s, fee, hook, d, value, e), r.ok
  PROVE  /\ s.ok
         /\ fee # "External" => Moves(s, r, fee, hook, d)
         /\ fee = "External" => r.highWaterMark = s.highWaterMark
         /\ ~SettlesOnHook(fee, hook) => r = s
         /\ fee = "Performance" /\ SettlesOnHook(fee, hook) =>
              PerformanceOutcome(s, r, value)
<1>1. CASE s.ok /\ SettlesOnHook(fee, hook)
  <2>1. r = SettleFee(s, fee, d, value, e)
    BY <1>1 DEF SettleOnHook
  <2>2. fee # "External" => Moves(s, r, fee, hook, d)
    BY <1>1, <2>1, SettleFeeMoves
  <2>3. fee = "External" => r.highWaterMark = s.highWaterMark
    BY <2>1, SettleExternalMark DEF SettleFee
  <2>4. fee = "Performance" => PerformanceOutcome(s, r, value)
    BY <2>1, SettlePerformanceOutcome DEF SettleFee
  <2> QED
    BY <1>1, <2>2, <2>3, <2>4
<1>2. CASE ~(s.ok /\ SettlesOnHook(fee, hook))
  <2>1. r = s
    BY <1>2 DEF SettleOnHook
  <2> QED
    BY <1>2, <2>1, NothingMoves
<1> QED
  BY <1>1, <1>2

\* Fewer shares are worth more each.
LEMMA FewerSharesDearer ==
  ASSUME NEW value \in Nat, NEW few \in Nat, NEW many \in Nat, few > 0, few <= many
  PROVE  GrossShareValue(value, few) >= GrossShareValue(value, many)
<1> DEFINE x == value * SharesUnit
           y == x \div many
<1>1. x \in Nat
  BY Constants, SMT
<1>2. /\ GrossShareValue(value, few) = x \div few
      /\ GrossShareValue(value, many) = y
  BY DEF GrossShareValue
<1> HIDE DEF x
<1>3. y \in Nat /\ many * y <= x /\ x \div few \in Nat
  BY <1>1, DivFacts
<1> HIDE DEF y
<1>4. few * y <= many * y /\ few * y \in Nat /\ many * y \in Nat
  BY <1>3, Products
<1>5. few * y <= x
  BY <1>1, <1>3, <1>4
<1>6. y <= x \div few
  BY <1>1, <1>3, <1>5, DivLargest
<1> QED
  BY <1>2, <1>3, <1>6

\* What the fees of a hook at which the PerformanceFee settles make of the
\* mark: it stays, or is flagged while the price is no lower.
Marked(s, x, value, hook) ==
  \/ /\ x.highWaterMark = s.highWaterMark
     /\ hook # "PreRedeemShares" =>
          PerformanceSharesDue(value, x.shares.totalSupply, s.highWaterMark) = 0
  \/ /\ x.highWaterMark = ResetHwmFlag
     /\ hook # "PreRedeemShares" => x.shares.totalSupply > 0
     /\ x.shares.totalSupply > 0 =>
          GrossShareValue(value, x.shares.totalSupply) >= s.highWaterMark

LEMMA SettleFeesMark ==
  ASSUME NEW s, Sound(s), s.highWaterMark \in Nat, NEW p, MarkedLast(p),
         NEW hook \in Hooks \ {"PostBuyShares"}, NEW d, DataFor(hook, d),
         NEW value \in Nat, NEW e, SettlementType(e), now \in 0..MaxTime,
         NEW r, r = SettleFees(s, hook, d, value, e), r.ok
  PROVE  Marked(s, r, value, hook)
<1>1. PICK settled : InTurn(settled, s, hook, d, value, e)
  BY SettledInTurn
<1> DEFINE P == {n \in Nat :
                   /\ Sound(settled[n])
                   /\ settled[n].ok =>
                        IF n < p THEN settled[n].highWaterMark = s.highWaterMark
                                 ELSE Marked(s, settled[n], value, hook)}
<1>0. Len(Fees) \in Nat /\ p \in 1..Len(Fees) /\ Fees[p] = "Performance"
  BY FeesAssumption DEF MarkedLast
<1>2. 0 \in P
  BY <1>0, <1>1 DEF InTurn
<1>3. ASSUME NEW n \in 0..(Len(Fees) - 1), n \in P PROVE n + 1 \in P
  <2> DEFINE x == settled[n]
             y == settled[n + 1]
             fee == Fees[n + 1]
  <2>1. n + 1 \in 1..Len(Fees) /\ n \in Nat /\ (n + 1) - 1 = n
    BY <1>0
  <2>2. y = SettleOnHook(x, fee, hook, d, value, e)
    BY <1>1, <2>1 DEF InTurn
  <2>3. fee \in Official \cup {"External"} /\ Enabled(fee)
    BY <2>1, FeesAssumption DEF Enabled
  <2>4. fee = "Performance" => n + 1 = p
    <3>1. n + 1 \in DOMAIN Fees /\ p \in DOMAIN Fees
      BY <1>0, <2>1, FeesAssumption
    <3> QED
      BY <1>0, <3>1, FeesAssumption DEF IsInjective
  <2>5. Sound(x) /\ (x.ok => IF n < p THEN x.highWaterMark = s.highWaterMark
                                      ELSE Marked(s, x, value, hook))
    BY <1>3
  <2>6. n + 1 > p => fee \notin {"Management", "External"}
    BY <2>1 DEF MarkedLast
  <2>7. fee = "Performance" => SettlesOnHook(fee, hook)
    BY DEF SettlesOnHook, Hooks
  <2>8. n + 1 = p => fee = "Performance"
    BY <1>0
  <2> HIDE DEF x, y, fee
  <2>9. Sound(y)
    BY <2>2, <2>3, <2>5, SettleOnHookSound
  <2>10. ASSUME y.ok
         PROVE  IF n + 1 < p THEN y.highWaterMark = s.highWaterMark
                             ELSE Marked(s, y, value, hook)
    <3>1. /\ x.ok
          /\ fee # "External" => Moves(x, y, fee, hook, d)
          /\ fee = "External" => y.highWaterMark = x.highWaterMark
          /\ ~SettlesOnHook(fee, hook) => y = x
          /\ fee = "Performance" => PerformanceOutcome(x, y, value)
      BY <2>2, <2>3, <2>5, <2>7, <2>10, SettleOnHookMoves
    <3>2. x.shares.totalSupply \in Nat /\ y.shares.totalSupply \in Nat
      BY <2>5, <2>9, SoundFacts
    <3>3. CASE n + 1 < p
      <4>1. fee # "Performance" /\ n < p
        BY <1>0, <2>1, <2>4, <3>3
      <4> QED
        BY <2>5, <3>1, <3>3, <4>1 DEF Moves
    <3>4. CASE n + 1 = p
      <4>1. x.highWaterMark = s.highWaterMark
        BY <1>0, <2>1, <2>5, <3>1, <3>4
      <4>2. PerformanceOutcome(x, y, value)
        BY <2>8, <3>1, <3>4
      <4>3. Marked(s, y, value, hook)
        BY <3>2, <4>1, <4>2 DEF PerformanceOutcome, Marked
      <4> QED
        BY <2>1, <3>4, <4>3
    <3>5. CASE n + 1 > p
      <4>1. fee \notin {"Performance", "Management", "External"} /\ ~(n < p)
              /\ ~(n + 1 < p)
        BY <1>0, <2>1, <2>4, <2>6, <3>5
      <4>2. /\ y.highWaterMark = x.highWaterMark
            /\ y.shares.totalSupply <= x.shares.totalSupply
        BY <3>1, <4>1 DEF Moves
      <4>3. hook # "PreRedeemShares" => y = x
        BY <2>3, <3>1, <4>1 DEF SettlesOnHook, Official, Hooks
      <4>4. Marked(s, x, value, hook)
        BY <2>5, <3>1, <4>1
      <4>5. y.shares.totalSupply > 0 =>
              GrossShareValue(value, y.shares.totalSupply)
                >= GrossShareValue(value, x.shares.totalSupply)
        BY <3>2, <4>2, FewerSharesDearer
      <4>6. /\ GrossShareValue(value, y.shares.totalSupply) \in Nat
            /\ GrossShareValue(value, x.shares.totalSupply) \in Nat
        BY <3>2, GrossShareValueFacts
      <4>7. Marked(s, y, value, hook)
        <5>1. CASE hook # "PreRedeemShares"
          BY <4>3, <4>4, <5>1
        <5>2. CASE hook = "PreRedeemShares"
          BY <3>2, <4>2, <4>4, <4>5, <4>6, <5>2 DEF Marked
        <5> QED
          BY <5>1, <5>2
      <4> QED
        BY <4>1, <4>7
    <3> QED
      BY <1>0, <2>1, <3>3, <3>4, <3>5
  <2> QED
    BY <2>1, <2>9, <2>10 DEF y
<1>4. \A n \in 0..Len(Fees) : n \in P
  <2> HIDE DEF P
  <2> QED
    BY <1>0, <1>2, <1>3, InductionUpTo
<1>5. Len(Fees) \in P
  BY <1>0, <1>4
<1>6. ~(Len(Fees) < p)
  BY <1>0
<1> QED
  BY <1>1, <1>5, <1>6 DEF InTurn

\* Without a third party's fee: the reserve gets nothing, a purchase mints
\* before and takes after.
LEMMA SettleFeesMove ==
  ASSUME ~Enabled("External"),
         NEW s, Sound(s), NEW hook, NEW d, DataFor(hook, d),
         NEW value \in Nat, NEW e, SettlementType(e), now \in 0..MaxTime,
         NEW r, r = SettleFees(s, hook, d, value, e), r.ok
  PROVE  /\ r.shares.balanceOf[ProtocolFeeReserve]
              = s.shares.balanceOf[ProtocolFeeReserve]
         /\ hook = "PreBuyShares" => r.shares.totalSupply >= s.shares.totalSupply
         /\ hook = "PostBuyShares" =>
              /\ r.highWaterMark = s.highWaterMark
              /\ r.shares.totalSupply <= s.shares.totalSupply
              /\ r.shares.balanceOf[d.payer] <= s.shares.balanceOf[d.payer]
<1>1. PICK settled : InTurn(settled, s, hook, d, value, e)
  BY SettledInTurn
<1> DEFINE Moved(x) ==
             /\ x.shares.balanceOf[ProtocolFeeReserve]
                  = s.shares.balanceOf[ProtocolFeeReserve]
             /\ hook = "PreBuyShares" => x.shares.totalSupply >= s.shares.totalSupply
             /\ hook = "PostBuyShares" =>
                  /\ x.highWaterMark = s.highWaterMark
                  /\ x.shares.totalSupply <= s.shares.totalSupply
                  /\ x.shares.balanceOf[d.payer] <= s.shares.balanceOf[d.payer]
           P == {n \in Nat : Sound(settled[n]) /\ (settled[n].ok => Moved(settled[n]))}
<1>0. Len(Fees) \in Nat
  BY FeesAssumption
<1>00. ASSUME NEW x, Sound(x)
       PROVE  /\ x.shares.totalSupply \in Nat
              /\ hook = "PostBuyShares" => x.shares.balanceOf[d.payer] \in Nat
  <2>1. hook = "PostBuyShares" => d.payer \in Accounts
    BY AccountFacts DEF DataFor
  <2> QED
    BY <1>00, <2>1, SoundFacts
<1>2. 0 \in P
  <2>1. settled[0] = s
    BY <1>1 DEF InTurn
  <2>2. Moved(s)
    BY <1>00
  <2> QED
    BY <2>1, <2>2
<1>3. ASSUME NEW n \in 0..(Len(Fees) - 1), n \in P PROVE n + 1 \in P
  <2> DEFINE x == settled[n]
             y == settled[n + 1]
             fee == Fees[n + 1]
  <2>1. n + 1 \in 1..Len(Fees) /\ n \in Nat /\ (n + 1) - 1 = n
    BY <1>0
  <2>2. y = SettleOnHook(x, fee, hook, d, value, e)
    BY <1>1, <2>1 DEF InTurn
  <2>3. fee \in Official \cup {"External"} /\ Enabled(fee) /\ fee # "External"
    BY <2>1, FeesAssumption DEF Enabled
  <2>4. Sound(x) /\ (x.ok => Moved(x))
    BY <1>3
  <2> HIDE DEF x, y, fee
  <2>5. Sound(y)
    BY <2>2, <2>3, <2>4, SettleOnHookSound
  <2>6. ASSUME y.ok PROVE Moved(y)
    <3>1. /\ x.ok /\ Moves(x, y, fee, hook, d)
          /\ ~SettlesOnHook(fee, hook) => y = x
      BY <2>2, <2>3, <2>4, <2>6, SettleOnHookMoves
    <3>2. /\ x.shares.totalSupply \in Nat /\ y.shares.totalSupply \in Nat
          /\ s.shares.totalSupply \in Nat
      BY <1>00, <2>4, <2>5
    <3>3. hook = "PostBuyShares" =>
            /\ x.shares.balanceOf[d.payer] \in Nat /\ y.shares.balanceOf[d.payer] \in Nat
            /\ s.shares.balanceOf[d.payer] \in Nat
      BY <1>00, <2>4, <2>5
    <3>4. Moved(x)
      BY <2>4, <3>1
    <3>5. hook = "PreBuyShares" => y.shares.totalSupply >= s.shares.totalSupply
      <4>1. CASE fee \in {"Management", "Performance"}
        BY <3>1, <3>2, <3>4, <4>1 DEF Moves
      <4>2. CASE fee \notin {"Management", "Performance"}
        <5>1. hook = "PreBuyShares" => ~SettlesOnHook(fee, hook)
          BY <2>3, <4>2 DEF SettlesOnHook, Official
        <5> QED
          BY <3>1, <3>4, <5>1
      <4> QED
        BY <4>1, <4>2
    <3>6. hook = "PostBuyShares" =>
            /\ y.highWaterMark = s.highWaterMark
            /\ y.shares.totalSupply <= s.shares.totalSupply
      <4>1. CASE fee \in {"Management", "Performance"}
        <5>1. hook = "PostBuyShares" => ~SettlesOnHook(fee, hook)
          BY <4>1 DEF SettlesOnHook
        <5> QED
          BY <3>1, <3>4, <5>1
      <4>2. CASE fee \notin {"Management", "Performance"}
        BY <2>3, <3>1, <3>2, <3>4, <4>2 DEF Moves
      <4> QED
        BY <4>1, <4>2
    <3>7. hook = "PostBuyShares" =>
            y.shares.balanceOf[d.payer] <= s.shares.balanceOf[d.payer]
      BY <3>1, <3>3, <3>4 DEF Moves
    <3>8. y.shares.balanceOf[ProtocolFeeReserve] = s.shares.balanceOf[ProtocolFeeReserve]
      BY <2>3, <3>1, <3>4 DEF Moves
    <3> QED
      BY <3>5, <3>6, <3>7, <3>8
  <2> QED
    BY <2>1, <2>5, <2>6 DEF y
<1>4. \A n \in 0..Len(Fees) : n \in P
  <2> HIDE DEF P
  <2> QED
    BY <1>0, <1>2, <1>3, InductionUpTo
<1>5. Len(Fees) \in P
  BY <1>0, <1>4
<1> QED
  BY <1>1, <1>5 DEF InTurn

\* The hooks that update the mark.
LEMMA HookMark ==
  ASSUME FeesInv, NEW p, MarkedLast(p), NEW hook \in {"PreRedeemShares", "Continuous"},
         NEW d, DataFor(hook, d), NEW knownGav \in {0, gav},
         NEW e, SettlementType(e),
         NEW r, r = InvokeHook(Fund, hook, d, knownGav, e), r.ok
  PROVE  /\ \/ r.highWaterMark = highWaterMark
            \/ r.shares.totalSupply > 0 => r.highWaterMark >= highWaterMark
         /\ hook = "Continuous" =>
              /\ r.highWaterMark >= highWaterMark
              /\ PerformanceSharesDue(gav, r.shares.totalSupply, r.highWaterMark) = 0
<1> DEFINE value == IF knownGav = 0 THEN gav ELSE knownGav
           x == SettleFees(Fund, hook, d, value, e)
<1>1. /\ Sound(Fund) /\ Fund.highWaterMark = highWaterMark /\ gav \in Nat
      /\ now \in 0..MaxTime /\ highWaterMark \in Nat
  BY FundIsSound DEF Fund
<1>2. value = gav
  OBVIOUS
<1>3. ~(Enabled("Performance") /\ knownGav = 0 /\ ~priced)
  <2>1. (Enabled("Performance") /\ knownGav = 0 /\ ~priced) => r = Reverted(Fund)
    BY DEF InvokeHook
  <2> QED
    BY <1>1, <2>1, RevertedSound
<1>4. r = UpdateFees(x, hook, value)
  BY <1>3 DEF InvokeHook
<1>5. Sound(x)
  BY <1>1, <1>2, SettleFeesSound
<1>6. x \in Funds /\ x.shares.totalSupply \in Nat
  BY <1>5, SoundFacts DEF Sound
<1>7. Enabled("Performance")
  BY FeesAssumption DEF MarkedLast, Enabled
<1>8. x.ok
  <2> HIDE DEF x
  <2> QED
    BY <1>4, <1>6 DEF UpdateFees, Funds
<1>9. Marked(Fund, x, gav, hook)
  <2>1. hook \in Hooks \ {"PostBuyShares"}
    BY DEF Hooks
  <2> QED
    BY <1>1, <1>2, <1>8, <2>1, SettleFeesMark
<1> HIDE DEF x, value
<1>10. CASE x.highWaterMark = ResetHwmFlag
  <2>1. r = [x EXCEPT !.highWaterMark = GrossShareValue(gav, x.shares.totalSupply)]
    BY <1>2, <1>4, <1>7, <1>8, <1>10 DEF UpdateFees, PerformanceUpdatesOnHook
  <2>2. /\ r.highWaterMark = GrossShareValue(gav, x.shares.totalSupply)
        /\ r.shares = x.shares
    BY <1>6, <2>1 DEF Funds
  <2>3. highWaterMark # ResetHwmFlag
    BY <1>1, UnitsAssumption
  <2>4. GrossShareValue(gav, x.shares.totalSupply) \in Nat
    BY <1>1, <1>6, GrossShareValueFacts
  <2>5. PerformanceSharesDue(gav, r.shares.totalSupply, r.highWaterMark) = 0
    BY <2>2, <2>4 DEF PerformanceSharesDue, AboveMark
  <2> QED
    BY <1>1, <1>9, <1>10, <2>2, <2>3, <2>5 DEF Marked
<1>11. CASE x.highWaterMark # ResetHwmFlag
  <2>1. r = x
    BY <1>4, <1>11 DEF UpdateFees
  <2>2. /\ r.highWaterMark = highWaterMark
        /\ hook # "PreRedeemShares" =>
             PerformanceSharesDue(gav, r.shares.totalSupply, highWaterMark) = 0
    BY <1>1, <1>9, <1>11, <2>1 DEF Marked
  <2> QED
    BY <1>1, <2>2
<1> QED
  BY <1>10, <1>11

\* A purchase at the price, rounded down, does not lower the price.
LEMMA PurchaseKeepsPrice ==
  ASSUME NEW value \in Nat, NEW supply \in Nat, supply > 0, NEW investment \in Nat,
         NEW price, price = GrossShareValue(value, supply), price # 0,
         NEW issued, issued = (investment * SharesUnit) \div price
  PROVE  GrossShareValue(value + investment, supply + issued) >= price
<1> DEFINE held == value * SharesUnit
           added == investment * SharesUnit
<1>1. held \in Nat /\ added \in Nat /\ SharesUnit \in Nat
  BY Constants, SMT
<1>2. (value + investment) * SharesUnit = held + added
  BY Constants, SMT
<1>3. price = held \div supply
  BY DEF GrossShareValue
<1>4. issued = added \div price
  OBVIOUS
<1> HIDE DEF held, added
<1>5. price \in Nat /\ supply * price <= held
  BY <1>1, <1>3, DivFacts
<1>6. issued \in Nat /\ price * issued <= added
  BY <1>1, <1>4, <1>5, DivFacts
<1>7. (supply + issued) * price = supply * price + price * issued
  BY <1>5, <1>6, SMT
<1>8. supply * price \in Nat /\ price * issued \in Nat
  BY <1>5, <1>6, SMT
<1>9. (supply + issued) * price <= held + added
  BY <1>1, <1>5, <1>6, <1>7, <1>8
<1>10. held + added \in Nat /\ supply + issued \in Nat /\ supply + issued > 0
  BY <1>1, <1>6
<1>11. price <= (held + added) \div (supply + issued)
  BY <1>5, <1>9, <1>10, DivLargest
<1>12. GrossShareValue(value + investment, supply + issued)
         = (held + added) \div (supply + issued)
  BY <1>2, <1>10 DEF GrossShareValue
<1>13. (held + added) \div (supply + issued) \in Nat
  BY <1>10, DivFacts
<1> QED
  BY <1>5, <1>11, <1>12, <1>13

\* Shares minted for nothing lower the price by their part of the shares.
LEMMA DilutionBound ==
  ASSUME NEW value \in Nat, NEW before \in Nat, NEW supply \in Nat,
         before <= supply, supply > 0, NEW paid \in Nat, paid > 0, NEW mark \in Nat,
         GrossShareValue(value, supply) >= mark
  PROVE  GrossShareValue(value, supply + paid)
           >= (mark * before) \div (before + paid)
<1> DEFINE held == value * SharesUnit
           q == (mark * before) \div (before + paid)
           rest == supply - before
<1>1. held \in Nat /\ mark * before \in Nat
  BY Constants, SMT
<1>2. /\ GrossShareValue(value, supply) = held \div supply
      /\ GrossShareValue(value, supply + paid) = held \div (supply + paid)
  BY DEF GrossShareValue
<1>3. rest \in Nat /\ supply = before + rest /\ before + paid \in Nat /\ before + paid > 0
        /\ supply + paid \in Nat /\ supply + paid > 0
  OBVIOUS
<1> HIDE DEF held
<1>4. held \div supply \in Nat /\ supply * (held \div supply) <= held
  BY <1>1, DivFacts
<1>5. mark * supply <= held /\ mark * supply \in Nat
  <2> DEFINE price == held \div supply
  <2>1. price \in Nat /\ supply * price <= held /\ mark <= price
    BY <1>2, <1>4
  <2> HIDE DEF price
  <2>2. mark * supply <= price * supply /\ mark * supply \in Nat /\ price * supply \in Nat
    BY <2>1, Products
  <2>3. price * supply = supply * price
    BY <2>1, SMT
  <2> QED
    BY <1>1, <2>1, <2>2, <2>3
<1>6. q \in Nat /\ (before + paid) * q <= mark * before
  <2> DEFINE product == mark * before
  <2>1. product \in Nat
    BY <1>1
  <2> HIDE DEF product
  <2>2. product \div (before + paid) \in Nat
          /\ (before + paid) * (product \div (before + paid)) <= product
    BY <1>3, <2>1, DivFacts
  <2> QED
    BY <2>2 DEF product
<1> HIDE DEF q, rest
<1>7. q <= mark
  <2>1. q * (before + paid) = (before + paid) * q
    BY <1>3, <1>6, SMT
  <2>2. mark * (before + paid) = mark * before + mark * paid
    BY SMT
  <2>3. mark * paid \in Nat /\ (before + paid) * q \in Nat
    BY <1>3, <1>6, SMT
  <2>4. q * (before + paid) <= mark * (before + paid)
    BY <1>1, <1>6, <2>1, <2>2, <2>3
  <2> QED
    BY <1>3, <1>6, <2>4, Cancel
<1>8. (supply + paid) * q = (before + paid) * q + q * rest
  BY <1>3, <1>6, SMT
<1>9. q * rest <= mark * rest /\ q * rest \in Nat /\ mark * rest \in Nat
  BY <1>3, <1>6, <1>7, Products
<1>10. mark * supply = mark * before + mark * rest
  BY <1>3, SMT
<1>11. (before + paid) * q \in Nat
  BY <1>3, <1>6, SMT
<1>12. (supply + paid) * q <= held
  BY <1>1, <1>5, <1>6, <1>8, <1>9, <1>10, <1>11
<1>13. q <= held \div (supply + paid) /\ held \div (supply + paid) \in Nat
  BY <1>1, <1>3, <1>6, <1>12, DivLargest, DivFacts
<1> QED
  BY <1>2, <1>6, <1>13 DEF q

\* What HighWaterMarkHolds says of a purchase.
Diluted ==
  LET paid == shares'.balanceOf[ProtocolFeeReserve]
                - shares.balanceOf[ProtocolFeeReserve]
  IN  /\ gav' > gav /\ paid > 0
      /\ highWaterMark' >= (highWaterMark * shares.totalSupply)
                             \div (shares.totalSupply + paid)

LEMMA BuySharesMark ==
  ASSUME FeesInv, NEW p, MarkedLast(p), ~Enabled("External"),
         NEW buyer \in Investors, NEW investment \in Investments,
         NEW external \in ExternalOutcomes, NEW protocolFee \in ProtocolFees,
         BuyShares(buyer, investment, external, protocolFee)
  PROVE  highWaterMark' >= highWaterMark \/ Diluted
<1> DEFINE x == SettleFees(Fund, "PreBuyShares", NoData, gav, external)
           settled == InvokeHook(Fund, "PreBuyShares", NoData, gav, external)
           r == IssueShares(settled, buyer, investment, external, protocolFee)
           charged == PayProtocolFee(x, protocolFee)
           price == GrossShareValue(gav, charged.shares.totalSupply)
           issued == (investment * SharesUnit) \div price
           valued == [charged EXCEPT !.gav = @ + investment]
           minted == SettleMint(valued, buyer, issued)
           d == [payer |-> buyer, quantity |-> issued]
           value == gav + investment
           post == InvokeHook(minted, "PostBuyShares", d, value, external)
           z == SettleFees(minted, "PostBuyShares", d, value, external)
           more == post.shares.balanceOf[buyer] > charged.shares.balanceOf[buyer]
<1>1. /\ Sound(Fund) /\ Fund.highWaterMark = highWaterMark /\ gav \in Nat
      /\ Fund.shares = shares /\ Fund.gav = gav /\ now \in 0..MaxTime
      /\ highWaterMark \in Nat /\ highWaterMark # ResetHwmFlag
  BY FundIsSound, UnitsAssumption DEF Fund
<1>2. investment \in Nat /\ protocolFee \in Nat /\ value \in Nat
        /\ SettlementType(external)
  BY <1>1, AmountsAssumption, ExternalTypes
<1>3. Becomes(r) /\ priced
  BY DEF BuyShares
<1>4. settled = x
  BY <1>3 DEF InvokeHook, UpdateFees, PerformanceUpdatesOnHook
<1>5. r.ok /\ shares' = r.shares /\ highWaterMark' = r.highWaterMark /\ gav' = r.gav
  BY <1>3 DEF Becomes
<1>6. DataFor("PreBuyShares", NoData) /\ "PreBuyShares" \in Hooks \ {"PostBuyShares"}
  BY DEF DataFor, Hooks
<1>7. Sound(x) /\ x.gav = gav
  BY <1>1, <1>2, <1>6, SettleFeesSound
<1> HIDE DEF x, settled
<1>8. price # 0 /\ r = Require(post, more)
  <2>1. price = 0 => r = Reverted(x)
    BY <1>4 DEF IssueShares
  <2>2. price # 0
    BY <1>5, <1>7, <2>1, RevertedSound
  <2> QED
    BY <1>4, <2>2 DEF IssueShares
<1>9. Sound(charged) /\ charged.gav = gav /\ charged.ok = x.ok
        /\ charged.highWaterMark = x.highWaterMark
        /\ charged.shares.totalSupply \in Nat
  BY <1>2, <1>7, PayProtocolFeeSound, SoundFacts
<1>10. price \in Nat
  BY <1>1, <1>9, GrossShareValueFacts
<1>11. issued \in Nat /\ (investment = 0 => issued = 0)
  <2> DEFINE added == investment * SharesUnit
  <2>1. added \in Nat /\ (investment = 0 => added = 0)
    BY <1>2, Constants, SMT
  <2> HIDE DEF added, price
  <2>2. added \div price \in Nat /\ (added = 0 => added \div price = 0)
    BY <1>8, <1>10, <2>1, DivFacts
  <2> QED
    BY <2>1, <2>2 DEF added
<1> HIDE DEF charged, price, issued, r
<1>12. Sound(valued) /\ valued.shares = charged.shares /\ valued.ok = charged.ok
         /\ valued.highWaterMark = charged.highWaterMark /\ valued.gav = value
  <2>1. charged.gav + investment \in Nat /\ charged.gav + investment = value
    BY <1>2, <1>9
  <2> HIDE DEF value
  <2> QED
    BY <1>9, <2>1, SoundGav
<1> HIDE DEF valued
<1>13. buyer \in Holders /\ buyer \in Accounts /\ ProtocolFeeReserve \in Accounts \ {buyer}
  BY AccountFacts, ReserveFacts
<1>14. /\ Sound(minted) /\ minted.ok = x.ok /\ minted.highWaterMark = x.highWaterMark
       /\ minted.gav = value
       /\ minted.shares.totalSupply = charged.shares.totalSupply + issued
       /\ minted.shares.balanceOf[buyer] = charged.shares.balanceOf[buyer] + issued
  <2>1. /\ Sound(minted) /\ minted.ok = valued.ok
        /\ minted.highWaterMark = valued.highWaterMark
        /\ minted.gav = valued.gav
        /\ minted.shares.totalSupply = valued.shares.totalSupply + issued
        /\ minted.shares.balanceOf[buyer] = valued.shares.balanceOf[buyer] + issued
    <3>1. Issues(valued, minted, buyer, issued)
      BY <1>11, <1>12, <1>13, SettleMintIssues
    <3> QED
      BY <3>1 DEF Issues
  <2> QED
    BY <1>9, <1>12, <2>1
<1>15. minted.shares.balanceOf[ProtocolFeeReserve]
         = charged.shares.balanceOf[ProtocolFeeReserve]
  BY <1>11, <1>12, <1>13, SettleMintSound
<1> HIDE DEF minted
<1>16. DataFor("PostBuyShares", d) /\ d.payer = buyer
  BY <1>11, <1>13 DEF DataFor
<1> HIDE DEF d
<1>17. post = UpdateFees(z, "PostBuyShares", value)
  <2>1. value = IF value = 0 THEN gav ELSE value
    BY <1>1, <1>2
  <2> HIDE DEF value
  <2> QED
    BY <1>3, <2>1 DEF InvokeHook
<1>18. Sound(z) /\ z.gav = value /\ (z.ok => minted.ok)
  BY <1>1, <1>2, <1>14, <1>16, SettleFeesSound
<1>19. Sound(post) /\ post.ok = z.ok /\ post.shares = z.shares /\ post.gav = z.gav
  <2>1. "PostBuyShares" \in Hooks
    BY DEF Hooks
  <2>2. Sound(post)
    BY <1>1, <1>2, <1>14, <1>16, <2>1, InvokeHookSound
  <2>3. z \in Funds
    BY <1>18 DEF Sound
  <2> HIDE DEF z
  <2>4. /\ UpdateFees(z, "PostBuyShares", value).ok = z.ok
        /\ UpdateFees(z, "PostBuyShares", value).shares = z.shares
        /\ UpdateFees(z, "PostBuyShares", value).gav = z.gav
    BY <2>3 DEF UpdateFees, Funds
  <2> QED
    BY <1>17, <2>2, <2>4
<1> HIDE DEF z, post
<1>20. /\ r.ok = (post.ok /\ more) /\ r.shares = post.shares
       /\ r.highWaterMark = post.highWaterMark /\ r.gav = post.gav
  <2>1. more \in BOOLEAN
    OBVIOUS
  <2> HIDE DEF more
  <2> QED
    BY <1>8, <1>19, <2>1, RequireSound
<1>21. z.ok /\ more /\ minted.ok /\ x.ok
  BY <1>5, <1>14, <1>18, <1>19, <1>20
<1>22. /\ z.shares.balanceOf[ProtocolFeeReserve]
            = minted.shares.balanceOf[ProtocolFeeReserve]
       /\ z.highWaterMark = minted.highWaterMark
       /\ z.shares.totalSupply <= minted.shares.totalSupply
       /\ z.shares.balanceOf[buyer] <= minted.shares.balanceOf[buyer]
  <2>1. /\ z.shares.balanceOf[ProtocolFeeReserve]
             = minted.shares.balanceOf[ProtocolFeeReserve]
        /\ z.highWaterMark = minted.highWaterMark
        /\ z.shares.totalSupply <= minted.shares.totalSupply
        /\ z.shares.balanceOf[d.payer] <= minted.shares.balanceOf[d.payer]
    BY <1>1, <1>2, <1>14, <1>16, <1>21, SettleFeesMove DEF z
  <2> QED
    BY <1>16, <2>1
<1>23. /\ x.shares.balanceOf[ProtocolFeeReserve] = shares.balanceOf[ProtocolFeeReserve]
       /\ x.shares.totalSupply >= shares.totalSupply
  BY <1>1, <1>2, <1>6, <1>21, SettleFeesMove DEF x
<1>24. Marked(Fund, x, gav, "PreBuyShares")
  BY <1>1, <1>2, <1>6, <1>21, SettleFeesMark DEF x
<1>25. CASE x.highWaterMark # ResetHwmFlag
  <2>1. x.highWaterMark = highWaterMark
    BY <1>1, <1>24, <1>25 DEF Marked
  <2>2. z.highWaterMark = highWaterMark
    BY <1>14, <1>22, <2>1
  <2>3. post = z
    BY <1>1, <1>17, <2>2 DEF UpdateFees
  <2> QED
    BY <1>1, <1>5, <1>20, <2>2, <2>3
<1>26. CASE x.highWaterMark = ResetHwmFlag
  <2>1. /\ x.shares.totalSupply > 0
        /\ GrossShareValue(gav, x.shares.totalSupply) >= highWaterMark
    BY <1>1, <1>24, <1>26 DEF Marked
  <2>2. post.highWaterMark = GrossShareValue(value, z.shares.totalSupply)
    <3>1. z.highWaterMark = ResetHwmFlag
      BY <1>14, <1>22, <1>26
    <3>2. Enabled("Performance") /\ z \in Funds
      BY <1>18, FeesAssumption DEF MarkedLast, Enabled, Sound
    <3> QED
      BY <1>17, <1>21, <3>1, <3>2 DEF UpdateFees, PerformanceUpdatesOnHook, Funds
  <2> DEFINE S0 == shares.totalSupply
             S1 == x.shares.totalSupply
             S2 == charged.shares.totalSupply
             S3 == z.shares.totalSupply
  <2>3. /\ S0 \in Nat /\ S1 \in Nat /\ S2 \in Nat /\ S3 \in Nat
        /\ shares.balanceOf[ProtocolFeeReserve] \in Nat
    BY <1>1, <1>7, <1>9, <1>13, <1>18, SoundFacts
  <2>4. /\ S2 = S1 + protocolFee
        /\ charged.shares.balanceOf[ProtocolFeeReserve]
             = x.shares.balanceOf[ProtocolFeeReserve] + protocolFee
    <3>1. charged = SettleMint(x, ProtocolFeeReserve, protocolFee)
      BY <2>1, <2>3 DEF PayProtocolFee, charged
    <3>2. ProtocolFeeReserve \in Accounts
      BY <1>13
    <3> HIDE DEF S1, S2
    <3> QED
      BY <1>2, <1>7, <3>1, <3>2, SettleMintSound DEF S1, S2
  <2>5. shares'.balanceOf[ProtocolFeeReserve]
          - shares.balanceOf[ProtocolFeeReserve] = protocolFee
    <3>1. shares' = z.shares
      BY <1>5, <1>19, <1>20
    <3>2. z.shares.balanceOf[ProtocolFeeReserve]
            = shares.balanceOf[ProtocolFeeReserve] + protocolFee
      BY <1>15, <1>22, <1>23, <2>4
    <3> QED
      BY <1>2, <2>3, <3>1, <3>2
  <2>6. S3 > 0 /\ issued > 0
    <3> DEFINE held == charged.shares.balanceOf[buyer]
               kept == z.shares.balanceOf[buyer]
    <3>1. kept > held /\ kept <= held + issued
      BY <1>14, <1>19, <1>21, <1>22
    <3>2. held \in Nat /\ kept \in Nat /\ kept <= S3
      BY <1>9, <1>13, <1>18, SoundFacts
    <3> HIDE DEF held, kept
    <3> QED
      BY <1>11, <2>3, <3>1, <3>2
  <2>7. gav' > gav
    <3>1. gav' = value
      BY <1>5, <1>18, <1>19, <1>20
    <3> QED
      BY <1>1, <1>2, <1>11, <2>6, <3>1
  <2>8. S2 > 0
    BY <1>2, <2>1, <2>3, <2>4
  <2>9. GrossShareValue(value, S2 + issued) >= price
    BY <1>1, <1>2, <1>8, <2>3, <2>8, PurchaseKeepsPrice DEF price, issued
  <2>10. GrossShareValue(value, S3) >= GrossShareValue(value, S2 + issued)
    <3>1. S3 <= S2 + issued /\ S2 + issued \in Nat
      BY <1>11, <1>14, <1>22, <2>3
    <3> HIDE DEF S2, S3
    <3> QED
      BY <1>2, <2>3, <2>6, <3>1, FewerSharesDearer
  <2>11. /\ GrossShareValue(value, S3) \in Nat
         /\ GrossShareValue(value, S2 + issued) \in Nat
    <3>1. S2 + issued \in Nat
      BY <1>11, <2>3
    <3> QED
      BY <1>2, <2>3, <3>1, GrossShareValueFacts
  <2>12. highWaterMark' = GrossShareValue(value, S3)
    BY <1>5, <1>20, <2>2
  <2> HIDE DEF value
  <2>13. highWaterMark' \in Nat /\ highWaterMark' >= price
    BY <1>10, <2>9, <2>10, <2>11, <2>12
  <2>14. CASE protocolFee = 0
    <3>1. price = GrossShareValue(gav, S1)
      BY <2>3, <2>4, <2>14 DEF price
    <3> QED
      BY <1>1, <1>10, <2>1, <2>13, <3>1
  <2>15. CASE protocolFee # 0
    <3> DEFINE bound == (highWaterMark * S0) \div (S0 + protocolFee)
    <3>1. protocolFee > 0
      BY <1>2, <2>15
    <3>2. GrossShareValue(gav, S1 + protocolFee) >= bound
      BY <1>1, <1>2, <1>23, <2>1, <2>3, <3>1, DilutionBound
    <3>3. price >= bound
      BY <2>4, <3>2 DEF price
    <3>4. bound \in Nat
      <4> DEFINE product == highWaterMark * S0
      <4>1. product \in Nat /\ S0 + protocolFee \in Nat /\ S0 + protocolFee > 0
        BY <1>1, <1>2, <2>3, <3>1, SMT
      <4> HIDE DEF product
      <4>2. product \div (S0 + protocolFee) \in Nat
        BY <4>1, DivFacts
      <4> QED
        BY <4>2 DEF product
    <3> HIDE DEF bound
    <3>5. highWaterMark' >= bound
      BY <1>10, <2>13, <3>3, <3>4
    <3> QED
      BY <2>5, <2>7, <3>1, <3>5 DEF Diluted, bound
  <2> QED
    BY <2>14, <2>15
<1> QED
  BY <1>25, <1>26

LEMMA RedeemSharesMark ==
  ASSUME FeesInv, NEW p, MarkedLast(p), NEW redeemer \in Holders,
         NEW quantity \in 1..shares.balanceOf[redeemer],
         NEW all \in BOOLEAN, NEW specific \in BOOLEAN,
         NEW external \in ExternalOutcomes, NEW protocolFee \in ProtocolFees,
         RedeemShares(redeemer, quantity, all, specific, external, protocolFee)
  PROVE  highWaterMark' >= highWaterMark
<1> DEFINE d == [payer |-> redeemer, quantity |-> quantity,
                 forSpecificAssets |-> specific]
           known == IF specific THEN gav ELSE 0
           x == InvokeHook(Fund, "PreRedeemShares", d, known, external)
           settled == PreRedeemSharesHook(d, known, external)
           r == PayOutShares(settled, redeemer, quantity, all, specific, protocolFee)
<1>0. /\ Sound(Fund) /\ Fund.highWaterMark = highWaterMark /\ Fund.shares = shares
      /\ highWaterMark \in Nat /\ gav \in Nat /\ now \in 0..MaxTime
  BY FundIsSound DEF Fund
<1>1. r.ok /\ highWaterMark' = r.highWaterMark
  BY DEF RedeemShares, Redemption, Becomes
<1>2. redeemer \in Accounts /\ redeemer # VaultProxy /\ VaultProxy \in Accounts
  BY AccountFacts
<1>3. /\ shares.balanceOf[redeemer] \in Nat /\ Token(shares)
      /\ quantity \in Nat /\ quantity > 0 /\ quantity <= shares.balanceOf[redeemer]
  BY <1>0, <1>2, SoundFacts
<1>4. /\ DataFor("PreRedeemShares", d) /\ known \in {0, gav} /\ known \in Nat
      /\ SettlementType(external) /\ d.quantity = quantity /\ protocolFee \in Nat
  BY <1>0, <1>3, ExternalTypes, AmountsAssumption DEF DataFor
<1>5. ExitBurn(Len(Fees), d) \in Nat /\ ExitBurn(Len(Fees), d) < quantity
  <2>1. ExitRate(d) \in 0..OneHundredPercent - 1
    BY RatesAssumption DEF ExitRate
  <2>2. RateDue(d, ExitRate(d)) \in Nat /\ RateDue(d, ExitRate(d)) < quantity
    BY <1>3, <1>4, <2>1, RateDueFacts
  <2> QED
    BY <1>3, <2>2 DEF ExitBurn
<1> HIDE DEF d, known
<1>6. /\ Sound(settled) /\ settled.ok /\ settled.gav = gav
      /\ settled.highWaterMark \in Nat
      /\ \/ Net(settled.shares) >= Net(shares)
         \/ Net(settled.shares) + ExitBurn(Len(Fees), d) >= Net(shares)
  BY <1>4, PreRedeemSound
<1>7. r.highWaterMark = settled.highWaterMark
  <2> HIDE DEF settled
  <2> QED
    BY <1>1, <1>3, <1>4, <1>6, PayOutSharesSound
<1>8. settled.highWaterMark >= highWaterMark
  <2>1. CASE x.ok
    <3>1. settled = x
      BY <2>1 DEF PreRedeemSharesHook
    <3>2. \/ x.highWaterMark = highWaterMark
          \/ x.shares.totalSupply > 0 => x.highWaterMark >= highWaterMark
      BY <1>4, <2>1, HookMark
    <3> HIDE DEF x, settled
    <3>3. x.shares.totalSupply > 0
      <4>1. shares.balanceOf[redeemer] + shares.balanceOf[VaultProxy]
              <= shares.totalSupply
              /\ shares.balanceOf[VaultProxy] \in Nat /\ shares.totalSupply \in Nat
        BY <1>2, <1>3, WithinSupply
      <4>2. Net(shares) >= quantity /\ Net(shares) \in Nat
        BY <1>3, <4>1 DEF Net
      <4>3. Net(x.shares) \in Nat /\ x.shares.totalSupply \in Nat
              /\ x.shares.balanceOf[VaultProxy] \in Nat
        BY <1>2, <1>6, <3>1, SoundFacts
      <4>4. Net(x.shares) > 0
        BY <1>3, <1>5, <1>6, <3>1, <4>2, <4>3
      <4> QED
        BY <4>3, <4>4 DEF Net
    <3> QED
      BY <1>0, <3>1, <3>2, <3>3
  <2>2. CASE ~x.ok
    <3>1. settled = Fund
      BY <2>2 DEF PreRedeemSharesHook
    <3> QED
      BY <1>0, <3>1
  <2> QED
    BY <2>1, <2>2
<1> QED
  BY <1>1, <1>7, <1>8

\* Profit is charged once: once anybody has settled the continuous fees, the
\* PerformanceFee has nothing due until the price rises, with every set of
\* fees of which none mints or burns after it.
THEOREM ProfitIsChargedOnce ==
  ASSUME NEW p, MarkedLast(p)
  PROVE  Spec => ProfitChargedOnce
<1>1. ASSUME FeesInv, NEW external \in ExternalOutcomes, SettleContinuousFees(external)
      PROVE  PerformanceSharesDue(gav', shares'.totalSupply, highWaterMark') = 0
  <2> DEFINE r == InvokeHook(Fund, "Continuous", NoData, 0, external)
  <2>1. /\ r.ok /\ shares' = r.shares /\ highWaterMark' = r.highWaterMark
        /\ gav' = r.gav
    BY <1>1 DEF SettleContinuousFees, Becomes
  <2>2. /\ Sound(Fund) /\ Fund.gav = gav /\ gav \in Nat /\ now \in 0..MaxTime
        /\ SettlementType(external)
    BY <1>1, FundIsSound, ExternalTypes
  <2>3. DataFor("Continuous", NoData) /\ "Continuous" \in Hooks /\ 0 \in Nat
    BY DEF DataFor, Hooks
  <2>4. r.gav = gav
    BY <2>2, <2>3, InvokeHookSound
  <2>5. PerformanceSharesDue(gav, r.shares.totalSupply, r.highWaterMark) = 0
    BY <1>1, <2>1, <2>2, <2>3, HookMark
  <2> QED
    BY <2>1, <2>4, <2>5
<1>2. FeesInv => ((\E external \in ExternalOutcomes : SettleContinuousFees(external))
                  => PerformanceSharesDue(gav', shares'.totalSupply, highWaterMark') = 0)
  BY <1>1
<1> QED
  BY <1>2, InitFees, NextFees, PTL DEF Spec, ProfitChargedOnce

\* The high-water mark falls only with new fees, and in a purchase by no more
\* than the protocol fee's shares dilute it: with every set of official fees
\* of which no ManagementFee comes after the PerformanceFee.
THEOREM HighWaterMarkNeverLost ==
  ASSUME NEW p, MarkedLast(p), ~Enabled("External")
  PROVE  Spec => HighWaterMarkHolds
<1> DEFINE Reactivates == \E paysOut \in BOOLEAN, protocolFee \in ProtocolFees :
                            Reactivate(paysOut, protocolFee)
<1>1. ASSUME FeesInv, [Next]_vars, ~Reactivates
      PROVE  highWaterMark' >= highWaterMark \/ Diluted
  <2>0. highWaterMark \in Nat
    BY <1>1 DEF FeesInv, TypeOK
  <2>1. CASE Invest
    BY <1>1, <2>1, BuySharesMark DEF Invest
  <2>2. ASSUME NEW redeemer \in Holders,
               NEW quantity \in 1..shares.balanceOf[redeemer],
               NEW all \in BOOLEAN, NEW specific \in BOOLEAN,
               NEW external \in ExternalOutcomes, NEW protocolFee \in ProtocolFees,
               RedeemShares(redeemer, quantity, all, specific, external, protocolFee)
        PROVE  highWaterMark' >= highWaterMark
    BY <1>1, <2>2, RedeemSharesMark
  <2>3. CASE Leave
    <3>1. ASSUME NEW redeemer \in Holders, NEW recipient \in Accounts, NEW quantity,
                 TransferShares(redeemer, recipient, quantity)
          PROVE  highWaterMark' = highWaterMark
      BY <3>1 DEF TransferShares, feeVars
    <3> QED
      BY <2>0, <2>2, <2>3, <3>1 DEF Leave
  <2>4. ASSUME NEW external \in ExternalOutcomes, SettleContinuousFees(external)
        PROVE  highWaterMark' >= highWaterMark
    <3> DEFINE r == InvokeHook(Fund, "Continuous", NoData, 0, external)
    <3>1. r.ok /\ highWaterMark' = r.highWaterMark
      BY <2>4 DEF SettleContinuousFees, Becomes
    <3>2. DataFor("Continuous", NoData) /\ SettlementType(external)
      BY ExternalTypes DEF DataFor
    <3> QED
      BY <1>1, <3>1, <3>2, HookMark
  <2>5. CASE PayoutSharesOutstanding
    BY <2>5 DEF PayoutSharesOutstanding
  <2>6. CASE \E value \in Gavs, available \in BOOLEAN : MarketsMove(value, available)
    BY <2>0, <2>6 DEF MarketsMove, feeVars
  <2>7. CASE Tick
    BY <2>0, <2>7 DEF Tick, feeVars
  <2>8. CASE UNCHANGED vars
    BY <2>0, <2>8 DEF vars, feeVars
  <2> QED
    BY <1>1, <2>1, <2>3, <2>4, <2>5, <2>6, <2>7, <2>8 DEF Next
<1>2. FeesInv /\ [Next]_vars =>
        (\/ Reactivates
         \/ highWaterMark' >= highWaterMark
         \/ Diluted)
  BY <1>1
<1> QED
  BY <1>2, InitFees, NextFees, PTL DEF Spec, HighWaterMarkHolds, Diluted
=============================================================================
