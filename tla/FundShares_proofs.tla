-------------------------- MODULE FundShares_proofs --------------------------
(***************************************************************************)
(* Theorems about FundShares, for all sets of investors, all amounts,      *)
(* units, fee rates, timelocks and bounds, and their proofs.               *)
(***************************************************************************)
EXTENDS FundShares, Arithmetic, TLAPS

-----------------------------------------------------------------------------
(* Division, rounded down (see Arithmetic). *)

\* The part of a balance for q of s shares is part of it, and at most q/s.
LEMMA SliceFacts ==
  ASSUME NEW b \in Nat, NEW q \in Nat, NEW s \in Nat, s > 0, q <= s
  PROVE  /\ InKind(b, q, s) \in 0..b
         /\ s * InKind(b, q, s) <= b * q
<1>1. b * q \in Nat
  BY SMT
<1>2. /\ InKind(b, q, s) \in Nat
      /\ s * InKind(b, q, s) <= b * q
  BY <1>1, DivFacts DEF InKind
<1>3. s * InKind(b, q, s) <= s * b
  <2>1. b * q <= b * s
    BY SMT
  <2>2. b * s = s * b
    BY SMT
  <2>3. s * b \in Nat /\ s * InKind(b, q, s) \in Nat
    BY <1>2, SMT
  <2> QED
    BY <1>1, <1>2, <2>1, <2>2, <2>3, SMT
<1>4. InKind(b, q, s) <= b
  BY <1>2, <1>3, SMT
<1> QED
  BY <1>2, <1>4

\* The units are positive.
LEMMA Units ==
  /\ SharesUnit \in Nat /\ SharesUnit > 0
  /\ DenominationAssetUnit \in Nat /\ DenominationAssetUnit > 0
  /\ MlnPrice \in Nat /\ MlnPrice > 0
  /\ MaxBps \in Nat /\ MaxBps > 0
  /\ SecondsInYear \in Nat /\ SecondsInYear > 0
  BY UnitsAssumption

\* The gross share value of a fund with shares: a number that times the
\* supply fits into the value of the fund (ComptrollerLib).
LEMMA PriceFacts ==
  ASSUME NEW g \in Nat, NEW s \in Nat
  PROVE  /\ GrossShareValue(g, s) \in Nat
         /\ s > 0 => s * GrossShareValue(g, s) <= g * SharesUnit
<1>1. g * SharesUnit \in Nat
  BY Units, SMT
<1>2. CASE s = 0
  BY <1>2, Units DEF GrossShareValue
<1>3. CASE s > 0
  BY <1>1, <1>3, DivFacts DEF GrossShareValue
<1> QED
  BY <1>2, <1>3

\* What fits is at most the gross share value.
LEMMA PriceLargest ==
  ASSUME NEW g \in Nat, NEW s \in Nat, NEW p \in Nat, s > 0,
         s * p <= g * SharesUnit
  PROVE  p <= GrossShareValue(g, s)
<1>1. g * SharesUnit \in Nat
  BY Units, SMT
<1> QED
  BY <1>1, DivLargest DEF GrossShareValue

-----------------------------------------------------------------------------
(* Types. *)

\* The vault can be valued.
LEMMA GavType == TypeOK => Gav \in Nat
<1> SUFFICES ASSUME TypeOK PROVE Gav \in Nat
  OBVIOUS
<1>1. mlnBalance * MlnPrice \in Nat
  BY Units, SMT DEF TypeOK
<1> QED
  BY <1>1, SMT DEF TypeOK, Gav

\* Minting keeps the token a token (SharesTokenBase.__mint).
LEMMA MintFacts ==
  ASSUME NEW s \in SharesTokens, NEW a \in Accounts, NEW n \in Nat
  PROVE  /\ Mint(s, a, n) \in SharesTokens
         /\ Mint(s, a, n).totalSupply = s.totalSupply + n
         /\ Mint(s, a, n).balanceOf =
              [s.balanceOf EXCEPT ![a] = s.balanceOf[a] + n]
<1>1. s.balanceOf \in [Accounts -> Nat] /\ s.totalSupply \in Nat
  BY DEF SharesTokens
<1>2. s.balanceOf[a] \in Nat
  BY <1>1
<1>3. s.balanceOf[a] + n \in Nat /\ s.totalSupply + n \in Nat
  BY <1>1, <1>2
<1> QED
  BY <1>1, <1>3 DEF SharesTokens, Mint

\* Burning what may be burned keeps the token a token
\* (SharesTokenBase.__burn).
LEMMA BurnFacts ==
  ASSUME NEW s \in SharesTokens, NEW a \in Accounts, NEW n \in Nat,
         Burnable(s, a, n)
  PROVE  /\ Burn(s, a, n) \in SharesTokens
         /\ Burn(s, a, n).totalSupply = s.totalSupply - n
         /\ Burn(s, a, n).balanceOf =
              [s.balanceOf EXCEPT ![a] = s.balanceOf[a] - n]
<1>1. s.balanceOf \in [Accounts -> Nat] /\ s.totalSupply \in Nat
  BY DEF SharesTokens
<1>2. s.balanceOf[a] \in Nat
  BY <1>1
<1>3. s.balanceOf[a] - n \in Nat /\ s.totalSupply - n \in Nat
  BY <1>1, <1>2, SMT DEF Burnable
<1> QED
  BY <1>1, <1>3 DEF SharesTokens, Burn

\* Transferring within a balance keeps the token a token and its supply
\* (SharesTokenBase.__transfer).
LEMMA TransferFacts ==
  ASSUME NEW s \in SharesTokens, NEW a \in Accounts, NEW b \in Accounts,
         NEW n \in Nat, n <= s.balanceOf[a]
  PROVE  /\ Transfer(s, a, b, n) \in SharesTokens
         /\ Transfer(s, a, b, n).totalSupply = s.totalSupply
         /\ \A c \in Accounts :
              c # a => Transfer(s, a, b, n).balanceOf[c] >= s.balanceOf[c]
<1>1. s.balanceOf \in [Accounts -> Nat] /\ s.totalSupply \in Nat
  BY DEF SharesTokens
<1> DEFINE d == [s.balanceOf EXCEPT ![a] = @ - n]
<1>2. s.balanceOf[a] \in Nat
  BY <1>1
<1>3. s.balanceOf[a] - n \in Nat
  BY <1>2, SMT
<1>4. d \in [Accounts -> Nat]
  BY <1>1, <1>3
<1>5. \A c \in Accounts \ {a} : d[c] = s.balanceOf[c]
  BY <1>1
<1>6. /\ Transfer(s, a, b, n).totalSupply = s.totalSupply
      /\ Transfer(s, a, b, n).balanceOf = [d EXCEPT ![b] = d[b] + n]
      /\ Transfer(s, a, b, n) = [balanceOf |-> [d EXCEPT ![b] = d[b] + n],
                                 totalSupply |-> s.totalSupply]
  BY DEF Transfer
<1> HIDE DEF d
<1>7. d[b] \in Nat
  BY <1>4
<1>8. d[b] + n \in Nat
  BY <1>7
<1>9. Transfer(s, a, b, n) \in SharesTokens
  BY <1>1, <1>4, <1>6, <1>8 DEF SharesTokens
<1>10. ASSUME NEW c \in Accounts, c # a
       PROVE  Transfer(s, a, b, n).balanceOf[c] >= s.balanceOf[c]
  <2>1. d[c] = s.balanceOf[c] /\ s.balanceOf[c] \in Nat
    BY <1>1, <1>5, <1>10
  <2>2. CASE c = b
    BY <1>4, <1>6, <1>8, <2>1, <2>2
  <2>3. CASE c # b
    BY <1>4, <1>6, <2>1, <2>3
  <2> QED
    BY <2>2, <2>3
<1> QED
  BY <1>6, <1>9, <1>10

\* The protocol fee mints some number of shares for the reserve
\* (ProtocolFeeTracker.payFee, VaultLib.payProtocolFee).
LEMMA FeeFacts ==
  ASSUME TypeOK, FeePayable
  PROVE  /\ FeeDue \in Nat
         /\ FeePaid \in SharesTokens
         /\ FeePaid.totalSupply = shares.totalSupply + FeeDue
         /\ FeePaid.balanceOf =
              [shares.balanceOf EXCEPT ![ProtocolFeeReserve] =
                 shares.balanceOf[ProtocolFeeReserve] + FeeDue]
<1>1. shares.totalSupply \in Nat /\ now \in Nat /\ lastPaid \in Nat
  BY BoundsAssumption DEF TypeOK, Time, SharesTokens
<1>2. FeeDue \in Nat
  <2>1. CASE lastPaid >= now
    BY <2>1 DEF FeeDue
  <2>2. CASE lastPaid < now
    <3> DEFINE raw == RawSharesDue(shares.totalSupply, now - lastPaid)
    <3>1. now - lastPaid \in Nat
      BY <1>1, <2>2, SMT
    <3>2. FeeBps \in Nat
      BY FeeAssumption
    <3>3. shares.totalSupply * FeeBps * (now - lastPaid) \in Nat
      <4>1. shares.totalSupply * FeeBps \in Nat
        BY <1>1, <3>2, SMT
      <4> QED
        BY <4>1, <3>1, SMT
    <3>4. (shares.totalSupply * FeeBps * (now - lastPaid)) \div SecondsInYear
            \in Nat
      BY <3>3, Units, DivFacts
    <3>5. raw \in Nat
      BY <3>4, Units, DivFacts DEF RawSharesDue
    <3>6. raw <= shares.totalSupply
      BY <2>2 DEF FeePayable
    <3>7. FeeDue = SharesDue(shares.totalSupply, now - lastPaid)
      BY <1>1, <2>2, SMT DEF FeeDue
    <3>8. FeeDue = IF shares.totalSupply = raw THEN 0
                   ELSE (raw * shares.totalSupply)
                          \div (shares.totalSupply - raw)
      BY <3>7 DEF SharesDue
    <3> HIDE DEF raw
    <3>9. CASE shares.totalSupply = raw
      BY <3>8, <3>9
    <3>10. CASE shares.totalSupply # raw
      <4>1. raw * shares.totalSupply \in Nat
        BY <1>1, <3>5, SMT
      <4>2. shares.totalSupply - raw \in Nat /\ shares.totalSupply - raw > 0
        BY <1>1, <3>5, <3>6, <3>10, SMT
      <4>3. (raw * shares.totalSupply) \div (shares.totalSupply - raw) \in Nat
        BY <4>1, <4>2, DivFacts
      <4> QED
        BY <3>8, <3>10, <4>3
    <3> QED
      BY <3>9, <3>10
  <2> QED
    BY <1>1, <2>1, <2>2, SMT
<1>3. shares \in SharesTokens /\ ProtocolFeeReserve \in Accounts
  BY DEF TypeOK, Accounts
<1> QED
  BY <1>2, <1>3, MintFacts DEF FeePaid

-----------------------------------------------------------------------------
(* Collecting the fee. *)

\* Paying the fee and buying fee shares back leaves the investors' balances
\* alone, mints no more than the fee and burns no more MLN than there is
\* (ComptrollerLib.__redeemSharesSetup, __buyShares).
LEMMA CollectedFacts ==
  ASSUME TypeOK, FeePayable, NEW gav \in Nat
  PROVE  /\ Collected(gav).shares \in SharesTokens
         /\ Collected(gav).mln \in 0..mlnBalance
         /\ Collected(gav).shares.totalSupply <= shares.totalSupply + FeeDue
         /\ \A i \in Investors :
              Collected(gav).shares.balanceOf[i] = shares.balanceOf[i]
<1> DEFINE amount == FeePaid.balanceOf[ProtocolFeeReserve]
           mln == MlnToBurn(FeePaid, amount, gav)
           bought == /\ autoProtocolFeeSharesBuyback
                     /\ mln \in 1..mlnBalance
                     /\ Burnable(FeePaid, ProtocolFeeReserve, amount)
<1>1. /\ FeeDue \in Nat
      /\ FeePaid \in SharesTokens
      /\ FeePaid.totalSupply = shares.totalSupply + FeeDue
      /\ FeePaid.balanceOf =
           [shares.balanceOf EXCEPT ![ProtocolFeeReserve] =
              shares.balanceOf[ProtocolFeeReserve] + FeeDue]
  BY FeeFacts
<1>2. /\ shares.balanceOf \in [Accounts -> Nat]
      /\ mlnBalance \in Nat
      /\ FeePaid.balanceOf \in [Accounts -> Nat]
      /\ FeePaid.totalSupply \in Nat
  BY <1>1 DEF TypeOK, SharesTokens
<1>3. ProtocolFeeReserve \in Accounts /\ Investors \subseteq Accounts
  BY DEF Accounts
<1>4. \A i \in Investors : i # ProtocolFeeReserve
  BY AccountsAssumption
<1>5. \A i \in Investors : FeePaid.balanceOf[i] = shares.balanceOf[i]
  BY <1>1, <1>2, <1>3, <1>4
<1>6. amount \in Nat
  BY <1>2, <1>3
<1>7. /\ bought => /\ Collected(gav).shares =
                        Burn(FeePaid, ProtocolFeeReserve, amount)
                   /\ Collected(gav).mln = mln
      /\ ~bought => /\ Collected(gav).shares = FeePaid
                    /\ Collected(gav).mln = 0
  BY DEF Collected, MaxBuyback
<1> HIDE DEF mln, amount
<1>8. CASE ~bought
  <2>1. Collected(gav).shares = FeePaid /\ Collected(gav).mln = 0
    BY <1>7, <1>8
  <2>2. Collected(gav).mln \in 0..mlnBalance
    BY <1>2, <2>1
  <2>3. Collected(gav).shares.totalSupply <= shares.totalSupply + FeeDue
    BY <1>1, <1>2, <2>1
  <2> QED
    BY <1>1, <1>5, <2>1, <2>2, <2>3
<1>9. CASE bought
  <2>1. /\ Collected(gav).shares = Burn(FeePaid, ProtocolFeeReserve, amount)
        /\ Collected(gav).mln = mln
        /\ mln \in 1..mlnBalance
        /\ Burnable(FeePaid, ProtocolFeeReserve, amount)
    BY <1>7, <1>9
  <2>2. /\ Collected(gav).shares \in SharesTokens
        /\ Collected(gav).shares.totalSupply = FeePaid.totalSupply - amount
        /\ Collected(gav).shares.balanceOf =
             [FeePaid.balanceOf EXCEPT ![ProtocolFeeReserve] =
                FeePaid.balanceOf[ProtocolFeeReserve] - amount]
    BY <1>1, <1>3, <1>6, <2>1, BurnFacts
  <2>3. Collected(gav).shares.totalSupply <= shares.totalSupply + FeeDue
    BY <1>1, <1>2, <1>6, <2>2
  <2>4. Collected(gav).mln \in 0..mlnBalance
    BY <1>2, <2>1
  <2>5. \A i \in Investors :
          Collected(gav).shares.balanceOf[i] = shares.balanceOf[i]
    BY <1>2, <1>3, <1>4, <1>5, <2>2
  <2> QED
    BY <2>2, <2>3, <2>4, <2>5
<1> QED
  BY <1>8, <1>9

\* A buy-back at a price p burns MLN worth at most half of the shares it
\* buys (ProtocolFeeReserveLib.buyBackSharesViaTrustedVaultProxy).
LEMMA BuybackFacts ==
  ASSUME NEW s \in SharesTokens, NEW n \in Nat, NEW gav \in Nat
  PROVE  /\ MlnToBurn(s, n, gav) \in Nat
         /\ MlnToBurn(s, n, gav) * MlnPrice * SharesUnit
              <= GrossShareValue(gav, s.totalSupply) * n
<1> DEFINE p == GrossShareValue(gav, s.totalSupply)
           value == BuybackValueInDenominationAsset(s, n, gav)
           m == value \div MlnPrice
<1>1. p \in Nat
  BY PriceFacts DEF SharesTokens
<1>2. p * n \in Nat
  BY <1>1, SMT
<1>3. value \in Nat /\ SharesUnit * value <= p * n
  BY <1>2, Units, DivFacts DEF BuybackValueInDenominationAsset
<1> HIDE DEF value, p
<1>4. m \in Nat /\ MlnPrice * m <= value
  BY <1>3, Units, DivFacts
<1>5. MlnToBurn(s, n, gav) = m \div 2
  BY DEF MlnToBurn, value, m
<1> HIDE DEF m
<1>6. MlnToBurn(s, n, gav) \in Nat /\ 2 * MlnToBurn(s, n, gav) <= m
  BY <1>4, <1>5, DivFacts
<1>7. MlnToBurn(s, n, gav) <= m
  BY <1>4, <1>6, SMT
<1> DEFINE b == MlnToBurn(s, n, gav)
<1> HIDE DEF b
<1>8. b \in Nat /\ b <= m
  BY <1>6, <1>7 DEF b
<1>9. MlnPrice * b <= MlnPrice * m
  BY <1>4, <1>8, Units, SMT
<1>10. MlnPrice * b \in Nat /\ MlnPrice * m \in Nat
  BY <1>4, <1>8, Units, SMT
<1>11. MlnPrice * b <= value
  BY <1>3, <1>4, <1>9, <1>10, SMT
<1>12. SharesUnit * (MlnPrice * b) <= SharesUnit * value
  BY <1>3, <1>10, <1>11, Units, SMT
<1>13. SharesUnit * (MlnPrice * b) \in Nat /\ SharesUnit * value \in Nat
  BY <1>3, <1>10, Units, SMT
<1>14. SharesUnit * (MlnPrice * b) <= p * n
  BY <1>2, <1>3, <1>12, <1>13, SMT
<1>15. SharesUnit * (MlnPrice * b) = b * MlnPrice * SharesUnit
  BY <1>8, Units, SMT
<1> QED
  BY <1>6, <1>14, <1>15 DEF b, p

\* Value that leaves a fund for no more than the price of the shares that
\* leave with it does not lower the price.
LEMMA TakeFair ==
  ASSUME NEW p \in Nat, NEW s \in Nat, NEW n \in Nat, NEW g \in Nat,
         NEW w \in Nat, NEW u \in Nat,
         n <= s, w <= g, s * p <= g * u, w * u <= p * n
  PROVE  (s - n) * p <= (g - w) * u
<1>1. (s - n) * p = s * p - p * n
  BY SMT
<1>2. (g - w) * u = g * u - w * u
  BY SMT
<1>3. s * p \in Nat /\ p * n \in Nat /\ g * u \in Nat /\ w * u \in Nat
  BY SMT
<1> QED
  BY <1>1, <1>2, <1>3, SMT

\* Buying fee shares back does not lower the price, whether the fund was
\* valued or not (ComptrollerLib.__buyBackMaxProtocolFeeShares).
LEMMA CollectedPrice ==
  ASSUME TypeOK, FeePayable, NEW gav \in {0, Gav},
         shares.totalSupply > shares.balanceOf[ProtocolFeeReserve]
  PROVE  /\ Collected(gav).shares.totalSupply > 0
         /\ Gav - Collected(gav).mln * MlnPrice \in Nat
         /\ Collected(gav).shares.totalSupply
              * GrossShareValue(Gav, shares.totalSupply + FeeDue)
              <= (Gav - Collected(gav).mln * MlnPrice) * SharesUnit
<1> DEFINE amount == FeePaid.balanceOf[ProtocolFeeReserve]
           mln == MlnToBurn(FeePaid, amount, gav)
           bought == /\ autoProtocolFeeSharesBuyback
                     /\ mln \in 1..mlnBalance
                     /\ Burnable(FeePaid, ProtocolFeeReserve, amount)
           supply == shares.totalSupply + FeeDue
           price == GrossShareValue(Gav, supply)
<1>1. /\ FeeDue \in Nat
      /\ FeePaid \in SharesTokens
      /\ FeePaid.totalSupply = supply
      /\ FeePaid.balanceOf =
           [shares.balanceOf EXCEPT ![ProtocolFeeReserve] =
              shares.balanceOf[ProtocolFeeReserve] + FeeDue]
  BY FeeFacts
<1>2. /\ shares.balanceOf \in [Accounts -> Nat]
      /\ shares.totalSupply \in Nat
      /\ assetBalance \in Nat
      /\ positionsValue \in Nat
      /\ mlnBalance \in Nat
  BY DEF TypeOK, SharesTokens
<1>3. ProtocolFeeReserve \in Accounts
  BY DEF Accounts
<1>4. shares.balanceOf[ProtocolFeeReserve] \in Nat
  BY <1>2, <1>3
<1>5. amount = shares.balanceOf[ProtocolFeeReserve] + FeeDue /\ amount \in Nat
  BY <1>1, <1>2, <1>3, <1>4
<1>6. supply \in Nat /\ supply > amount /\ supply > 0
  BY <1>1, <1>2, <1>4, <1>5
<1> HIDE DEF supply
<1>7. Gav \in Nat
  BY GavType
<1>8. price \in Nat /\ supply * price <= Gav * SharesUnit
  BY <1>6, <1>7, PriceFacts
<1>9. /\ bought => /\ Collected(gav).shares =
                        Burn(FeePaid, ProtocolFeeReserve, amount)
                   /\ Collected(gav).mln = mln
      /\ ~bought => /\ Collected(gav).shares = FeePaid
                    /\ Collected(gav).mln = 0
  BY DEF Collected, MaxBuyback
<1>10. /\ mln \in Nat
       /\ mln * MlnPrice * SharesUnit <= GrossShareValue(gav, supply) * amount
  BY <1>1, <1>5, <1>7, BuybackFacts
<1> HIDE DEF mln, amount, price
<1>11. CASE ~bought
  <2>1. Collected(gav).shares = FeePaid /\ Collected(gav).mln = 0
    BY <1>9, <1>11
  <2>2. Gav - Collected(gav).mln * MlnPrice = Gav
    BY <1>7, <2>1, Units
  <2>3. Collected(gav).shares.totalSupply = supply
    BY <1>1, <2>1
  <2> QED
    BY <1>6, <1>7, <1>8, <2>2, <2>3 DEF price, supply
<1>12. CASE bought
  <2>1. /\ Collected(gav).shares = Burn(FeePaid, ProtocolFeeReserve, amount)
        /\ Collected(gav).mln = mln
        /\ mln \in 1..mlnBalance
        /\ Burnable(FeePaid, ProtocolFeeReserve, amount)
    BY <1>9, <1>12
  <2>2. Collected(gav).shares.totalSupply = supply - amount
    <3>1. Burnable(FeePaid, ProtocolFeeReserve, amount)
      BY <2>1
    <3>2. FeePaid \in SharesTokens /\ FeePaid.totalSupply = supply
      BY <1>1
    <3>4. amount \in Nat
      BY <1>5
    <3>5. Burn(FeePaid, ProtocolFeeReserve, amount).totalSupply
            = FeePaid.totalSupply - amount
      BY ONLY <1>3, <3>1, <3>2, <3>4, BurnFacts
    <3>3. Collected(gav).shares = Burn(FeePaid, ProtocolFeeReserve, amount)
      BY <2>1
    <3> QED
      BY <3>2, <3>3, <3>5
  <2>3. mln * MlnPrice \in Nat /\ mln * MlnPrice > 0
    BY <1>10, <2>1, Units, SMT
  <2>4. mln * MlnPrice * SharesUnit \in Nat /\ mln * MlnPrice * SharesUnit > 0
    BY <2>3, Units, SMT
  <2>5. gav = Gav
    <3> SUFFICES ASSUME gav # Gav PROVE FALSE
      OBVIOUS
    <3>1. gav = 0
      OBVIOUS
    <3>3. /\ GrossShareValue(0, supply) \in Nat
          /\ supply * GrossShareValue(0, supply) <= 0 * SharesUnit
      BY <1>6, PriceFacts
    <3>4. 0 * SharesUnit = 0
      BY Units, SMT
    <3>5. GrossShareValue(0, supply) = 0
      BY <1>6, <3>3, <3>4, SMT
    <3>6. GrossShareValue(0, supply) * amount = 0
      BY <1>5, <3>5, SMT
    <3> QED
      BY <1>10, <2>4, <3>1, <3>6, SMT
  <2>6. mln * MlnPrice * SharesUnit <= price * amount
    BY <1>10, <2>5 DEF price
  <2>7. mln * MlnPrice <= Gav
    <3>1. mln * MlnPrice <= mlnBalance * MlnPrice
      BY <1>2, <1>10, <2>1, Units, SMT
    <3>2. mlnBalance * MlnPrice \in Nat
      BY <1>2, Units, SMT
    <3>3. mlnBalance * MlnPrice <= Gav
      BY <1>2, <3>2, SMT DEF Gav
    <3> QED
      BY <1>7, <2>3, <3>1, <3>2, <3>3, SMT
  <2>8. (supply - amount) * price <= (Gav - mln * MlnPrice) * SharesUnit
    BY <1>5, <1>6, <1>7, <1>8, <2>3, <2>6, <2>7, Units, TakeFair
  <2>9. supply - amount > 0 /\ Gav - mln * MlnPrice \in Nat
    BY <1>5, <1>6, <1>7, <2>3, <2>7, SMT
  <2> QED
    BY <2>1, <2>2, <2>8, <2>9 DEF price, supply
<1> QED
  BY <1>11, <1>12

\* The clock of the fee is set to times (ProtocolFeeTracker.payFee).
LEMMA PayFeeFacts ==
  ASSUME TypeOK, PayFee
  PROVE  /\ lastPaid' \in Time
         /\ lastPaid <= now => lastPaid' = now
         /\ lastPaid' = lastPaid => FeeDue = 0
<1>1. now \in Nat /\ lastPaid \in Nat /\ now \in Time /\ lastPaid \in Time
  BY BoundsAssumption DEF TypeOK, Time
<1> QED
  BY <1>1 DEF PayFee, FeeDue

\* The shares issued are a number (ComptrollerLib.__buyShares).
LEMMA IssueFacts ==
  ASSUME NEW r \in Nat, NEW gav \in Nat, NEW s \in SharesTokens,
         GrossShareValue(gav, s.totalSupply) > 0
  PROVE  /\ SharesIssued(r, gav, s) \in Nat
         /\ GrossShareValue(gav, s.totalSupply) * SharesIssued(r, gav, s)
              <= r * SharesUnit
<1>1. r * SharesUnit \in Nat
  BY Units, SMT
<1>2. GrossShareValue(gav, s.totalSupply) \in Nat
  BY PriceFacts DEF SharesTokens
<1> QED
  BY <1>1, <1>2, DivFacts DEF SharesIssued

\* What a redemption does to the shares (ComptrollerLib.__redeemSharesSetup).
LEMMA RedeemFacts ==
  ASSUME TypeOK, NEW i \in Investors, NEW gav \in Nat,
         NEW q \in 1..shares.balanceOf[i], RedeemSetup(i, q, gav)
  PROVE  /\ q \in Nat /\ q > 0
         /\ q <= Collected(gav).shares.totalSupply
         /\ shares' \in SharesTokens
         /\ shares'.totalSupply = Collected(gav).shares.totalSupply - q
         /\ \A j \in Investors \ {i} :
              shares'.balanceOf[j] = shares.balanceOf[j]
<1> DEFINE c == Collected(gav).shares
<1>1. FeePayable
  BY DEF RedeemSetup, CanRedeem, CanCollectFee
<1>2. /\ c \in SharesTokens
      /\ \A j \in Investors : c.balanceOf[j] = shares.balanceOf[j]
  BY <1>1, CollectedFacts
<1>3. Burnable(c, i, q) /\ shares' = Burn(c, i, q)
  BY DEF RedeemSetup, CanRedeem
<1> HIDE DEF c
<1>4. i \in Accounts /\ Investors \subseteq Accounts
  BY DEF Accounts
<1>5. shares.balanceOf[i] \in Nat
  BY <1>4 DEF TypeOK, SharesTokens
<1>6. q \in Nat /\ q > 0
  BY <1>5
<1>7. q <= c.totalSupply
  BY <1>3 DEF Burnable
<1>8. /\ shares' \in SharesTokens
      /\ shares'.totalSupply = c.totalSupply - q
      /\ shares'.balanceOf = [c.balanceOf EXCEPT ![i] = c.balanceOf[i] - q]
  BY <1>2, <1>3, <1>4, <1>6, BurnFacts
<1>9. c.balanceOf \in [Accounts -> Nat]
  BY <1>2 DEF SharesTokens
<1>10. \A j \in Investors \ {i} : shares'.balanceOf[j] = shares.balanceOf[j]
  BY <1>2, <1>4, <1>8, <1>9
<1> QED
  BY <1>6, <1>7, <1>8, <1>10 DEF c

-----------------------------------------------------------------------------
(* Paying out. *)

\* A redemption for specific assets pays out what the vault has, and no more
\* than the redeemer's part of the valuation
\* (ComptrollerLib.__payoutSpecifiedAssetPercentages).
LEMMA SpecificFacts ==
  ASSUME TypeOK, NEW i \in Investors, NEW q \in 1..shares.balanceOf[i],
         NEW inAsset \in Percentages, NEW inMln \in Percentages,
         RedeemSharesForSpecificAssets(i, q, inAsset, inMln)
  PROVE  /\ assetBalance' \in Nat /\ mlnBalance' \in Nat
         /\ Gav' + Collected(Gav).mln * MlnPrice \in 0..Gav
         /\ (Gav - (Gav' + Collected(Gav).mln * MlnPrice))
              * Collected(Gav).shares.totalSupply <= Gav * q
<1> DEFINE burned == Collected(Gav).mln
           supply == Collected(Gav).shares.totalSupply
           owed == (Gav * q) \div supply
           asset == (owed * inAsset) \div 100
           worth == (owed * inMln) \div 100
           mln == worth \div MlnPrice
<1>1. Gav \in Nat
  BY GavType
<1>2. RedeemSetup(i, q, Gav) /\ FeePayable
  BY DEF RedeemSharesForSpecificAssets, RedeemSetup, CanRedeem, CanCollectFee
<1>3. q \in Nat /\ q > 0 /\ q <= supply
  BY <1>1, <1>2, RedeemFacts
<1>4. Collected(Gav).shares \in SharesTokens /\ burned \in 0..mlnBalance
  BY <1>1, <1>2, CollectedFacts
<1>5. /\ supply \in Nat /\ supply > 0
      /\ burned \in Nat /\ burned <= mlnBalance
      /\ assetBalance \in Nat /\ mlnBalance \in Nat /\ positionsValue \in Nat
  BY <1>3, <1>4 DEF TypeOK, SharesTokens
<1>6. /\ inAsset + inMln <= 100
      /\ inAsset > 0 => asset \in 1..assetBalance
      /\ inMln > 0 => mln \in 1..(mlnBalance - burned)
      /\ assetBalance' = assetBalance - asset
      /\ mlnBalance' = mlnBalance - burned - mln
      /\ positionsValue' = positionsValue
  BY DEF RedeemSharesForSpecificAssets
<1>7. inAsset \in Nat /\ inMln \in Nat
  BY AmountsAssumption
<1> HIDE DEF burned, supply
<1>8. owed \in Nat /\ supply * owed <= Gav * q
  <2>1. Gav * q \in Nat
    BY <1>1, <1>3, SMT
  <2> QED
    BY <1>5, <2>1, DivFacts
<1> HIDE DEF owed
<1>9. owed * inAsset \in Nat /\ owed * inMln \in Nat
  BY <1>7, <1>8, SMT
<1>10. asset \in Nat /\ 100 * asset <= owed * inAsset
  BY <1>9, DivFacts
<1>11. worth \in Nat /\ 100 * worth <= owed * inMln
  BY <1>9, DivFacts
<1>12. inAsset = 0 => asset = 0
  <2>1. inAsset = 0 => owed * inAsset = 0
    BY <1>8, SMT
  <2>2. inAsset = 0 => 100 * asset <= 0
    BY <1>10, <2>1
  <2> QED
    BY <1>10, <2>2, SMT
<1>13. inMln = 0 => worth = 0
  <2>1. inMln = 0 => owed * inMln = 0
    BY <1>8, SMT
  <2>2. inMln = 0 => 100 * worth <= 0
    BY <1>11, <2>1
  <2> QED
    BY <1>11, <2>2, SMT
<1> HIDE DEF asset, worth
<1>14. mln \in Nat /\ MlnPrice * mln <= worth
  BY <1>11, Units, DivFacts
<1> HIDE DEF mln
<1>15. inMln = 0 => mln = 0
  <2> SUFFICES ASSUME inMln = 0, mln # 0 PROVE FALSE
    OBVIOUS
  <2>1. MlnPrice * mln <= 0
    BY <1>13, <1>14
  <2>2. MlnPrice * mln > 0
    BY <1>14, Units, SMT
  <2>3. MlnPrice * mln \in Nat
    BY <1>14, Units, SMT
  <2> QED
    BY <2>1, <2>2, <2>3, SMT
<1>16. asset <= assetBalance
  BY <1>5, <1>6, <1>7, <1>10, <1>12, SMT
<1>17. burned + mln <= mlnBalance
  BY <1>5, <1>6, <1>7, <1>14, <1>15, SMT
<1>18. assetBalance' \in Nat /\ mlnBalance' \in Nat
  BY <1>5, <1>6, <1>10, <1>14, <1>16, <1>17, SMT
<1> DEFINE out == asset + mln * MlnPrice
<1>19. mln * MlnPrice \in Nat /\ burned * MlnPrice \in Nat
       /\ mlnBalance * MlnPrice \in Nat
  BY <1>5, <1>14, Units, SMT
<1>20. mlnBalance' * MlnPrice =
         mlnBalance * MlnPrice - burned * MlnPrice - mln * MlnPrice
  BY <1>5, <1>6, <1>14, Units, SMT
<1>21. Gav' + burned * MlnPrice = Gav - out
  BY <1>5, <1>6, <1>10, <1>19, <1>20, SMT DEF Gav
<1>22. out \in Nat
  BY <1>10, <1>19
<1>23. out <= owed
  <2>1. mln * MlnPrice <= worth
    BY <1>14, Units, SMT
  <2>2. owed * inAsset + owed * inMln = owed * (inAsset + inMln)
    BY <1>7, <1>8, SMT
  <2>3. owed * (inAsset + inMln) <= owed * 100
    BY <1>6, <1>7, <1>8, SMT
  <2>4. owed * (inAsset + inMln) \in Nat
    BY <1>7, <1>8, SMT
  <2> QED
    BY <1>8, <1>9, <1>10, <1>11, <1>19, <2>1, <2>2, <2>3, <2>4, SMT
<1>24. out <= Gav
  <2>1. mlnBalance * MlnPrice >= mln * MlnPrice
    BY <1>5, <1>14, <1>17, Units, SMT
  <2> QED
    BY <1>5, <1>10, <1>16, <1>19, <2>1, SMT DEF Gav
<1> HIDE DEF out
<1>25. Gav' + burned * MlnPrice \in 0..Gav
  BY <1>1, <1>21, <1>22, <1>24, SMT
<1>26. (Gav - (Gav' + burned * MlnPrice)) = out
  BY <1>1, <1>21, <1>22, SMT
<1>27. out * supply <= Gav * q
  <2>1. out * supply <= owed * supply
    BY <1>5, <1>8, <1>22, <1>23, SMT
  <2>2. owed * supply = supply * owed
    BY <1>5, <1>8, SMT
  <2>3. /\ out * supply \in Nat /\ owed * supply \in Nat
        /\ Gav * q \in Nat
    BY <1>1, <1>3, <1>5, <1>8, <1>22, SMT
  <2> QED
    BY <1>8, <2>1, <2>2, <2>3, SMT
<1> QED
  BY <1>18, <1>25, <1>26, <1>27 DEF burned, supply

\* A redemption in kind pays out what the vault has after the buy-back, and
\* no more than the redeemer's part of it (ComptrollerLib.redeemSharesInKind).
LEMMA InKindFacts ==
  ASSUME TypeOK, NEW i \in Investors, NEW q \in 1..shares.balanceOf[i],
         NEW skipped \in SUBSET {"asset", "MLN"},
         RedeemSharesInKind(i, q, skipped)
  PROVE  /\ assetBalance' \in Nat /\ mlnBalance' \in Nat
         /\ Gav - Collected(GavOrZero).mln * MlnPrice \in Nat
         /\ Gav' \in 0..(Gav - Collected(GavOrZero).mln * MlnPrice)
         /\ (Gav - Collected(GavOrZero).mln * MlnPrice - Gav')
              * Collected(GavOrZero).shares.totalSupply
              <= (Gav - Collected(GavOrZero).mln * MlnPrice) * q
<1> DEFINE burned == Collected(GavOrZero).mln
           supply == Collected(GavOrZero).shares.totalSupply
           left == mlnBalance - burned
           asset == IF "asset" \in skipped
                      THEN 0 ELSE InKind(assetBalance, q, supply)
           mln == IF "MLN" \in skipped THEN 0 ELSE InKind(left, q, supply)
<1>1. Gav \in Nat /\ GavOrZero \in Nat
  BY GavType DEF GavOrZero
<1>2. RedeemSetup(i, q, GavOrZero) /\ FeePayable
  BY DEF RedeemSharesInKind, RedeemSetup, CanRedeem, CanCollectFee
<1>3. q \in Nat /\ q > 0 /\ q <= supply
  BY <1>1, <1>2, RedeemFacts
<1>4. /\ Collected(GavOrZero).shares \in SharesTokens
      /\ burned \in 0..mlnBalance
  BY <1>1, <1>2, CollectedFacts
<1>5. /\ supply \in Nat /\ supply > 0
      /\ burned \in Nat /\ burned <= mlnBalance
      /\ assetBalance \in Nat /\ mlnBalance \in Nat /\ positionsValue \in Nat
  BY <1>3, <1>4 DEF TypeOK, SharesTokens
<1>6. left \in Nat
  BY <1>5, SMT
<1>7. /\ assetBalance' = IF "asset" \in skipped THEN assetBalance
                          ELSE assetBalance - InKind(assetBalance, q, supply)
      /\ mlnBalance' = IF "MLN" \in skipped THEN left
                        ELSE left - InKind(left, q, supply)
      /\ positionsValue' = positionsValue
  BY DEF RedeemSharesInKind
<1> HIDE DEF burned, supply
<1>8. assetBalance * q \in Nat /\ left * q \in Nat
  BY <1>3, <1>5, <1>6, SMT
<1> DEFINE slice(b) == InKind(b, q, supply)
<1>9. slice(assetBalance) \in 0..assetBalance
      /\ supply * slice(assetBalance) <= assetBalance * q
  BY <1>3, <1>5, SliceFacts
<1>10. slice(left) \in 0..left /\ supply * slice(left) <= left * q
  BY <1>3, <1>5, <1>6, SliceFacts
<1>11. supply * 0 = 0
  BY <1>5, SMT
<1> HIDE DEF left
<1>12. /\ asset \in Nat /\ asset <= assetBalance
       /\ supply * asset <= assetBalance * q
       /\ assetBalance' = assetBalance - asset
  BY <1>5, <1>7, <1>8, <1>9, <1>11
<1>13. /\ mln \in Nat /\ mln <= left
       /\ supply * mln <= left * q
       /\ mlnBalance' = left - mln
  BY <1>6, <1>7, <1>8, <1>10, <1>11
<1> HIDE DEF asset, mln
<1>14. assetBalance' \in Nat /\ mlnBalance' \in Nat
  BY <1>5, <1>6, <1>12, <1>13, SMT
<1> DEFINE rest == assetBalance + left * MlnPrice + positionsValue
           out == asset + mln * MlnPrice
<1>15. /\ left * MlnPrice \in Nat /\ mln * MlnPrice \in Nat
       /\ burned * MlnPrice \in Nat /\ mlnBalance * MlnPrice \in Nat
       /\ left * MlnPrice = mlnBalance * MlnPrice - burned * MlnPrice
       /\ mlnBalance' * MlnPrice = left * MlnPrice - mln * MlnPrice
       /\ mln * MlnPrice <= left * MlnPrice
  <2>1. /\ left * MlnPrice \in Nat /\ mln * MlnPrice \in Nat
        /\ burned * MlnPrice \in Nat /\ mlnBalance * MlnPrice \in Nat
    BY <1>5, <1>6, <1>13, Units, SMT
  <2>2. left * MlnPrice = mlnBalance * MlnPrice - burned * MlnPrice
    BY <1>5, Units, SMT DEF left
  <2>3. mlnBalance' * MlnPrice = left * MlnPrice - mln * MlnPrice
    BY <1>6, <1>13, Units, SMT
  <2>4. mln * MlnPrice <= left * MlnPrice
    BY <1>6, <1>13, Units, SMT
  <2> QED
    BY <2>1, <2>2, <2>3, <2>4
<1>16. Gav - burned * MlnPrice = rest
  BY <1>5, <1>15, SMT DEF Gav
<1>17. rest \in Nat
  BY <1>5, <1>15, SMT
<1>18. out \in Nat /\ out <= rest
  BY <1>5, <1>12, <1>15, SMT
<1>19. Gav' = rest - out
  BY <1>5, <1>7, <1>12, <1>15, SMT DEF Gav
<1>20. out * supply <= rest * q
  <2>1. supply * (mln * MlnPrice) <= (left * MlnPrice) * q
    <3>1. (supply * mln) * MlnPrice <= (left * q) * MlnPrice
      <4>1. supply * mln \in Nat
        BY <1>5, <1>13, SMT
      <4> QED
        BY <1>8, <1>13, <4>1, Units, SMT
    <3>2. (supply * mln) * MlnPrice = supply * (mln * MlnPrice)
      BY <1>5, <1>13, Units, SMT
    <3>3. (left * q) * MlnPrice = (left * MlnPrice) * q
      BY <1>3, <1>6, Units, SMT
    <3> QED
      BY <3>1, <3>2, <3>3
  <2>2. out * supply = supply * asset + supply * (mln * MlnPrice)
    BY <1>5, <1>12, <1>15, SMT
  <2>3. rest * q =
          assetBalance * q + (left * MlnPrice) * q + positionsValue * q
    BY <1>3, <1>5, <1>15, SMT
  <2>4. /\ supply * asset \in Nat /\ supply * (mln * MlnPrice) \in Nat
        /\ (left * MlnPrice) * q \in Nat /\ positionsValue * q \in Nat
    BY <1>3, <1>5, <1>12, <1>15, SMT
  <2> HIDE DEF rest, out
  <2> QED
    BY <1>8, <1>12, <2>1, <2>2, <2>3, <2>4, SMT
<1> HIDE DEF rest, out
<1>21. Gav' \in 0..rest /\ rest - Gav' = out
  BY <1>17, <1>18, <1>19, SMT
<1> QED
  BY <1>14, <1>16, <1>17, <1>20, <1>21 DEF burned, supply

\* A purchase brings its investment in and takes burned MLN out
\* (ComptrollerLib.__buyShares).
LEMMA BuyFacts ==
  ASSUME TypeOK, NEW caller \in Investors, NEW buyer \in Investors,
         NEW r \in Investments, BuyShares(caller, buyer, r)
  PROVE  /\ r \in Nat /\ FeePayable /\ PayFee
         /\ SharesIssued(r, Gav, Collected(Gav).shares) \in Nat
         /\ GrossShareValue(Gav, Collected(Gav).shares.totalSupply)
              * SharesIssued(r, Gav, Collected(Gav).shares) <= r * SharesUnit
         /\ shares' \in SharesTokens
         /\ shares'.totalSupply =
              Collected(Gav).shares.totalSupply
                + SharesIssued(r, Gav, Collected(Gav).shares)
         /\ \A i \in Investors : shares'.balanceOf[i] >= shares.balanceOf[i]
         /\ assetBalance' = assetBalance + r
         /\ mlnBalance' = mlnBalance - Collected(Gav).mln
         /\ assetBalance' \in Nat /\ mlnBalance' \in Nat
         /\ positionsValue' = positionsValue
<1> DEFINE c == Collected(Gav).shares
           issued == SharesIssued(r, Gav, c)
<1>1. Gav \in Nat /\ r \in Nat
  BY GavType, AmountsAssumption
<1>2. /\ FeePayable /\ PayFee
      /\ GrossShareValue(Gav, c.totalSupply) > 0
      /\ shares' = Mint(c, buyer, issued)
      /\ assetBalance' = assetBalance + r
      /\ mlnBalance' = mlnBalance - Collected(Gav).mln
      /\ positionsValue' = positionsValue
  BY DEF BuyShares, CanCollectFee
<1>3. /\ c \in SharesTokens
      /\ Collected(Gav).mln \in 0..mlnBalance
      /\ \A i \in Investors : c.balanceOf[i] = shares.balanceOf[i]
  BY <1>1, <1>2, CollectedFacts
<1>4. issued \in Nat /\ GrossShareValue(Gav, c.totalSupply) * issued
                         <= r * SharesUnit
  BY <1>1, <1>2, <1>3, IssueFacts
<1>5. buyer \in Accounts /\ Investors \subseteq Accounts
  BY DEF Accounts
<1>6. assetBalance \in Nat /\ mlnBalance \in Nat
  BY DEF TypeOK
<1>7. assetBalance' \in Nat /\ mlnBalance' \in Nat
  BY <1>1, <1>2, <1>3, <1>6
<1> HIDE DEF c, issued
<1>8. /\ shares' \in SharesTokens
      /\ shares'.totalSupply = c.totalSupply + issued
      /\ shares'.balanceOf = [c.balanceOf EXCEPT ![buyer] =
                                c.balanceOf[buyer] + issued]
  BY <1>2, <1>3, <1>4, <1>5, MintFacts
<1>9. c.balanceOf \in [Accounts -> Nat]
  BY <1>3 DEF SharesTokens
<1>10. ASSUME NEW i \in Investors
       PROVE  shares'.balanceOf[i] >= shares.balanceOf[i]
  <2>1. c.balanceOf[i] = shares.balanceOf[i] /\ c.balanceOf[i] \in Nat
    BY <1>3, <1>5, <1>9
  <2>2. CASE i = buyer
    BY <1>4, <1>5, <1>8, <1>9, <2>1, <2>2
  <2>3. CASE i # buyer
    BY <1>5, <1>8, <1>9, <2>1, <2>3
  <2> QED
    BY <2>2, <2>3
<1> QED
  BY <1>1, <1>2, <1>4, <1>7, <1>8, <1>10 DEF c, issued

\* Managers buy fee shares back for MLN of the vault
\* (ComptrollerLib.buyBackProtocolFeeShares).
LEMMA BuyBackFacts ==
  ASSUME TypeOK, NEW n \in 1..shares.balanceOf[ProtocolFeeReserve],
         BuyBackProtocolFeeShares(n)
  PROVE  /\ n \in Nat /\ n <= shares.totalSupply
         /\ MlnToBurn(shares, n, Gav) \in 1..mlnBalance
         /\ shares' \in SharesTokens
         /\ shares'.totalSupply = shares.totalSupply - n
         /\ \A i \in Investors : shares'.balanceOf[i] = shares.balanceOf[i]
         /\ mlnBalance' = mlnBalance - MlnToBurn(shares, n, Gav)
         /\ mlnBalance' \in Nat
<1>1. /\ MlnToBurn(shares, n, Gav) \in 1..mlnBalance
      /\ Burnable(shares, ProtocolFeeReserve, n)
      /\ shares' = Burn(shares, ProtocolFeeReserve, n)
      /\ mlnBalance' = mlnBalance - MlnToBurn(shares, n, Gav)
  BY DEF BuyBackProtocolFeeShares
<1>2. shares \in SharesTokens /\ mlnBalance \in Nat
  BY DEF TypeOK
<1>3. ProtocolFeeReserve \in Accounts /\ Investors \subseteq Accounts
  BY DEF Accounts
<1>4. shares.balanceOf \in [Accounts -> Nat]
  BY <1>2 DEF SharesTokens
<1>5. shares.balanceOf[ProtocolFeeReserve] \in Nat
  BY <1>3, <1>4
<1>6. n \in Nat
  BY <1>5
<1>7. /\ shares' \in SharesTokens
      /\ shares'.totalSupply = shares.totalSupply - n
      /\ shares'.balanceOf =
           [shares.balanceOf EXCEPT ![ProtocolFeeReserve] =
              shares.balanceOf[ProtocolFeeReserve] - n]
  BY <1>1, <1>2, <1>3, <1>6, BurnFacts
<1>8. \A i \in Investors : shares'.balanceOf[i] = shares.balanceOf[i]
  BY <1>3, <1>4, <1>7, AccountsAssumption
<1>9. n <= shares.totalSupply
  BY <1>1 DEF Burnable
<1>10. mlnBalance' \in Nat
  BY <1>1, <1>2
<1> QED
  BY <1>1, <1>6, <1>7, <1>8, <1>9, <1>10

\* Every transaction leaves the variables in their types.
LEMMA TypeStep == TypeOK /\ [Next]_vars => TypeOK'
<1> SUFFICES ASSUME TypeOK, [Next]_vars PROVE TypeOK'
  OBVIOUS
<1>0. /\ now \in Time
      /\ shares \in SharesTokens
      /\ assetBalance \in Nat
      /\ mlnBalance \in Nat
      /\ positionsValue \in Nat
      /\ unpriced \subseteq {"MLN", "positions"}
      /\ lastPaid \in Time
      /\ autoProtocolFeeSharesBuyback \in BOOLEAN
      /\ acctToLastSharesBoughtTimestamp \in [Investors -> 0..MaxTime]
      /\ pendingRequest \in BOOLEAN
      /\ requestedAt \in 0..MaxTime
  BY DEF TypeOK
<1> DEFINE rest == /\ positionsValue' = positionsValue
                   /\ now' = now
                   /\ unpriced' = unpriced
                   /\ pendingRequest' = pendingRequest
                   /\ requestedAt' = requestedAt
                   /\ autoProtocolFeeSharesBuyback' =
                        autoProtocolFeeSharesBuyback
           same == acctToLastSharesBoughtTimestamp' =
                     acctToLastSharesBoughtTimestamp
<1>1. ASSUME NEW caller \in Investors, NEW buyer \in Investors,
             NEW r \in Investments, BuyShares(caller, buyer, r)
      PROVE  TypeOK'
  <2>1. /\ shares' \in SharesTokens
        /\ assetBalance' \in Nat /\ mlnBalance' \in Nat
        /\ PayFee
    BY <1>1, BuyFacts
  <2>2. lastPaid' \in Time
    BY <2>1, PayFeeFacts
  <2>3. /\ rest
        /\ acctToLastSharesBoughtTimestamp' =
             IF SharesActionTimelock > 0
               THEN [acctToLastSharesBoughtTimestamp EXCEPT ![buyer] = now]
               ELSE acctToLastSharesBoughtTimestamp
    BY <1>1 DEF BuyShares, requestVars
  <2>4. acctToLastSharesBoughtTimestamp' \in [Investors -> 0..MaxTime]
    BY <1>0, <2>3, BoundsAssumption DEF Time
  <2> QED
    BY <1>0, <2>1, <2>2, <2>3, <2>4 DEF TypeOK
<1>2. ASSUME NEW i \in Investors, NEW q \in 1..shares.balanceOf[i],
             NEW inAsset \in Percentages, NEW inMln \in Percentages,
             RedeemSharesForSpecificAssets(i, q, inAsset, inMln)
      PROVE  TypeOK'
  <2>1. RedeemSetup(i, q, Gav) /\ PayFee /\ rest /\ same
    BY <1>2 DEF RedeemSharesForSpecificAssets, RedeemSetup, CanRedeem, requestVars
  <2>2. shares' \in SharesTokens
    BY <2>1, GavType, RedeemFacts
  <2>3. assetBalance' \in Nat /\ mlnBalance' \in Nat
    BY <1>2, SpecificFacts
  <2>4. lastPaid' \in Time
    BY <2>1, PayFeeFacts
  <2> QED
    BY <1>0, <2>1, <2>2, <2>3, <2>4 DEF TypeOK
<1>3. ASSUME NEW i \in Investors, NEW q \in 1..shares.balanceOf[i],
             NEW skipped \in SUBSET {"asset", "MLN"},
             RedeemSharesInKind(i, q, skipped)
      PROVE  TypeOK'
  <2>1. RedeemSetup(i, q, GavOrZero) /\ PayFee /\ rest /\ same
    BY <1>3 DEF RedeemSharesInKind, RedeemSetup, CanRedeem, requestVars
  <2>2. GavOrZero \in Nat
    BY GavType DEF GavOrZero
  <2>3. shares' \in SharesTokens
    BY <2>1, <2>2, RedeemFacts
  <2>4. assetBalance' \in Nat /\ mlnBalance' \in Nat
    BY <1>3, InKindFacts
  <2>5. lastPaid' \in Time
    BY <2>1, PayFeeFacts
  <2> QED
    BY <1>0, <2>1, <2>3, <2>4, <2>5 DEF TypeOK
<1>4. ASSUME NEW i \in Investors, NEW to \in Accounts,
             NEW q \in 1..shares.balanceOf[i], TransferShares(i, to, q)
      PROVE  TypeOK'
  <2>1. i \in Accounts /\ shares.balanceOf[i] \in Nat
    BY <1>0 DEF Accounts, SharesTokens
  <2>2. q \in Nat /\ q <= shares.balanceOf[i]
    BY <2>1
  <2>3. shares' \in SharesTokens
    BY <1>0, <1>4, <2>1, <2>2, TransferFacts DEF TransferShares
  <2> QED
    BY <1>0, <1>4, <2>3 DEF TypeOK, TransferShares, assetVars, requestVars
<1>5. ASSUME NEW n \in 1..shares.balanceOf[ProtocolFeeReserve],
             BuyBackProtocolFeeShares(n)
      PROVE  TypeOK'
  <2>1. shares' \in SharesTokens /\ mlnBalance' \in Nat
    BY <1>5, BuyBackFacts
  <2> QED
    BY <1>0, <1>5, <2>1 DEF TypeOK, BuyBackProtocolFeeShares, requestVars
<1>6. ASSUME NEW next \in BOOLEAN, SetAutoProtocolFeeSharesBuyback(next)
      PROVE  TypeOK'
  BY <1>0, <1>6
     DEF TypeOK, SetAutoProtocolFeeSharesBuyback, assetVars, requestVars
<1>7. ASSUME NEW asset \in AssetBalances, NEW mln \in MlnBalances,
             NEW positions \in PositionValues,
             ManageAssets(asset, mln, positions)
      PROVE  TypeOK'
  BY <1>0, <1>7, AmountsAssumption DEF TypeOK, ManageAssets, requestVars
<1>8. ASSUME NEW missing \in SUBSET {"MLN", "positions"}, PricesChange(missing)
      PROVE  TypeOK'
  BY <1>0, <1>8 DEF TypeOK, PricesChange, assetVars, requestVars
<1>9. CASE Request
  BY <1>0, <1>9, BoundsAssumption DEF TypeOK, Request, assetVars, Time
<1>10. CASE CancelRequest
  <2>1. requestedAt' \in 0..MaxTime
    BY <1>10, BoundsAssumption DEF CancelRequest
  <2>2. pendingRequest' \in BOOLEAN
    BY <1>10 DEF CancelRequest
  <2> QED
    BY <1>0, <1>10, <2>1, <2>2 DEF TypeOK, CancelRequest, assetVars
<1>11. CASE Tick
  BY <1>0, <1>11, BoundsAssumption
     DEF TypeOK, Tick, assetVars, requestVars, Time
<1>12. CASE UNCHANGED vars
  BY <1>0, <1>12 DEF TypeOK, vars, assetVars, requestVars
<1> QED
  BY <1>1, <1>2, <1>3, <1>4, <1>5, <1>6, <1>7, <1>8, <1>9, <1>10, <1>11,
     <1>12 DEF Next, Invest, Leave, Manage

\* A new fund is well typed.
LEMMA TypeInit == Init => TypeOK
<1> SUFFICES ASSUME Init PROVE TypeOK
  OBVIOUS
<1>1. shares = [balanceOf |-> [a \in Accounts |-> 0], totalSupply |-> 0]
  BY DEF Init
<1>2. [a \in Accounts |-> 0] \in [Accounts -> Nat]
  OBVIOUS
<1>3. shares \in SharesTokens
  BY <1>1, <1>2 DEF SharesTokens
<1>4. acctToLastSharesBoughtTimestamp \in [Investors -> 0..MaxTime]
  BY BoundsAssumption DEF Init
<1>5. now \in Time /\ lastPaid \in Time /\ requestedAt \in 0..MaxTime
  BY BoundsAssumption DEF Init, Time
<1>6. unpriced \subseteq {"MLN", "positions"}
  BY DEF Init
<1> QED
  BY <1>3, <1>4, <1>5, <1>6 DEF Init, TypeOK

\* Type correctness: no balance of shares or of assets ever underflows,
\* whatever is bought, redeemed, bought back and paid out in whatever order.
THEOREM SharesTypeCorrect == Spec => []TypeOK
<1>1. Init => TypeOK
  BY TypeInit
<1>2. TypeOK /\ [Next]_vars => TypeOK'
  BY TypeStep
<1> QED
  BY <1>1, <1>2, PTL DEF Spec

-----------------------------------------------------------------------------
(* The value of a share. *)

\* Shares that leave with no more than their part of the fund's value do not
\* lower the price of the others.
LEMMA LeaveFair ==
  ASSUME NEW p \in Nat, NEW s \in Nat, NEW q \in Nat, NEW g \in Nat,
         NEW h \in Nat, NEW u \in Nat,
         s > 0, q <= s, h <= g, (g - h) * s <= g * q, s * p <= g * u
  PROVE  (s - q) * p <= h * u
<1>1. g * (s - q) <= h * s
  <2>1. g * (s - q) = g * s - g * q
    BY SMT
  <2>2. (g - h) * s = g * s - h * s
    BY SMT
  <2>3. g * s \in Nat /\ g * q \in Nat /\ h * s \in Nat
    BY SMT
  <2> QED
    BY <2>1, <2>2, <2>3, SMT
<1>2. s - q \in Nat
  BY SMT
<1>3. (s * p) * (s - q) <= (g * u) * (s - q)
  <2>1. s * p \in Nat /\ g * u \in Nat
    BY SMT
  <2> QED
    BY <1>2, <2>1, SMT
<1>4. (g * (s - q)) * u <= (h * s) * u
  <2>1. g * (s - q) \in Nat /\ h * s \in Nat
    BY <1>2, SMT
  <2> QED
    BY <1>1, <2>1, SMT
<1>5. (g * u) * (s - q) = (g * (s - q)) * u
  BY <1>2, SMT
<1>6. (s * p) * (s - q) = s * ((s - q) * p)
  BY <1>2, SMT
<1>7. (h * s) * u = s * (h * u)
  BY SMT
<1>8. /\ (s - q) * p \in Nat /\ h * u \in Nat
      /\ s * ((s - q) * p) \in Nat /\ s * (h * u) \in Nat
      /\ (g * u) * (s - q) \in Nat
  <2>1. (s - q) * p \in Nat /\ h * u \in Nat /\ g * u \in Nat
    BY <1>2, SMT
  <2> QED
    BY <1>2, <2>1, SMT
<1>9. s * ((s - q) * p) <= s * (h * u)
  BY <1>3, <1>4, <1>5, <1>6, <1>7, <1>8, SMT
<1> QED
  BY <1>8, <1>9, SMT

\* A purchase at a price from before the buy-back does not lower the price
\* that the paid fee has left.
LEMMA BuyPrice ==
  ASSUME TypeOK, NEW caller \in Investors, NEW buyer \in Investors,
         NEW r \in Investments, BuyShares(caller, buyer, r),
         shares.totalSupply > shares.balanceOf[ProtocolFeeReserve]
  PROVE  shares'.totalSupply
           * GrossShareValue(Gav, shares.totalSupply + FeeDue)
           <= Gav' * SharesUnit
<1> DEFINE c == Collected(Gav)
           supply == c.shares.totalSupply
           burned == c.mln * MlnPrice
           p == GrossShareValue(Gav, shares.totalSupply + FeeDue)
           now_p == GrossShareValue(Gav, supply)
           x == SharesIssued(r, Gav, c.shares)
<1>1. /\ r \in Nat /\ FeePayable
      /\ x \in Nat
      /\ now_p * x <= r * SharesUnit
      /\ shares'.totalSupply = supply + x
      /\ assetBalance' = assetBalance + r
      /\ mlnBalance' = mlnBalance - c.mln
      /\ positionsValue' = positionsValue
  BY BuyFacts
<1>2. Gav \in Nat
  BY GavType
<1>3. /\ supply > 0
      /\ Gav - burned \in Nat
      /\ supply * p <= (Gav - burned) * SharesUnit
  BY <1>1, <1>2, CollectedPrice
<1>4. /\ c.shares \in SharesTokens /\ c.mln \in 0..mlnBalance
      /\ supply <= shares.totalSupply + FeeDue
  BY <1>1, <1>2, CollectedFacts
<1>5. FeeDue \in Nat
  BY <1>1, FeeFacts
<1>6. /\ supply \in Nat /\ shares.totalSupply + FeeDue \in Nat
      /\ mlnBalance \in Nat /\ assetBalance \in Nat /\ positionsValue \in Nat
      /\ c.mln \in Nat /\ c.mln <= mlnBalance
  BY <1>4, <1>5 DEF TypeOK, SharesTokens
<1>7. p \in Nat /\ now_p \in Nat
  BY <1>2, <1>6, PriceFacts
<1>8. p <= now_p
  <2>1. shares.totalSupply + FeeDue > 0
    BY <1>3, <1>4, <1>6
  <2>2. (shares.totalSupply + FeeDue) * p <= Gav * SharesUnit
    BY <1>2, <1>6, <2>1, PriceFacts
  <2>3. supply * p <= (shares.totalSupply + FeeDue) * p
    BY <1>4, <1>6, <1>7, SMT
  <2>4. /\ supply * p \in Nat /\ (shares.totalSupply + FeeDue) * p \in Nat
        /\ Gav * SharesUnit \in Nat
    BY <1>2, <1>6, <1>7, Units, SMT
  <2>5. supply * p <= Gav * SharesUnit
    BY <2>2, <2>3, <2>4, SMT
  <2> QED
    BY <1>2, <1>3, <1>6, <1>7, <2>5, PriceLargest
<1>9. Gav' = (Gav - burned) + r
  <2>1. /\ mlnBalance * MlnPrice \in Nat /\ c.mln * MlnPrice \in Nat
        /\ (mlnBalance - c.mln) * MlnPrice =
             mlnBalance * MlnPrice - c.mln * MlnPrice
    BY <1>6, Units, SMT
  <2>2. mlnBalance' * MlnPrice = mlnBalance * MlnPrice - burned
    BY <1>1, <2>1
  <2> QED
    BY <1>1, <1>6, <2>1, <2>2, SMT DEF Gav
<1> HIDE DEF c, supply, p, now_p, x
<1>10. p * x <= r * SharesUnit
  <2>1. p * x <= now_p * x
    BY <1>1, <1>7, <1>8, SMT
  <2>2. p * x \in Nat /\ now_p * x \in Nat /\ r * SharesUnit \in Nat
    BY <1>1, <1>7, Units, SMT
  <2> QED
    BY <1>1, <2>1, <2>2, SMT
<1> HIDE DEF burned
<1> DEFINE g == Gav - burned
<1>11. g \in Nat /\ supply * p <= g * SharesUnit /\ Gav' = g + r
  BY <1>3, <1>9
<1> HIDE DEF g
<1>12. (supply + x) * p <= (g + r) * SharesUnit
  <2>1. (supply + x) * p = supply * p + p * x
    BY <1>1, <1>6, <1>7, SMT
  <2>2. (g + r) * SharesUnit = g * SharesUnit + r * SharesUnit
    BY <1>1, <1>11, Units, SMT
  <2>3. /\ supply * p \in Nat /\ p * x \in Nat
        /\ g * SharesUnit \in Nat /\ r * SharesUnit \in Nat
    BY <1>1, <1>6, <1>7, <1>11, Units, SMT
  <2> QED
    BY <1>10, <1>11, <2>1, <2>2, <2>3, SMT
<1> QED
  BY <1>1, <1>11, <1>12 DEF p, supply, x, c

\* A redemption for specific assets does not lower the price but by the MLN
\* that was burned and still counted.
LEMMA SpecificPrice ==
  ASSUME TypeOK, NEW i \in Investors, NEW q \in 1..shares.balanceOf[i],
         NEW inAsset \in Percentages, NEW inMln \in Percentages,
         RedeemSharesForSpecificAssets(i, q, inAsset, inMln),
         shares.totalSupply > shares.balanceOf[ProtocolFeeReserve]
  PROVE  shares'.totalSupply
           * GrossShareValue(Gav, shares.totalSupply + FeeDue)
           <= (Gav' + Collected(Gav).mln * MlnPrice) * SharesUnit
<1> DEFINE supply == Collected(Gav).shares.totalSupply
           burned == Collected(Gav).mln * MlnPrice
           p == GrossShareValue(Gav, shares.totalSupply + FeeDue)
           h == Gav' + burned
<1>1. Gav \in Nat
  BY GavType
<1>2. RedeemSetup(i, q, Gav) /\ FeePayable
  BY DEF RedeemSharesForSpecificAssets, RedeemSetup, CanRedeem, CanCollectFee
<1>3. /\ q \in Nat /\ q <= supply
      /\ shares'.totalSupply = supply - q
  BY <1>1, <1>2, RedeemFacts
<1>4. h \in 0..Gav /\ (Gav - h) * supply <= Gav * q
  BY SpecificFacts
<1>5. /\ supply > 0
      /\ Gav - burned \in Nat
      /\ supply * p <= (Gav - burned) * SharesUnit
  BY <1>1, <1>2, CollectedPrice
<1>6. /\ Collected(Gav).shares \in SharesTokens
      /\ Collected(Gav).mln \in 0..mlnBalance
  BY <1>1, <1>2, CollectedFacts
<1>7. supply \in Nat /\ Collected(Gav).mln \in Nat
  BY <1>6 DEF TypeOK, SharesTokens
<1>8. FeeDue \in Nat /\ shares.totalSupply \in Nat
  BY <1>2, FeeFacts DEF TypeOK, SharesTokens
<1>9. shares.totalSupply + FeeDue \in Nat
  BY <1>8
<1>10. p \in Nat
  BY <1>1, <1>9, PriceFacts
<1>11. burned \in Nat
  BY <1>7, Units, SMT
<1> HIDE DEF supply, p, burned, h
<1>12. supply * p <= Gav * SharesUnit
  <2>1. (Gav - burned) * SharesUnit <= Gav * SharesUnit
    BY <1>1, <1>5, <1>11, Units, SMT
  <2>2. /\ (Gav - burned) * SharesUnit \in Nat /\ Gav * SharesUnit \in Nat
        /\ supply * p \in Nat
    BY <1>1, <1>5, <1>7, <1>10, Units, SMT
  <2> QED
    BY <1>5, <2>1, <2>2, SMT
<1>13. h \in Nat /\ h <= Gav
  BY <1>1, <1>4
<1>14. (supply - q) * p <= h * SharesUnit
  BY <1>1, <1>3, <1>4, <1>5, <1>7, <1>10, <1>12, <1>13, Units, LeaveFair
<1> QED
  BY <1>3, <1>14 DEF p, h, burned

\* A redemption in kind does not lower the price.
LEMMA InKindPrice ==
  ASSUME TypeOK, NEW i \in Investors, NEW q \in 1..shares.balanceOf[i],
         NEW skipped \in SUBSET {"asset", "MLN"},
         RedeemSharesInKind(i, q, skipped),
         shares.totalSupply > shares.balanceOf[ProtocolFeeReserve]
  PROVE  shares'.totalSupply
           * GrossShareValue(Gav, shares.totalSupply + FeeDue)
           <= Gav' * SharesUnit
<1> DEFINE supply == Collected(GavOrZero).shares.totalSupply
           rest == Gav - Collected(GavOrZero).mln * MlnPrice
           p == GrossShareValue(Gav, shares.totalSupply + FeeDue)
<1>1. Gav \in Nat /\ GavOrZero \in Nat /\ GavOrZero \in {0, Gav}
  BY GavType DEF GavOrZero
<1>2. RedeemSetup(i, q, GavOrZero) /\ FeePayable
  BY DEF RedeemSharesInKind, RedeemSetup, CanRedeem, CanCollectFee
<1>3. /\ q \in Nat /\ q <= supply
      /\ shares'.totalSupply = supply - q
  BY <1>1, <1>2, RedeemFacts
<1>4. rest \in Nat /\ Gav' \in 0..rest /\ (rest - Gav') * supply <= rest * q
  BY InKindFacts
<1>5. supply > 0 /\ supply * p <= rest * SharesUnit
  BY <1>1, <1>2, CollectedPrice
<1>6. Collected(GavOrZero).shares \in SharesTokens
  BY <1>1, <1>2, CollectedFacts
<1>7. supply \in Nat
  BY <1>6 DEF SharesTokens
<1>8. FeeDue \in Nat /\ shares.totalSupply \in Nat
  BY <1>2, FeeFacts DEF TypeOK, SharesTokens
<1>9. shares.totalSupply + FeeDue \in Nat
  BY <1>8
<1>10. p \in Nat
  BY <1>1, <1>9, PriceFacts
<1> HIDE DEF supply, rest, p
<1>11. Gav' \in Nat /\ Gav' <= rest
  BY <1>4
<1>12. (supply - q) * p <= Gav' * SharesUnit
  BY <1>3, <1>4, <1>5, <1>7, <1>10, <1>11, Units, LeaveFair
<1> QED
  BY <1>3, <1>12 DEF p

\* A buy-back by the managers does not lower the price.
LEMMA BuyBackPrice ==
  ASSUME TypeOK, NEW n \in 1..shares.balanceOf[ProtocolFeeReserve],
         BuyBackProtocolFeeShares(n), shares'.totalSupply > 0
  PROVE  shares'.totalSupply * GrossShareValue(Gav, shares.totalSupply)
           <= Gav' * SharesUnit
<1> DEFINE p == GrossShareValue(Gav, shares.totalSupply)
           m == MlnToBurn(shares, n, Gav)
           w == m * MlnPrice
<1>1. Gav \in Nat
  BY GavType
<1>2. /\ n \in Nat /\ n <= shares.totalSupply
      /\ m \in 1..mlnBalance
      /\ shares'.totalSupply = shares.totalSupply - n
      /\ mlnBalance' = mlnBalance - m
  BY BuyBackFacts
<1>3. /\ shares \in SharesTokens /\ shares.totalSupply \in Nat
      /\ assetBalance \in Nat /\ mlnBalance \in Nat /\ positionsValue \in Nat
  BY DEF TypeOK, SharesTokens
<1>4. assetBalance' = assetBalance /\ positionsValue' = positionsValue
  BY DEF BuyBackProtocolFeeShares
<1>5. m * MlnPrice * SharesUnit <= p * n
  BY <1>1, <1>2, <1>3, BuybackFacts
<1>6. shares.totalSupply > 0
  BY <1>2, <1>3
<1>7. p \in Nat /\ shares.totalSupply * p <= Gav * SharesUnit
  BY <1>1, <1>3, <1>6, PriceFacts
<1> HIDE DEF p, m
<1>8. /\ m \in Nat /\ m <= mlnBalance
      /\ w \in Nat /\ mlnBalance * MlnPrice \in Nat
      /\ w <= mlnBalance * MlnPrice
      /\ mlnBalance' * MlnPrice = mlnBalance * MlnPrice - w
  <2>1. m \in Nat /\ m <= mlnBalance
    BY <1>2, <1>3
  <2> QED
    BY <1>2, <1>3, <2>1, Units, SMT
<1>9. w <= Gav /\ Gav' = Gav - w
  BY <1>3, <1>4, <1>8, SMT DEF Gav
<1>10. w * SharesUnit <= p * n
  BY <1>5
<1> HIDE DEF w
<1>11. (shares.totalSupply - n) * p <= (Gav - w) * SharesUnit
  BY <1>1, <1>2, <1>3, <1>7, <1>8, <1>9, <1>10, Units, TakeFair
<1> QED
  BY <1>2, <1>9, <1>11 DEF p

\* What may be counted though burned is what a redemption for specific
\* assets has burned.
LEMMA BurnedFacts ==
  ASSUME TypeOK
  PROVE  /\ BurnedButCounted \in Nat
         /\ \A i \in Investors, inAsset \in Percentages,
               inMln \in Percentages :
              \A q \in 1..shares.balanceOf[i] :
                RedeemSharesForSpecificAssets(i, q, inAsset, inMln)
                => BurnedButCounted = Collected(Gav).mln * MlnPrice
<1> DEFINE specific ==
             \E i \in Investors, inAsset, inMln \in Percentages :
               \E q \in 1..shares.balanceOf[i] :
                 RedeemSharesForSpecificAssets(i, q, inAsset, inMln)
<1>1. CASE specific
  <2>1. PICK i \in Investors, inAsset \in Percentages,
             inMln \in Percentages :
             \E q \in 1..shares.balanceOf[i] :
               RedeemSharesForSpecificAssets(i, q, inAsset, inMln)
    BY <1>1
  <2>2. FeePayable
    BY <2>1 DEF RedeemSharesForSpecificAssets, RedeemSetup, CanRedeem, CanCollectFee
  <2>3. Collected(Gav).mln \in 0..mlnBalance
    BY <2>2, GavType, CollectedFacts
  <2>4. Collected(Gav).mln \in Nat
    BY <2>3 DEF TypeOK
  <2>5. Collected(Gav).mln * MlnPrice \in Nat
    BY <2>4, Units, SMT
  <2> QED
    BY <1>1, <2>5 DEF BurnedButCounted
<1>2. CASE ~specific
  BY <1>2 DEF BurnedButCounted
<1> QED
  BY <1>1, <1>2

\* Value that is added keeps what the shares are owed covered.
LEMMA MoreValue ==
  ASSUME NEW g \in Nat, NEW extra \in Nat, NEW s \in Nat, NEW price \in Nat,
         s * price <= g * SharesUnit
  PROVE  s * price <= (g + extra) * SharesUnit
<1>1. /\ g * SharesUnit \in Nat /\ extra * SharesUnit \in Nat
      /\ s * price \in Nat
  BY Units, SMT
<1>2. (g + extra) * SharesUnit = g * SharesUnit + extra * SharesUnit
  BY Units, SMT
<1> QED
  BY <1>1, <1>2, SMT

\* No step lowers the price.
LEMMA PriceStep ==
  ASSUME TypeOK, TypeOK', Next,
         shares'.balanceOf # shares.balanceOf,
         shares.totalSupply > shares.balanceOf[ProtocolFeeReserve],
         shares'.totalSupply > 0
  PROVE  GrossShareValue(Gav' + BurnedButCounted, shares'.totalSupply)
           >= GrossShareValue(Gav, shares.totalSupply + FeeMinted)
<1> DEFINE p == GrossShareValue(Gav, shares.totalSupply + FeeMinted)
           goal == GrossShareValue(Gav' + BurnedButCounted,
                                   shares'.totalSupply) >= p
<1>1. Gav \in Nat /\ Gav' \in Nat
  <2>1. Gav \in Nat
    BY GavType
  <2>2. (TypeOK => Gav \in Nat)'
    BY GavType, PTL
  <2> QED
    BY <2>1, <2>2
<1>2. /\ shares.totalSupply \in Nat /\ shares'.totalSupply \in Nat
      /\ BurnedButCounted \in Nat
  BY BurnedFacts DEF TypeOK, SharesTokens
<1> DEFINE b == BurnedButCounted
           h == Gav'
<1>a. b \in Nat /\ h \in Nat
  BY <1>1, <1>2
<1> HIDE DEF b, h
<1>b. h + b \in Nat
  BY <1>a
<1> HIDE DEF goal, p
<1>3. ASSUME shares.totalSupply + FeeMinted \in Nat,
             shares'.totalSupply * p <= (h + b) * SharesUnit
      PROVE  goal
  <2>1. p \in Nat
    BY <1>1, <1>3, PriceFacts DEF p
  <2>2. p <= GrossShareValue(h + b, shares'.totalSupply)
    BY ONLY <1>a, <1>b, <1>2, <1>3, <2>1, PriceLargest,
            shares'.totalSupply > 0
  <2>3. GrossShareValue(h + b, shares'.totalSupply) \in Nat
    BY <1>b, <1>2, PriceFacts
  <2>4. GrossShareValue(h + b, shares'.totalSupply) >= p
    BY <2>1, <2>2, <2>3
  <2> QED
    BY <2>4 DEF goal, h, b, p
<1>4. ASSUME shares.totalSupply + FeeMinted \in Nat,
             shares'.totalSupply * p <= h * SharesUnit
      PROVE  goal
  <2>1. p \in Nat
    BY <1>1, <1>4, PriceFacts DEF p
  <2>2. shares'.totalSupply * p <= (h + b) * SharesUnit
    BY ONLY <1>2, <1>4, <1>a, <2>1, MoreValue
  <2> QED
    BY <1>3, <1>4, <2>2
<1>5. ASSUME FeePayable, PayFee
      PROVE  FeeMinted = FeeDue /\ shares.totalSupply + FeeMinted \in Nat
  <2>1. FeeDue \in Nat
    BY <1>5, FeeFacts
  <2>2. FeeMinted = FeeDue
    BY <1>5, PayFeeFacts DEF FeeMinted
  <2> QED
    BY <1>2, <2>1, <2>2
<1>6. ASSUME NEW caller \in Investors, NEW buyer \in Investors,
             NEW r \in Investments, BuyShares(caller, buyer, r)
      PROVE  goal
  <2>1. FeePayable /\ PayFee
    BY <1>6, BuyFacts
  <2>2. FeeMinted = FeeDue /\ shares.totalSupply + FeeMinted \in Nat
    BY <1>5, <2>1
  <2>3. shares'.totalSupply * p <= h * SharesUnit
    BY <1>6, <2>2, BuyPrice DEF p, h
  <2> QED
    BY <1>4, <2>2, <2>3
<1>7. ASSUME NEW i \in Investors, NEW q \in 1..shares.balanceOf[i],
             NEW inAsset \in Percentages, NEW inMln \in Percentages,
             RedeemSharesForSpecificAssets(i, q, inAsset, inMln)
      PROVE  goal
  <2>1. FeePayable /\ PayFee
    BY <1>7 DEF RedeemSharesForSpecificAssets, RedeemSetup, CanRedeem, CanCollectFee
  <2>2. FeeMinted = FeeDue /\ shares.totalSupply + FeeMinted \in Nat
    BY <1>5, <2>1
  <2>3. BurnedButCounted = Collected(Gav).mln * MlnPrice
    BY <1>7, BurnedFacts
  <2>4. shares'.totalSupply * p <= (h + b) * SharesUnit
    BY <1>7, <2>2, <2>3, SpecificPrice DEF p, h, b
  <2> QED
    BY <1>3, <2>2, <2>4
<1>8. ASSUME NEW i \in Investors, NEW q \in 1..shares.balanceOf[i],
             NEW skipped \in SUBSET {"asset", "MLN"},
             RedeemSharesInKind(i, q, skipped)
      PROVE  goal
  <2>1. FeePayable /\ PayFee
    BY <1>8 DEF RedeemSharesInKind, RedeemSetup, CanRedeem, CanCollectFee
  <2>2. FeeMinted = FeeDue /\ shares.totalSupply + FeeMinted \in Nat
    BY <1>5, <2>1
  <2>3. shares'.totalSupply * p <= h * SharesUnit
    BY <1>8, <2>2, InKindPrice DEF p, h
  <2> QED
    BY <1>4, <2>2, <2>3
<1>9. ASSUME lastPaid' = lastPaid
      PROVE  /\ shares.totalSupply + FeeMinted = shares.totalSupply
             /\ shares.totalSupply + FeeMinted \in Nat
  BY <1>2, <1>9 DEF FeeMinted
<1>10. ASSUME NEW i \in Investors, NEW to \in Accounts,
              NEW q \in 1..shares.balanceOf[i], TransferShares(i, to, q)
       PROVE  goal
  <2>1. /\ lastPaid' = lastPaid /\ Gav' = Gav
        /\ shares' = Transfer(shares, i, to, q)
    BY <1>10 DEF TransferShares, assetVars, Gav
  <2>2. shares'.totalSupply = shares.totalSupply
    BY <2>1 DEF Transfer
  <2>3. shares.totalSupply + FeeMinted = shares.totalSupply
    BY <1>9, <2>1
  <2>4. shares.totalSupply * GrossShareValue(Gav, shares.totalSupply)
          <= Gav * SharesUnit
    BY <1>1, <1>2, <2>2, PriceFacts
  <2>5. shares'.totalSupply * p <= h * SharesUnit
    BY <2>1, <2>2, <2>3, <2>4 DEF p, h
  <2> QED
    BY <1>4, <1>9, <2>1, <2>5
<1>11. ASSUME NEW n \in 1..shares.balanceOf[ProtocolFeeReserve],
              BuyBackProtocolFeeShares(n)
       PROVE  goal
  <2>1. lastPaid' = lastPaid
    BY <1>11 DEF BuyBackProtocolFeeShares
  <2>2. shares'.totalSupply * GrossShareValue(Gav, shares.totalSupply)
          <= Gav' * SharesUnit
    BY <1>11, BuyBackPrice
  <2>3. shares.totalSupply + FeeMinted = shares.totalSupply
    BY <1>9, <2>1
  <2>4. shares'.totalSupply * p <= h * SharesUnit
    BY <2>2, <2>3 DEF p, h
  <2> QED
    BY <1>4, <1>9, <2>1, <2>4
<1>12. ASSUME NEW next \in BOOLEAN, SetAutoProtocolFeeSharesBuyback(next)
       PROVE  goal
  BY <1>12 DEF SetAutoProtocolFeeSharesBuyback
<1>13. ASSUME NEW asset \in AssetBalances, NEW mln \in MlnBalances,
              NEW positions \in PositionValues,
              ManageAssets(asset, mln, positions)
       PROVE  goal
  BY <1>13 DEF ManageAssets
<1>14. ASSUME NEW missing \in SUBSET {"MLN", "positions"},
              PricesChange(missing)
       PROVE  goal
  BY <1>14 DEF PricesChange
<1>15. ASSUME Request PROVE goal
  BY <1>15 DEF Request
<1>16. ASSUME CancelRequest PROVE goal
  BY <1>16 DEF CancelRequest
<1>17. ASSUME Tick PROVE goal
  BY <1>17 DEF Tick
<1>18. ASSUME Invest PROVE goal
  BY <1>6, <1>18 DEF Invest
<1>19. ASSUME Leave PROVE goal
  BY <1>7, <1>8, <1>10, <1>19 DEF Leave
<1>20. ASSUME Manage PROVE goal
  BY <1>11, <1>12, <1>13, <1>20 DEF Manage
<1>21. goal
  BY <1>14, <1>15, <1>16, <1>17, <1>18, <1>19, <1>20 DEF Next
<1> QED
  BY <1>21 DEF goal, p

\* No purchase, redemption, transfer or buy-back takes value from the shares
\* of the others, for any amounts, units, rates and prices.
THEOREM SharePriceCorrect == Spec => SharePriceNeverFalls
<1> DEFINE A ==
      /\ shares'.balanceOf # shares.balanceOf
      /\ shares.totalSupply > shares.balanceOf[ProtocolFeeReserve]
      /\ shares'.totalSupply > 0
      => GrossShareValue(Gav' + BurnedButCounted, shares'.totalSupply) >=
           GrossShareValue(Gav, shares.totalSupply + FeeMinted)
<1>1. TypeOK /\ TypeOK' /\ [Next]_vars => [A]_vars
  <2> SUFFICES ASSUME TypeOK, TypeOK', Next PROVE A
    OBVIOUS
  <2> QED
    BY PriceStep
<1> QED
  BY <1>1, SharesTypeCorrect, PTL DEF Spec, SharePriceNeverFalls
-----------------------------------------------------------------------------
(* The timelock and the fee's clock. *)

\* What the two theorems below need to know of the clocks: nothing lies in the
\* future, and nobody who is timelocked bought after the pending request.
ClocksInv ==
  /\ lastPaid <= now
  /\ \A i \in Investors : acctToLastSharesBoughtTimestamp[i] <= now
  /\ SharesActionTimelock > 0 /\ pendingRequest
       => \A i \in Investors :
            acctToLastSharesBoughtTimestamp[i] <= requestedAt

\* A step that keeps the purchases and the request keeps the clocks, if it
\* pays the fee or lets the time go on.
LEMMA ClocksKept ==
  ASSUME TypeOK, ClocksInv, TypeOK',
         now' >= now, lastPaid' <= now',
         acctToLastSharesBoughtTimestamp' = acctToLastSharesBoughtTimestamp,
         \/ pendingRequest' = pendingRequest /\ requestedAt' = requestedAt
         \/ ~pendingRequest'
         \/ requestedAt' = now
  PROVE  ClocksInv'
<1>1. \A i \in Investors : /\ acctToLastSharesBoughtTimestamp[i] \in Nat
                           /\ acctToLastSharesBoughtTimestamp[i] <= now
  BY BoundsAssumption DEF TypeOK, ClocksInv
<1>2. now \in Nat /\ now' \in Nat
  BY BoundsAssumption DEF TypeOK, Time
<1>3. \A i \in Investors : acctToLastSharesBoughtTimestamp'[i] <= now'
  BY <1>1, <1>2
<1>4. SharesActionTimelock > 0 /\ pendingRequest'
        => \A i \in Investors :
             acctToLastSharesBoughtTimestamp'[i] <= requestedAt'
  BY <1>1 DEF ClocksInv
<1> QED
  BY <1>3, <1>4 DEF ClocksInv

LEMMA ClocksStep == TypeOK /\ TypeOK' /\ ClocksInv /\ [Next]_vars => ClocksInv'
<1> SUFFICES ASSUME TypeOK, TypeOK', ClocksInv, [Next]_vars PROVE ClocksInv'
  OBVIOUS
<1>0. now \in Nat /\ lastPaid \in Nat /\ lastPaid <= now
  BY BoundsAssumption DEF TypeOK, Time, ClocksInv
<1> DEFINE same == /\ now' = now
                   /\ acctToLastSharesBoughtTimestamp' =
                        acctToLastSharesBoughtTimestamp
                   /\ pendingRequest' = pendingRequest
                   /\ requestedAt' = requestedAt
<1>1. ASSUME same, PayFee \/ lastPaid' = lastPaid
      PROVE  ClocksInv'
  <2>1. lastPaid' <= now'
    BY <1>0, <1>1, PayFeeFacts
  <2>2. now' >= now
    BY <1>0, <1>1
  <2> QED
    BY <1>1, <2>1, <2>2, ClocksKept
<1>2. ASSUME NEW caller \in Investors, NEW buyer \in Investors,
             NEW r \in Investments, BuyShares(caller, buyer, r)
      PROVE  ClocksInv'
  <2>1. /\ PayFee /\ now' = now
        /\ pendingRequest' = pendingRequest /\ requestedAt' = requestedAt
        /\ acctToLastSharesBoughtTimestamp' =
             IF SharesActionTimelock > 0
               THEN [acctToLastSharesBoughtTimestamp EXCEPT ![buyer] = now]
               ELSE acctToLastSharesBoughtTimestamp
    BY <1>2 DEF BuyShares, requestVars
  <2>2. CASE SharesActionTimelock > 0
    <3>1. ~pendingRequest'
      BY <1>2, <2>1, <2>2 DEF BuyShares, MayBuy
    <3>2. lastPaid' <= now'
      BY <1>0, <2>1, PayFeeFacts
    <3>3. acctToLastSharesBoughtTimestamp \in [Investors -> 0..MaxTime]
      BY DEF TypeOK
    <3>4. \A i \in Investors : acctToLastSharesBoughtTimestamp'[i] <= now'
      BY <1>0, <2>1, <2>2, <3>3 DEF ClocksInv
    <3> QED
      BY <3>1, <3>2, <3>4 DEF ClocksInv
  <2>3. CASE ~(SharesActionTimelock > 0)
    BY <1>1, <2>1, <2>3
  <2> QED
    BY <2>2, <2>3
<1>3. ASSUME NEW i \in Investors, NEW q \in 1..shares.balanceOf[i],
             NEW inAsset \in Percentages, NEW inMln \in Percentages,
             RedeemSharesForSpecificAssets(i, q, inAsset, inMln)
      PROVE  ClocksInv'
  BY <1>1, <1>3 DEF RedeemSharesForSpecificAssets, RedeemSetup, CanRedeem, requestVars
<1>4. ASSUME NEW i \in Investors, NEW q \in 1..shares.balanceOf[i],
             NEW skipped \in SUBSET {"asset", "MLN"},
             RedeemSharesInKind(i, q, skipped)
      PROVE  ClocksInv'
  BY <1>1, <1>4 DEF RedeemSharesInKind, RedeemSetup, CanRedeem, requestVars
<1>5. ASSUME NEW i \in Investors, NEW to \in Accounts,
             NEW q \in 1..shares.balanceOf[i], TransferShares(i, to, q)
      PROVE  ClocksInv'
  BY <1>1, <1>5 DEF TransferShares, requestVars
<1>6. ASSUME NEW n \in 1..shares.balanceOf[ProtocolFeeReserve],
             BuyBackProtocolFeeShares(n)
      PROVE  ClocksInv'
  BY <1>1, <1>6 DEF BuyBackProtocolFeeShares, requestVars
<1>7. ASSUME NEW next \in BOOLEAN, SetAutoProtocolFeeSharesBuyback(next)
      PROVE  ClocksInv'
  BY <1>1, <1>7 DEF SetAutoProtocolFeeSharesBuyback, requestVars
<1>8. ASSUME NEW asset \in AssetBalances, NEW mln \in MlnBalances,
             NEW positions \in PositionValues,
             ManageAssets(asset, mln, positions)
      PROVE  ClocksInv'
  BY <1>1, <1>8 DEF ManageAssets, requestVars
<1>9. ASSUME NEW missing \in SUBSET {"MLN", "positions"},
             PricesChange(missing)
      PROVE  ClocksInv'
  BY <1>1, <1>9 DEF PricesChange, requestVars
<1>10. CASE Request
  BY <1>0, <1>10, ClocksKept DEF Request
<1>11. CASE CancelRequest
  <2>1. /\ ~pendingRequest' /\ now' = now /\ lastPaid' = lastPaid
        /\ acctToLastSharesBoughtTimestamp' = acctToLastSharesBoughtTimestamp
    BY <1>11 DEF CancelRequest
  <2>2. now' >= now /\ lastPaid' <= now'
    BY <1>0, <2>1
  <2> QED
    BY <2>1, <2>2, ClocksKept
<1>12. CASE Tick
  <2>1. now' = now + 1 /\ lastPaid' = lastPaid
    BY <1>12 DEF Tick
  <2>2. now' >= now /\ lastPaid' <= now'
    BY <1>0, <2>1
  <2> QED
    BY <1>12, <2>2, ClocksKept DEF Tick, requestVars
<1>13. CASE UNCHANGED vars
  BY <1>1, <1>13 DEF vars, requestVars
<1> QED
  BY <1>2, <1>3, <1>4, <1>5, <1>6, <1>7, <1>8, <1>9, <1>10, <1>11, <1>12,
     <1>13 DEF Next, Invest, Leave, Manage

\* Nothing is ever dated in the future, and no purchase is made while a
\* request is pending that the timelock would still have to protect.
THEOREM ClocksCorrect == Spec => []ClocksInv
<1>1. Init => ClocksInv
  BY DEF Init, ClocksInv
<1>2. TypeOK /\ TypeOK' /\ ClocksInv /\ [Next]_vars => ClocksInv'
  BY ClocksStep
<1> QED
  BY <1>1, <1>2, SharesTypeCorrect, PTL DEF Spec

\* Only who is not timelocked loses shares.
LEMMA WhoLosesShares ==
  ASSUME TypeOK, Next, NEW i \in Investors,
         shares'.balanceOf[i] < shares.balanceOf[i]
  PROVE  SharesActionNotTimelocked(i)
<1>0. shares.balanceOf[i] \in Nat
  BY DEF TypeOK, SharesTokens, Accounts
<1> DEFINE goal == SharesActionNotTimelocked(i)
<1>u. ASSUME shares' = shares
      PROVE  goal
  BY <1>0, <1>u
<1> HIDE DEF goal
<1>1. ASSUME NEW caller \in Investors, NEW buyer \in Investors,
             NEW r \in Investments, BuyShares(caller, buyer, r)
      PROVE  goal
  <2>1. shares' \in SharesTokens /\ shares'.balanceOf[i] >= shares.balanceOf[i]
    BY <1>1, BuyFacts
  <2>2. shares'.balanceOf[i] \in Nat
    BY <2>1 DEF SharesTokens, Accounts
  <2> QED
    BY <1>0, <2>1, <2>2
<1>2. ASSUME NEW j \in Investors, NEW q \in 1..shares.balanceOf[j],
             NEW gav \in Nat, RedeemSetup(j, q, gav)
      PROVE  goal
  <2>1. CASE j = i
    BY <1>2, <2>1 DEF RedeemSetup, CanRedeem, goal
  <2>2. CASE j # i
    <3>1. shares'.balanceOf[i] = shares.balanceOf[i]
      BY <1>2, <2>2, RedeemFacts
    <3> QED
      BY <1>0, <3>1
  <2> QED
    BY <2>1, <2>2
<1>3. ASSUME NEW j \in Investors, NEW q \in 1..shares.balanceOf[j],
             NEW inAsset \in Percentages, NEW inMln \in Percentages,
             RedeemSharesForSpecificAssets(j, q, inAsset, inMln)
      PROVE  goal
  BY <1>2, <1>3, GavType DEF RedeemSharesForSpecificAssets
<1>4. ASSUME NEW j \in Investors, NEW q \in 1..shares.balanceOf[j],
             NEW skipped \in SUBSET {"asset", "MLN"},
             RedeemSharesInKind(j, q, skipped)
      PROVE  goal
  <2>1. GavOrZero \in Nat
    BY GavType DEF GavOrZero
  <2> QED
    BY <1>2, <1>4, <2>1 DEF RedeemSharesInKind
<1>5. ASSUME NEW j \in Investors, NEW to \in Accounts,
             NEW q \in 1..shares.balanceOf[j], TransferShares(j, to, q)
      PROVE  goal
  <2>1. CASE j = i
    BY <1>5, <2>1 DEF TransferShares, goal
  <2>2. CASE j # i
    <3>1. /\ shares \in SharesTokens /\ i \in Accounts /\ j \in Accounts
          /\ shares.balanceOf[j] \in Nat
      BY DEF TypeOK, SharesTokens, Accounts
    <3>2. q \in Nat /\ q <= shares.balanceOf[j]
      BY <3>1
    <3>3. shares' = Transfer(shares, j, to, q)
      BY <1>5 DEF TransferShares
    <3>4. /\ shares' \in SharesTokens
          /\ shares'.balanceOf[i] >= shares.balanceOf[i]
      BY <2>2, <3>1, <3>2, <3>3, TransferFacts
    <3>5. shares'.balanceOf[i] \in Nat
      BY <3>1, <3>4 DEF SharesTokens
    <3> QED
      BY <1>0, <3>4, <3>5
  <2> QED
    BY <2>1, <2>2
<1>6. ASSUME NEW n \in 1..shares.balanceOf[ProtocolFeeReserve],
             BuyBackProtocolFeeShares(n)
      PROVE  goal
  <2>1. shares'.balanceOf[i] = shares.balanceOf[i]
    BY <1>6, BuyBackFacts
  <2> QED
    BY <1>0, <2>1
<1>7. ASSUME Invest PROVE goal
  BY <1>1, <1>7 DEF Invest
<1>8. ASSUME Leave PROVE goal
  BY <1>3, <1>4, <1>5, <1>8 DEF Leave
<1>9. ASSUME Manage PROVE goal
  BY <1>6, <1>9, <1>u
     DEF Manage, SetAutoProtocolFeeSharesBuyback, ManageAssets
<1>10. goal
  BY <1>7, <1>8, <1>9, <1>u
     DEF Next, PricesChange, Request, CancelRequest, Tick
<1> QED
  BY <1>10 DEF goal

\* For any timelock, nobody's shares leave before it has elapsed, unless a
\* request that was made after the purchase is pending.
THEOREM TimelockCorrect == Spec => NoEarlyExit
<1> DEFINE A ==
      \A i \in Investors :
        LET bought == acctToLastSharesBoughtTimestamp[i]
        IN  /\ shares'.balanceOf[i] < shares.balanceOf[i]
            /\ bought > 0
            /\ now - bought < SharesActionTimelock
            => pendingRequest /\ requestedAt >= bought
<1>1. TypeOK /\ ClocksInv /\ [Next]_vars => [A]_vars
  <2> SUFFICES ASSUME TypeOK, ClocksInv, Next,
                      NEW i \in Investors,
                      shares'.balanceOf[i] < shares.balanceOf[i],
                      acctToLastSharesBoughtTimestamp[i] > 0,
                      now - acctToLastSharesBoughtTimestamp[i]
                        < SharesActionTimelock
               PROVE  /\ pendingRequest
                      /\ requestedAt >= acctToLastSharesBoughtTimestamp[i]
    OBVIOUS
  <2>1. /\ acctToLastSharesBoughtTimestamp[i] \in Nat /\ now \in Nat
        /\ requestedAt \in Nat /\ SharesActionTimelock \in Nat
        /\ acctToLastSharesBoughtTimestamp[i] <= now
    BY BoundsAssumption DEF TypeOK, ClocksInv, Time
  <2>2. SharesActionNotTimelocked(i)
    BY WhoLosesShares
  <2>3. pendingRequest
    BY <2>1, <2>2 DEF SharesActionNotTimelocked
  <2>4. SharesActionTimelock > 0
    BY <2>1
  <2>5. acctToLastSharesBoughtTimestamp[i] <= requestedAt
    BY <2>3, <2>4 DEF ClocksInv
  <2> QED
    BY <2>1, <2>3, <2>5
<1> QED
  BY <1>1, SharesTypeCorrect, ClocksCorrect, PTL DEF Spec, NoEarlyExit

\* For any fee and any timing, shares are issued to and taken from investors
\* only with the fee's clock brought to the present.
THEOREM FeeClockCorrect == Spec => SupplyChangesPayTheFee
<1> DEFINE A ==
      /\ shares'.totalSupply # shares.totalSupply
      /\ \E i \in Investors : shares'.balanceOf[i] # shares.balanceOf[i]
      => lastPaid' = now
<1>1. TypeOK /\ ClocksInv /\ [Next]_vars => [A]_vars
  <2> SUFFICES ASSUME TypeOK, ClocksInv, Next,
                      shares'.totalSupply # shares.totalSupply,
                      NEW i \in Investors,
                      shares'.balanceOf[i] # shares.balanceOf[i]
               PROVE  lastPaid' = now
    OBVIOUS
  <2> DEFINE goal == lastPaid' = now
  <2>1. ASSUME PayFee PROVE goal
    BY <2>1, PayFeeFacts DEF ClocksInv
  <2>2. ASSUME shares' = shares PROVE goal
    BY <2>2
  <2> HIDE DEF goal
  <2>3. ASSUME NEW j \in Investors, NEW to \in Accounts,
               NEW q \in 1..shares.balanceOf[j], TransferShares(j, to, q)
        PROVE  goal
    <3>1. shares'.totalSupply = shares.totalSupply
      BY <2>3 DEF TransferShares, Transfer
    <3> QED
      BY <3>1
  <2>4. ASSUME NEW n \in 1..shares.balanceOf[ProtocolFeeReserve],
               BuyBackProtocolFeeShares(n)
        PROVE  goal
    <3>1. shares'.balanceOf[i] = shares.balanceOf[i]
      BY <2>4, BuyBackFacts
    <3> QED
      BY <3>1
  <2>5. ASSUME Invest PROVE goal
    BY <2>1, <2>5 DEF Invest, BuyShares
  <2>6. ASSUME Leave PROVE goal
    BY <2>1, <2>3, <2>6
       DEF Leave, RedeemSharesForSpecificAssets, RedeemSharesInKind,
           RedeemSetup, CanRedeem
  <2>7. ASSUME Manage PROVE goal
    BY <2>2, <2>4, <2>7
       DEF Manage, SetAutoProtocolFeeSharesBuyback, ManageAssets
  <2>8. goal
    BY <2>2, <2>5, <2>6, <2>7
       DEF Next, PricesChange, Request, CancelRequest, Tick
  <2> QED
    BY <2>8 DEF goal
<1> QED
  BY <1>1, SharesTypeCorrect, ClocksCorrect, PTL
     DEF Spec, SupplyChangesPayTheFee

-----------------------------------------------------------------------------
(* Redeeming in kind. *)

\* The balances add up to the supply.
Backed(s) ==
  /\ s \in SharesTokens
  /\ SumOver(s.balanceOf, Accounts) = s.totalSupply

LEMMA AccountsFinite == IsFiniteSet(Accounts)
  BY AccountsAssumption, FS_AddElement DEF Accounts

\* Minting, and burning and transferring within a balance, keep the sum
\* (SharesTokenBase.__mint, __burn, __transfer).
LEMMA MintBacked ==
  ASSUME NEW s, Backed(s), NEW a \in Accounts, NEW n \in Nat
  PROVE  Backed(Mint(s, a, n))
<1> DEFINE f == s.balanceOf
           g == Mint(s, a, n).balanceOf
<1>1. /\ f \in [Accounts -> Nat] /\ s.totalSupply \in Nat
      /\ SumOver(f, Accounts) = s.totalSupply
  BY DEF Backed, SharesTokens
<1>2. /\ Mint(s, a, n) \in SharesTokens
      /\ Mint(s, a, n).totalSupply = s.totalSupply + n
      /\ g = [f EXCEPT ![a] = f[a] + n]
  BY MintFacts DEF Backed
<1>3. g \in [Accounts -> Nat]
  BY <1>2 DEF SharesTokens
<1> HIDE DEF f, g
<1>4. f[a] \in Nat /\ g[a] = f[a] + n /\ \A x \in Accounts \ {a} : g[x] = f[x]
  BY <1>1, <1>2
<1>5. SumOver(g, Accounts) = SumOver(f, Accounts) - f[a] + g[a]
  BY <1>1, <1>3, <1>4, AccountsFinite, SumChange
<1>6. SumOver(g, Accounts) = s.totalSupply + n
  BY <1>1, <1>4, <1>5, SMT
<1> QED
  BY <1>2, <1>6 DEF Backed, g

LEMMA BurnBacked ==
  ASSUME NEW s, Backed(s), NEW a \in Accounts, NEW n \in Nat,
         n <= s.balanceOf[a]
  PROVE  /\ Burnable(s, a, n)
         /\ Backed(Burn(s, a, n))
<1> DEFINE f == s.balanceOf
           g == Burn(s, a, n).balanceOf
<1>1. /\ f \in [Accounts -> Nat] /\ s.totalSupply \in Nat
      /\ SumOver(f, Accounts) = s.totalSupply
  BY DEF Backed, SharesTokens
<1>2. f[a] \in Nat /\ f[a] <= s.totalSupply
  <2> HIDE DEF f
  <2> QED
    BY <1>1, AccountsFinite, SumCovers
<1>3. Burnable(s, a, n)
  BY <1>1, <1>2, SMT DEF Burnable
<1>4. /\ Burn(s, a, n) \in SharesTokens
      /\ Burn(s, a, n).totalSupply = s.totalSupply - n
      /\ g = [f EXCEPT ![a] = f[a] - n]
  BY <1>3, BurnFacts DEF Backed
<1>5. g \in [Accounts -> Nat]
  BY <1>4 DEF SharesTokens
<1> HIDE DEF f, g
<1>6. g[a] = f[a] - n /\ \A x \in Accounts \ {a} : g[x] = f[x]
  BY <1>1, <1>4
<1>7. SumOver(g, Accounts) = SumOver(f, Accounts) - f[a] + g[a]
  BY <1>1, <1>5, <1>6, AccountsFinite, SumChange
<1>8. SumOver(g, Accounts) = s.totalSupply - n
  BY <1>1, <1>2, <1>6, <1>7, SMT
<1> QED
  BY <1>3, <1>4, <1>8 DEF Backed, g

\* A transfer is a burn and a mint.
LEMMA TransferBacked ==
  ASSUME NEW s, Backed(s), NEW a \in Accounts, NEW b \in Accounts,
         NEW n \in Nat, n <= s.balanceOf[a]
  PROVE  Backed(Transfer(s, a, b, n))
<1> DEFINE burned == Burn(s, a, n)
<1>1. Backed(burned)
  BY BurnBacked
<1>2. s.totalSupply \in Nat /\ s.balanceOf \in [Accounts -> Nat]
  BY DEF Backed, SharesTokens
<1>3. Transfer(s, a, b, n) = Mint(burned, b, n)
  <2>1. burned.balanceOf = [s.balanceOf EXCEPT ![a] = s.balanceOf[a] - n]
    BY DEF Burn
  <2>2. burned.totalSupply = s.totalSupply - n
    BY DEF Burn
  <2>3. (s.totalSupply - n) + n = s.totalSupply
    BY <1>2, SMT
  <2>4. Mint(burned, b, n) =
          [balanceOf |-> [burned.balanceOf EXCEPT ![b] = burned.balanceOf[b] + n],
           totalSupply |-> burned.totalSupply + n]
    BY DEF Mint
  <2>5. Transfer(s, a, b, n) =
          [balanceOf |-> [burned.balanceOf EXCEPT ![b] = burned.balanceOf[b] + n],
           totalSupply |-> s.totalSupply]
    BY <2>1 DEF Transfer
  <2> QED
    BY <2>2, <2>3, <2>4, <2>5
<1> QED
  BY <1>1, <1>3, MintBacked

\* So does paying the fee and buying fee shares back
\* (ComptrollerLib.__redeemSharesSetup, __buyShares).
LEMMA CollectedBacked ==
  ASSUME TypeOK, Backed(shares), FeePayable, NEW gav \in Nat
  PROVE  Backed(Collected(gav).shares)
<1> DEFINE amount == FeePaid.balanceOf[ProtocolFeeReserve]
<1>1. ProtocolFeeReserve \in Accounts
  BY DEF Accounts
<1>2. Backed(FeePaid)
  BY <1>1, FeeFacts, MintBacked DEF FeePaid
<1>3. amount \in Nat /\ amount <= amount
  BY <1>1, <1>2 DEF Backed, SharesTokens
<1>4. Backed(Burn(FeePaid, ProtocolFeeReserve, amount))
  BY <1>1, <1>2, <1>3, BurnBacked
<1>5. \/ Collected(gav).shares = Burn(FeePaid, ProtocolFeeReserve, amount)
      \/ Collected(gav).shares = FeePaid
  BY DEF Collected, MaxBuyback
<1> QED
  BY <1>2, <1>4, <1>5

\* Every transaction keeps the sum.
LEMMA BackedStep ==
  TypeOK /\ Backed(shares) /\ [Next]_vars => Backed(shares')
<1> SUFFICES ASSUME TypeOK, Backed(shares), [Next]_vars PROVE Backed(shares')
  OBVIOUS
<1> DEFINE goal == Backed(shares')
<1>0. Investors \subseteq Accounts /\ ProtocolFeeReserve \in Accounts
  BY DEF Accounts
<1>00. \A a \in Accounts : shares.balanceOf[a] \in Nat
  BY DEF Backed, SharesTokens
<1>1. ASSUME shares' = shares PROVE goal
  BY <1>1
<1>2. ASSUME NEW caller \in Investors, NEW buyer \in Investors,
             NEW r \in Investments, BuyShares(caller, buyer, r)
      PROVE  goal
  <2>1. /\ FeePayable
        /\ SharesIssued(r, Gav, Collected(Gav).shares) \in Nat
    BY <1>2, BuyFacts
  <2>2. Backed(Collected(Gav).shares)
    BY <2>1, GavType, CollectedBacked
  <2>3. shares' = Mint(Collected(Gav).shares, buyer,
                       SharesIssued(r, Gav, Collected(Gav).shares))
    BY <1>2 DEF BuyShares
  <2> QED
    BY <1>0, <2>1, <2>2, <2>3, MintBacked
<1>3. ASSUME NEW i \in Investors, NEW q \in 1..shares.balanceOf[i],
             NEW gav \in Nat, RedeemSetup(i, q, gav)
      PROVE  goal
  <2>1. /\ FeePayable /\ Burnable(Collected(gav).shares, i, q)
        /\ shares' = Burn(Collected(gav).shares, i, q)
    BY <1>3 DEF RedeemSetup, CanRedeem, CanCollectFee
  <2>2. Backed(Collected(gav).shares)
    BY <2>1, CollectedBacked
  <2>3. q \in Nat
    BY <1>0, <1>00
  <2>4. q <= Collected(gav).shares.balanceOf[i]
    BY <2>1 DEF Burnable
  <2> QED
    BY <1>0, <2>1, <2>2, <2>3, <2>4, BurnBacked
<1>4. ASSUME NEW i \in Investors, NEW to \in Accounts,
             NEW q \in 1..shares.balanceOf[i], TransferShares(i, to, q)
      PROVE  goal
  <2>1. shares' = Transfer(shares, i, to, q)
    BY <1>4 DEF TransferShares
  <2>2. q \in Nat /\ q <= shares.balanceOf[i]
    BY <1>0, <1>00
  <2> QED
    BY <1>0, <2>1, <2>2, TransferBacked
<1>5. ASSUME NEW n \in 1..shares.balanceOf[ProtocolFeeReserve],
             BuyBackProtocolFeeShares(n)
      PROVE  goal
  <2>1. shares' = Burn(shares, ProtocolFeeReserve, n)
    BY <1>5 DEF BuyBackProtocolFeeShares
  <2>2. n \in Nat /\ n <= shares.balanceOf[ProtocolFeeReserve]
    BY <1>0, <1>00
  <2> QED
    BY <1>0, <2>1, <2>2, BurnBacked
<1> HIDE DEF goal
<1>6. ASSUME Invest PROVE goal
  BY <1>2, <1>6 DEF Invest
<1>7. ASSUME NEW i \in Investors, NEW q \in 1..shares.balanceOf[i],
             NEW inAsset \in Percentages, NEW inMln \in Percentages,
             RedeemSharesForSpecificAssets(i, q, inAsset, inMln)
      PROVE  goal
  BY <1>3, <1>7, GavType DEF RedeemSharesForSpecificAssets
<1>8. ASSUME NEW i \in Investors, NEW q \in 1..shares.balanceOf[i],
             NEW skipped \in SUBSET {"asset", "MLN"},
             RedeemSharesInKind(i, q, skipped)
      PROVE  goal
  <2>1. GavOrZero \in Nat
    BY GavType DEF GavOrZero
  <2> QED
    BY <1>3, <1>8, <2>1 DEF RedeemSharesInKind
<1>9. ASSUME Leave PROVE goal
  BY <1>4, <1>7, <1>8, <1>9 DEF Leave
<1>10. ASSUME Manage PROVE goal
  BY <1>1, <1>5, <1>10
     DEF Manage, SetAutoProtocolFeeSharesBuyback, ManageAssets
<1>11. goal
  BY <1>1, <1>6, <1>9, <1>10
     DEF Next, PricesChange, Request, CancelRequest, Tick, vars
<1> QED
  BY <1>11 DEF goal

\* The shares always add up.
LEMMA BackedAlways == Spec => []Backed(shares)
<1>1. Init => Backed(shares)
  <2> SUFFICES ASSUME Init PROVE Backed(shares)
    OBVIOUS
  <2> DEFINE zero == [a \in Accounts |-> 0]
  <2>1. shares = [balanceOf |-> zero, totalSupply |-> 0]
    BY DEF Init
  <2>2. zero \in [Accounts -> Nat]
    OBVIOUS
  <2>3. SumOver(zero, Accounts) = SumOver(zero, {})
    <3>1. \A a \in Accounts : zero[a] \in Nat
      OBVIOUS
    <3>2. \A a \in Accounts \ {} : zero[a] = 0
      OBVIOUS
    <3> HIDE DEF zero
    <3> QED
      BY <3>1, <3>2, AccountsFinite, SumZeros
  <2>4. SumOver(zero, {}) = 0
    BY SumEmpty
  <2> HIDE DEF zero
  <2> QED
    BY <2>1, <2>2, <2>3, <2>4 DEF Backed, SharesTokens
<1>2. TypeOK /\ Backed(shares) /\ [Next]_vars => Backed(shares)'
  BY BackedStep
<1> QED
  BY <1>1, <1>2, SharesTypeCorrect, PTL DEF Spec

\* A time within which the fee does not take the whole fund:
\* MAX_BPS / feeBps years.
FeeHorizon == FeeBps * MaxTime <= MaxBps * SecondsInYear

\* Within that time the fee can be paid (ProtocolFeeTracker.payFee).
LEMMA PayableWithinHorizon ==
  ASSUME TypeOK, FeeHorizon
  PROVE  FeePayable
<1> SUFFICES ASSUME lastPaid < now
             PROVE  RawSharesDue(shares.totalSupply, now - lastPaid)
                      <= shares.totalSupply
  BY DEF FeePayable
<1> DEFINE supply == shares.totalSupply
           seconds == now - lastPaid
           charged == supply * FeeBps * seconds
           yearly == charged \div SecondsInYear
           raw == yearly \div MaxBps
<1>1. /\ supply \in Nat /\ seconds \in Nat /\ seconds <= MaxTime
      /\ MaxTime \in Nat /\ FeeBps \in Nat
  BY BoundsAssumption, FeeAssumption DEF TypeOK, Time, SharesTokens
<1>2. raw = RawSharesDue(shares.totalSupply, now - lastPaid)
  BY DEF RawSharesDue
<1> HIDE DEF supply, seconds
<1> DEFINE part == FeeBps * seconds
           whole == MaxBps * SecondsInYear
<1>3. part \in Nat /\ whole \in Nat /\ part <= whole
  <2>1. FeeBps * seconds <= FeeBps * MaxTime /\ FeeBps * seconds \in Nat
        /\ FeeBps * MaxTime \in Nat /\ MaxBps * SecondsInYear \in Nat
    BY <1>1, Units, SMT
  <2> QED
    BY <2>1, SMT DEF FeeHorizon
<1>4. charged = part * supply /\ charged \in Nat
  BY <1>1, SMT
<1>5. part * supply <= whole * supply /\ whole * supply \in Nat
  <2> HIDE DEF part, whole
  <2> QED
    BY <1>1, <1>3, Products
<1>6. whole * supply = (supply * MaxBps) * SecondsInYear
  BY <1>1, Units, SMT
<1>7. supply * MaxBps \in Nat
  BY <1>1, Units, SMT
<1> HIDE DEF charged, part, whole
<1>8. yearly \in Nat /\ SecondsInYear * yearly <= charged
  BY <1>4, Units, DivFacts
<1> HIDE DEF yearly
<1>9. yearly <= supply * MaxBps
  <2>1. yearly * SecondsInYear <= (supply * MaxBps) * SecondsInYear
    <3>1. yearly * SecondsInYear = SecondsInYear * yearly
      BY <1>8, Units, SMT
    <3>2. SecondsInYear * yearly \in Nat
      BY <1>8, Units, SMT
    <3> QED
      BY <1>4, <1>5, <1>6, <1>8, <3>1, <3>2, SMT
  <2> QED
    BY <1>7, <1>8, <2>1, Units, Cancel
<1>10. raw \in Nat /\ MaxBps * raw <= yearly
  BY <1>8, Units, DivFacts
<1> HIDE DEF raw
<1>11. raw <= supply
  <2>1. raw * MaxBps <= supply * MaxBps
    <3>1. raw * MaxBps = MaxBps * raw /\ MaxBps * raw \in Nat
      BY <1>10, Units, SMT
    <3> QED
      BY <1>7, <1>8, <1>9, <1>10, <3>1, SMT
  <2> QED
    BY <1>1, <1>10, <2>1, Units, Cancel
<1> QED
  BY <1>2, <1>11 DEF supply

\* For any number of investors, prices and rates, and as long as the fee does
\* not take the whole fund: an investor who is not timelocked can always
\* redeem all shares in kind (ComptrollerLib.redeemSharesInKind).  Fee and
\* buy-back leave the shares to burn because the balances add up.
THEOREM AlwaysRedeemableInKind ==
  ASSUME FeeHorizon
  PROVE  Spec => []RedeemableInKind
<1>1. ASSUME TypeOK, Backed(shares) PROVE RedeemableInKind
  <2> SUFFICES ASSUME NEW i \in Investors,
                      shares.balanceOf[i] > 0,
                      SharesActionNotTimelocked(i),
                      autoProtocolFeeSharesBuyback => "MLN" \notin unpriced
               PROVE  CanRedeem(i, shares.balanceOf[i], GavOrZero)
    BY DEF RedeemableInKind
  <2> DEFINE balance == shares.balanceOf[i]
             after == Collected(GavOrZero).shares
  <2>1. i \in Accounts
    BY DEF Accounts
  <2>2. balance \in Nat /\ balance \in 1..balance
    BY <1>1, <2>1 DEF Backed, SharesTokens
  <2>3. FeePayable
    BY <1>1, PayableWithinHorizon
  <2>4. CanCollectFee(GavOrZero)
    BY <2>3 DEF CanCollectFee, MlnConvertible
  <2>5. GavOrZero \in Nat
    BY <1>1, GavType DEF GavOrZero
  <2>6. Backed(after)
    BY <1>1, <2>3, <2>5, CollectedBacked
  <2>7. after.balanceOf[i] = balance
    BY <1>1, <2>3, <2>5, CollectedFacts
  <2> HIDE DEF after
  <2>8. Burnable(after, i, balance)
    BY <2>1, <2>2, <2>6, <2>7, BurnBacked
  <2> QED
    BY <2>2, <2>4, <2>8 DEF CanRedeem, after
<1> QED
  BY <1>1, SharesTypeCorrect, BackedAlways, PTL
==============================================================================
