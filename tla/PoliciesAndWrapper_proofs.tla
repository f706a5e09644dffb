-------------------- MODULE PoliciesAndWrapper_proofs ---------------------
(* For any policies, funds, prices, trades and stretches of time: what
   investors found when they invested stays, and the trades that the cumulative
   slippage policy accepts lose no more than it tolerates.

   For any accounts, stakes and reward tokens of a staking wrapper: rewards
   follow stakes, and what is earned is covered but for what was counted twice.
   Policies and wrappers share nothing but what both know of numbers. *)
EXTENDS Policies, StakingWrapper, Arithmetic, TLAPS

\* Every policy on a hook is one of those that can be given.
HooksType ==
  /\ configured \subseteq Comptrollers
  /\ hookToPolicies \in
       [Comptrollers -> [Hooks -> SUBSET (Policies \cup UNION Configurations)]]

\* What TermsStay says of one step.
TermsKept ==
  \A c \in configured, hook \in Hooks :
    /\ RestrictsCurrentInvestorActions(hook) =>
         hookToPolicies'[c][hook] \subseteq hookToPolicies[c][hook]
    /\ \A p \in hookToPolicies[c][hook] \ hookToPolicies'[c][hook] : p.canDisable

\* What enabling policies does to each hook of each ComptrollerProxy.
LEMMA WithPoliciesIs ==
  ASSUME HooksType, NEW d \in Comptrollers,
         NEW policies \in SUBSET (Policies \cup UNION Configurations),
         hookToPolicies' = WithPolicies(d, policies)
  PROVE  /\ hookToPolicies' \in
              [Comptrollers -> [Hooks -> SUBSET (Policies \cup UNION Configurations)]]
         /\ \A hook \in Hooks :
              hookToPolicies'[d][hook] =
                hookToPolicies[d][hook] \cup {p \in policies : hook \in p.hooks}
         /\ \A c \in Comptrollers \ {d} : hookToPolicies'[c] = hookToPolicies[c]
BY DEF HooksType, WithPolicies

\* Every step keeps the hooks' type and the terms.
LEMMA TermsStep == HooksType /\ [Next]_vars => HooksType' /\ TermsKept
<1> SUFFICES ASSUME HooksType, [Next]_vars PROVE HooksType' /\ TermsKept
  OBVIOUS
<1>1. ASSUME NEW d \in Comptrollers, NEW tolerance, NEW policies \in Configurations,
             SetConfigForFund(d, policies, tolerance)
      PROVE  HooksType' /\ TermsKept
  <2>1. policies \in SUBSET (Policies \cup UNION Configurations)
    OBVIOUS
  <2>2. d \notin configured /\ configured' = configured \cup {d}
          /\ hookToPolicies' = WithPolicies(d, policies)
    BY <1>1 DEF SetConfigForFund
  <2> QED
    BY <2>1, <2>2, WithPoliciesIs DEF HooksType, TermsKept
<1>2. ASSUME NEW d \in Comptrollers, NEW tolerance, NEW p \in Policies,
             EnablePolicyForFund(d, p, tolerance)
      PROVE  HooksType' /\ TermsKept
  <2>1. {p} \in SUBSET (Policies \cup UNION Configurations)
    OBVIOUS
  <2>2. RestrictsNobody(p) /\ configured' = configured
          /\ hookToPolicies' = WithPolicies(d, {p})
    BY <1>2 DEF EnablePolicyForFund, fundVars
  <2>3. HooksType'
    BY <2>1, <2>2, WithPoliciesIs DEF HooksType
  <2>4. \A hook \in Hooks :
          hookToPolicies'[d][hook] =
            hookToPolicies[d][hook] \cup {q \in {p} : hook \in q.hooks}
    <3> DEFINE policies == {p}
    <3>1. hookToPolicies' = WithPolicies(d, policies)
      BY <2>2
    <3>2. policies \in SUBSET (Policies \cup UNION Configurations)
      BY <2>1
    <3> HIDE DEF policies
    <3>3. \A hook \in Hooks :
            hookToPolicies'[d][hook] =
              hookToPolicies[d][hook] \cup {q \in policies : hook \in q.hooks}
      BY <3>1, <3>2, WithPoliciesIs
    <3> QED
      BY <3>3 DEF policies
  <2>5. ASSUME NEW c \in configured, NEW hook \in Hooks
        PROVE  /\ hookToPolicies[c][hook] \subseteq hookToPolicies'[c][hook]
               /\ RestrictsCurrentInvestorActions(hook) =>
                    hookToPolicies'[c][hook] = hookToPolicies[c][hook]
    <3>1. CASE c # d
      BY <2>1, <2>2, <3>1, WithPoliciesIs DEF HooksType
    <3>2. CASE c = d
      <4>1. hookToPolicies'[d][hook] =
              hookToPolicies[d][hook] \cup {q \in {p} : hook \in q.hooks}
        BY <2>4
      <4>2. RestrictsCurrentInvestorActions(hook) => hook \notin p.hooks
        BY <2>2 DEF RestrictsNobody
      <4> QED
        BY <3>2, <4>1, <4>2
    <3> QED
      BY <3>1, <3>2
  <2> QED
    BY <2>3, <2>5 DEF TermsKept
<1>3. ASSUME NEW d \in Comptrollers, NEW p, DisablePolicyForFund(d, p)
      PROVE  HooksType' /\ TermsKept
  <2>1. p.canDisable /\ configured' = configured
          /\ hookToPolicies' = [hookToPolicies EXCEPT ![d] =
               [hook \in Hooks |-> @[hook] \ (IF hook \in p.hooks THEN {p} ELSE {})]]
    BY <1>3 DEF DisablePolicyForFund, fundVars
  <2>2. HooksType'
    BY <2>1 DEF HooksType
  <2>3. ASSUME NEW c \in configured, NEW hook \in Hooks
        PROVE  /\ hookToPolicies'[c][hook] \subseteq hookToPolicies[c][hook]
               /\ hookToPolicies[c][hook] \ hookToPolicies'[c][hook] \subseteq {p}
    BY <2>1 DEF HooksType
  <2> QED
    BY <2>1, <2>2, <2>3 DEF TermsKept
<1>4. ASSUME UNCHANGED <<configured, hookToPolicies>> PROVE HooksType' /\ TermsKept
  BY <1>4 DEF HooksType, TermsKept
<1>5. ASSUME NEW c \in Comptrollers, Activate(c) PROVE HooksType' /\ TermsKept
  BY <1>4, <1>5 DEF Activate
<1>6. ASSUME NEW a \in Assets, StartAssetBypassTimelock(a) PROVE HooksType' /\ TermsKept
  BY <1>4, <1>6 DEF StartAssetBypassTimelock, fundVars
<1>7. ASSUME NEW adapter, NEW trade, CallOnIntegration(adapter, trade)
      PROVE  HooksType' /\ TermsKept
  BY <1>4, <1>7 DEF CallOnIntegration, fundVars
<1>8. CASE PricesChange
  BY <1>4, <1>8 DEF PricesChange, fundVars
<1>9. CASE Tick
  BY <1>4, <1>9 DEF Tick, fundVars
<1>10. CASE UNCHANGED vars
  BY <1>4, <1>10 DEF vars
<1> QED
  BY <1>1, <1>2, <1>3, <1>5, <1>6, <1>7, <1>8, <1>9, <1>10 DEF Next

\* Whatever policies there are, whoever calls in whatever order, a fund's owner
\* cannot come to restrict those who are invested or be rid of a policy that
\* cannot be disabled.
THEOREM TermsAlwaysStay == Spec => TermsStay
<1>1. Init => HooksType
  BY DEF Init, HooksType
<1>2. HooksType /\ [Next]_vars => [TermsKept]_vars
  BY TermsStep
<1>3. HooksType /\ [Next]_vars => HooksType'
  BY TermsStep
<1>4. TermsKept <=>
        \A c \in configured, hook \in Hooks :
          /\ RestrictsCurrentInvestorActions(hook) =>
               hookToPolicies'[c][hook] \subseteq hookToPolicies[c][hook]
          /\ \A p \in hookToPolicies[c][hook] \ hookToPolicies'[c][hook] : p.canDisable
  BY DEF TermsKept
<1> QED
  BY <1>1, <1>2, <1>3, <1>4, PTL DEF Spec, TermsStay

-----------------------------------------------------------------------------
(* The cumulative slippage: what is accepted at each instant, as f, and the *)
(* record a policy keeps of it.                                             *)

Records == [tolerance : Nat, cumulativeSlippage : Nat, lastSlippageTimestamp : Nat]

\* Nothing was accepted after the last slippage; what was accepted up to it
\* is what is left of it and what was restored meanwhile; and over any stretch
\* of time no more than the tolerance and what is restored of it.
Bounded(f, info) ==
  LET last == info.lastSlippageTimestamp IN
  /\ info.cumulativeSlippage <= info.tolerance
  /\ \A t \in Instants : t > last => f[t] = 0
  /\ \A from \in Instants :
       from <= last =>
         SumOver(f, from..last) * TolerancePeriodDuration
           <= info.cumulativeSlippage * TolerancePeriodDuration
                + info.tolerance * (last - from)
  /\ \A from, to \in Instants :
       from <= to =>
         SumOver(f, from..to) * TolerancePeriodDuration
           <= info.tolerance * (TolerancePeriodDuration + (to - from))

LEMMA InstantFacts ==
  /\ Genesis \in Nat /\ Genesis > 0 /\ MaxTime \in Nat
  /\ \A t \in Instants : t \in Nat /\ t \in Int /\ t > 0
  /\ \A t \in Int : t \in Instants <=> Genesis <= t /\ t <= MaxTime
  BY GenesisAssumption DEF Instants

LEMMA PeriodFacts ==
  TolerancePeriodDuration \in Nat /\ TolerancePeriodDuration > 0
  BY PeriodAssumption

\* What is accepted over a stretch of time.
LEMMA Stretch ==
  ASSUME NEW f \in [Instants -> Nat], NEW from \in Instants, NEW to \in Instants
  PROVE  /\ from..to \subseteq Instants /\ IsFiniteSet(from..to)
         /\ \A t \in from..to : f[t] \in Nat
         /\ SumOver(f, from..to) \in Nat
<1>1. from \in Int /\ to \in Int /\ Genesis <= from /\ to <= MaxTime
        /\ Genesis \in Nat /\ MaxTime \in Nat
  BY InstantFacts
<1>2. from..to \subseteq Instants
  BY <1>1 DEF Instants
<1>3. IsFiniteSet(from..to)
  BY <1>1, FS_Interval
<1>4. \A t \in from..to : f[t] \in Nat
  BY <1>2
<1>5. SumOver(f, from..to) \in Nat
  BY <1>3, <1>4, SumType
<1> QED
  BY <1>2, <1>3, <1>4, <1>5

\* Instants at which nothing was accepted do not count.
LEMMA QuietStretch ==
  ASSUME NEW f \in [Instants -> Nat], NEW from \in Instants, NEW to \in Instants,
         NEW mid \in Nat, mid <= to, \A t \in Instants : t > mid => f[t] = 0
  PROVE  SumOver(f, from..to) = SumOver(f, from..mid)
<1>1. from \in Nat /\ to \in Nat /\ from..to \subseteq Instants
  BY InstantFacts, Stretch
<1>2. from..mid \in SUBSET (from..to)
  BY <1>1
<1>3. \A t \in (from..to) \ (from..mid) : f[t] = 0
  <2>1. ASSUME NEW t \in (from..to) \ (from..mid) PROVE f[t] = 0
    <3>1. t \in Instants /\ t > mid
      BY <1>1
    <3> QED
      BY <3>1
  <2> QED
    BY <2>1
<1> QED
  BY <1>2, <1>3, Stretch, SumZeros

\* One more trade at the end of a stretch.
LEMMA StretchGrows ==
  ASSUME NEW f \in [Instants -> Nat], NEW from \in Instants, NEW to \in Instants,
         from <= to, NEW d \in Nat, NEW g \in [Instants -> Nat],
         g[to] = f[to] + d, \A t \in Instants \ {to} : g[t] = f[t]
  PROVE  SumOver(g, from..to) = SumOver(f, from..to) + d
<1> DEFINE S == from..to
           rest == S \ {to}
<1>1. from \in Nat /\ to \in Nat
  BY InstantFacts
<1>2. to \in S
  BY <1>1
<1>4. S \subseteq Instants /\ IsFiniteSet(S) /\ (\A t \in S : f[t] \in Nat)
        /\ \A t \in S : g[t] \in Nat
  BY Stretch
<1> HIDE DEF S
<1>5. SumOver(f, S) = f[to] + SumOver(f, rest) /\ SumOver(f, rest) \in Nat
  BY <1>2, <1>4, SumWithout
<1>6. SumOver(g, S) = g[to] + SumOver(g, rest)
  BY <1>2, <1>4, SumWithout
<1>7. SumOver(f, rest) = SumOver(g, rest)
  <2>1. IsFiniteSet(rest)
    BY <1>4, FS_RemoveElement
  <2>2. \A t \in rest : f[t] = g[t]
    BY <1>4
  <2> HIDE DEF rest
  <2> QED
    BY <2>1, <2>2, SumAgree
<1>8. f[to] \in Nat
  BY <1>2, <1>4
<1> HIDE DEF rest
<1> QED
  BY <1>5, <1>6, <1>7, <1>8 DEF S

\* Nothing accepted at all is within any tolerance.
LEMMA BoundedAtFirst ==
  ASSUME NEW f \in [Instants -> Nat], \A t \in Instants : f[t] = 0,
         NEW tolerance \in Nat,
         NEW info, info = [NoPolicyInfo EXCEPT !.tolerance = tolerance]
  PROVE  info \in Records /\ info.lastSlippageTimestamp = 0 /\ Bounded(f, info)
<1>1. /\ info.tolerance = tolerance /\ info.cumulativeSlippage = 0
      /\ info.lastSlippageTimestamp = 0 /\ info \in Records
  BY DEF NoPolicyInfo, Records
<1>2. ASSUME NEW from \in Instants, NEW to \in Instants
      PROVE  SumOver(f, from..to) = 0
  <2>1. \A t \in (from..to) \ {} : f[t] = 0
    BY Stretch
  <2>2. SumOver(f, from..to) = SumOver(f, {})
    BY <2>1, Stretch, SumZeros
  <2> QED
    BY <2>2, SumEmpty
<1>3. ASSUME NEW from \in Instants, NEW to \in Instants, from <= to
      PROVE  SumOver(f, from..to) * TolerancePeriodDuration
               <= info.tolerance * (TolerancePeriodDuration + (to - from))
  <2>1. TolerancePeriodDuration + (to - from) \in Nat
    BY <1>3, InstantFacts, PeriodFacts
  <2>2. tolerance * (TolerancePeriodDuration + (to - from)) \in Nat
    BY <2>1, Products
  <2> QED
    BY <1>1, <1>2, <2>2, PeriodFacts
<1>4. \A from \in Instants : ~(from <= info.lastSlippageTimestamp)
  BY <1>1, InstantFacts
<1> QED
  BY <1>1, <1>3, <1>4 DEF Bounded

\* What is left and what is restored meanwhile make up for what there was.
LEMMA RestoredEnough ==
  ASSUME NEW info \in Records, now \in Nat, info.lastSlippageTimestamp <= now
  PROVE  /\ Restored(info) \in Nat
         /\ now - info.lastSlippageTimestamp \in Nat
         /\ info.tolerance * (now - info.lastSlippageTimestamp) \in Nat
         /\ info.cumulativeSlippage * TolerancePeriodDuration
              <= Restored(info) * TolerancePeriodDuration
                   + info.tolerance * (now - info.lastSlippageTimestamp)
<1> DEFINE P == TolerancePeriodDuration
           C == info.cumulativeSlippage
           T == info.tolerance
           e == now - info.lastSlippageTimestamp
           restore == (T * e) \div P
           R == Restored(info)
<1>1. T \in Nat /\ C \in Nat /\ info.lastSlippageTimestamp \in Nat
  BY DEF Records
<1>2. e \in Nat
  BY <1>1
<1>3. P \in Nat /\ P > 0
  BY PeriodFacts
<1>4. R = IF restore < C THEN C - restore ELSE 0
  BY DEF Restored
<1> HIDE DEF P, C, T, e, R
<1>5. T * e \in Nat
  BY <1>1, <1>2, Products
<1>6. restore \in Nat /\ P * restore <= T * e
  BY <1>3, <1>5, DivFacts
<1> HIDE DEF restore
<1>7. R \in Nat
  BY <1>1, <1>4, <1>6
<1>8. restore * P \in Nat /\ C * P \in Nat /\ P * restore = restore * P
  BY <1>1, <1>3, <1>6, SMT
<1>9. C * P <= R * P + T * e
  <2>1. CASE restore < C
    <3>1. R = C - restore
      BY <2>1, <1>4
    <3>2. (C - restore) * P = C * P - restore * P
      BY <1>1, <1>3, <1>6, SMT
    <3> QED
      BY <1>5, <1>6, <1>8, <3>1, <3>2
  <2>2. CASE ~(restore < C)
    <3>1. R = 0 /\ C <= restore
      BY <2>2, <1>1, <1>4, <1>6
    <3>2. C * P <= restore * P
      BY <3>1, <1>1, <1>3, <1>6, Products
    <3>3. R * P = 0
      BY <3>1, <1>3
    <3> QED
      BY <1>5, <1>6, <1>8, <3>2, <3>3
  <2> QED
    BY <2>1, <2>2
<1> QED
  BY <1>2, <1>5, <1>7, <1>9 DEF P, C, T, e, R

\* A trade that the policy accepts keeps the bound.
LEMMA BoundedStep ==
  ASSUME NEW f \in [Instants -> Nat], NEW g \in [Instants -> Nat],
         NEW info \in Records, NEW next, NEW d \in Nat,
         now \in Instants, info.lastSlippageTimestamp <= now,
         g[now] = f[now] + d, \A t \in Instants \ {now} : g[t] = f[t],
         next = NextPolicyInfo(info, d),
         next.cumulativeSlippage <= next.tolerance,
         Bounded(f, info)
  PROVE  next \in Records /\ next.lastSlippageTimestamp = now /\ Bounded(g, next)
<1> DEFINE P == TolerancePeriodDuration
           C == info.cumulativeSlippage
           T == info.tolerance
           L == info.lastSlippageTimestamp
           R == Restored(info)
<1>1. T \in Nat /\ C \in Nat /\ L \in Nat /\ P \in Nat /\ P > 0
        /\ now \in Nat /\ L <= now
  BY PeriodFacts, InstantFacts DEF Records
<1>2. /\ R \in Nat /\ T * (now - L) \in Nat
      /\ C * P <= R * P + T * (now - L)
  BY <1>1, RestoredEnough
<1>3. /\ next = [info EXCEPT !.cumulativeSlippage = R + d,
                             !.lastSlippageTimestamp = now]
      /\ next.tolerance = T /\ next.cumulativeSlippage = R + d
      /\ next.lastSlippageTimestamp = now
  BY DEF NextPolicyInfo, Records
<1>4. next \in Records /\ R + d <= T
  <2>1. R + d <= T
    BY <1>3
  <2> HIDE DEF R
  <2>2. R + d \in Nat
    BY <1>2
  <2>3. next \in Records
    BY <1>1, <1>3, <2>2 DEF Records
  <2> QED
    BY <2>1, <2>3
<1>5. /\ \A t \in Instants : t > L => f[t] = 0
      /\ \A from \in Instants :
           from <= L => SumOver(f, from..L) * P <= C * P + T * (L - from)
      /\ \A from, to \in Instants :
           from <= to => SumOver(f, from..to) * P <= T * (P + (to - from))
  BY DEF Bounded
<1> HIDE DEF P, C, T, L, R
<1>6. \A t \in Instants : t > now => g[t] = 0
  BY <1>1, <1>5, InstantFacts
<1>7. (R + d) * P = R * P + d * P /\ R * P \in Nat /\ d * P \in Nat
        /\ C * P \in Nat
  BY <1>1, <1>2, SMT
<1>8. ASSUME NEW from \in Instants, from <= now
      PROVE  /\ SumOver(g, from..now) \in Nat
             /\ SumOver(g, from..now) * P <= (R + d) * P + T * (now - from)
  <2> DEFINE s == SumOver(f, from..now)
  <2>1. SumOver(g, from..now) = s + d /\ s \in Nat
    <3>1. s \in Nat
      BY Stretch
    <3>2. SumOver(g, from..now) = SumOver(f, from..now) + d
      BY <1>8, StretchGrows
    <3> QED
      BY <3>1, <3>2
  <2>2. from \in Nat
    BY InstantFacts
  <2>3. s = SumOver(f, from..L)
    <3>1. L <= now /\ L \in Nat /\ \A t \in Instants : t > L => f[t] = 0
      BY <1>1, <1>5
    <3> QED
      BY <3>1, QuietStretch
  <2>4. CASE from <= L
    <3>1. s * P <= C * P + T * (L - from)
      BY <1>5, <2>3, <2>4
    <3> HIDE DEF s
    <3>2. (s + d) * P = s * P + d * P /\ s * P \in Nat
      BY <1>1, <2>1, SMT
    <3>3. T * (now - L) + T * (L - from) = T * (now - from)
      BY <1>1, <2>2, SMT
    <3>4. T * (L - from) \in Int /\ T * (now - from) \in Int
      BY <1>1, <2>2, SMT
    <3>5. (R + d) * P + T * (now - from)
            = R * P + d * P + T * (now - L) + T * (L - from)
      BY <1>1, <1>2, <1>7, <2>2, <3>3, <3>4
    <3>6. (s + d) * P <= C * P + T * (L - from) + d * P
      BY <1>1, <1>7, <3>1, <3>2, <3>4
    <3>7. (s + d) * P <= (R + d) * P + T * (now - from)
      BY <1>2, <1>7, <3>2, <3>4, <3>5, <3>6
    <3> QED
      BY <2>1, <3>7
  <2>5. CASE L < from
    <3>1. from..L = {}
      BY <1>1, <2>2, <2>5
    <3>2. s = 0
      BY <2>3, <3>1, SumEmpty
    <3>3. T * (now - from) \in Nat
      BY <1>1, <1>8, <2>2, SMT
    <3> QED
      BY <1>7, <2>1, <3>2, <3>3
  <2> QED
    BY <1>1, <2>2, <2>4, <2>5
<1>9. ASSUME NEW from \in Instants, NEW to \in Instants, from <= to
      PROVE  SumOver(g, from..to) * P <= T * (P + (to - from))
  <2>1. from \in Nat /\ to \in Nat
    BY InstantFacts
  <2>2. CASE from <= now /\ now <= to
    <3> DEFINE s == SumOver(g, from..now)
    <3>1. SumOver(g, from..to) = s
      BY <1>1, <1>6, <2>2, QuietStretch
    <3>2. s \in Nat /\ s * P <= (R + d) * P + T * (now - from)
      BY <1>8, <2>2
    <3> HIDE DEF s
    <3>3. (R + d) * P <= T * P
      BY <1>1, <1>2, <1>4, Products
    <3>4. T * (now - from) <= T * (to - from)
      <4>1. now - from \in Nat /\ to - from \in Nat /\ now - from <= to - from
        BY <1>1, <2>1, <2>2
      <4>2. (now - from) * T <= (to - from) * T
        BY <1>1, <4>1, Products
      <4> QED
        BY <1>1, <4>1, <4>2, SMT
    <3>5. T * (P + (to - from)) = T * P + T * (to - from)
      BY <1>1, <2>1, SMT
    <3>6. /\ T * P \in Int /\ T * (to - from) \in Int /\ T * (now - from) \in Int
          /\ (R + d) * P \in Int /\ s * P \in Int
      BY <1>1, <1>2, <2>1, <3>2, SMT
    <3> QED
      BY <3>1, <3>2, <3>3, <3>4, <3>5, <3>6
  <2>3. CASE ~(from <= now /\ now <= to)
    <3>1. \A t \in from..to : g[t] = f[t]
      BY <1>1, <2>1, <2>3, Stretch
    <3>2. SumOver(g, from..to) = SumOver(f, from..to)
      BY <3>1, Stretch, SumAgree
    <3> QED
      BY <1>5, <1>9, <3>2
  <2> QED
    BY <2>2, <2>3
<1>10. /\ next.cumulativeSlippage <= next.tolerance
       /\ \A t \in Instants : t > next.lastSlippageTimestamp => g[t] = 0
       /\ \A from \in Instants :
            from <= next.lastSlippageTimestamp =>
              SumOver(g, from..next.lastSlippageTimestamp) * P
                <= next.cumulativeSlippage * P
                     + next.tolerance * (next.lastSlippageTimestamp - from)
       /\ \A from, to \in Instants :
            from <= to =>
              SumOver(g, from..to) * P <= next.tolerance * (P + (to - from))
  BY <1>3, <1>4, <1>6, <1>8, <1>9
<1> QED
  BY <1>3, <1>4, <1>10 DEF Bounded, P

-----------------------------------------------------------------------------
(* Losses within the tolerance. *)

SlippageType ==
  /\ HooksType
  /\ now \in Instants
  /\ accessor \in Comptrollers \cup {NoAddress}
  /\ policyInfo \in [Comptrollers -> Records]
  /\ bypassWindowStart \in [Comptrollers -> [Assets -> Nat]]
  /\ announced \in [Comptrollers -> [Assets -> SUBSET Nat]]
  /\ accepted \in [Comptrollers -> [Instants -> Nat]]

\* The fund's cumulative slippage is limited.
Limited(c) ==
  CumulativeSlippageTolerance \in hookToPolicies[c]["PostCallOnIntegration"]

\* A fund has a past only since its slippage is limited, which it stays.
RecordKept(c) ==
  /\ c \notin configured => ~Limited(c)
  /\ ~Limited(c) => \A t \in Instants : accepted[c][t] = 0
  /\ policyInfo[c].lastSlippageTimestamp <= now
  /\ Bounded(accepted[c], policyInfo[c])

\* Every bypass window was announced in time.
WindowsAnnounced ==
  \A c \in Comptrollers, a \in Assets :
    bypassWindowStart[c][a] # 0 =>
      \E t \in announced[c][a] : bypassWindowStart[c][a] = t + BypassTimelock

SlippageInv ==
  /\ SlippageType
  /\ \A c \in Comptrollers : RecordKept(c)
  /\ WindowsAnnounced

LEMMA SlippageAtFirst == Init => SlippageInv
<1> SUFFICES ASSUME Init PROVE SlippageInv
  OBVIOUS
<1>1. SlippageType
  <2>1. now \in Instants
    BY InstantFacts, GenesisAssumption DEF Init
  <2>2. NoPolicyInfo \in Records
    BY DEF NoPolicyInfo, Records
  <2> QED
    BY <2>1, <2>2 DEF Init, SlippageType, HooksType
<1>2. ASSUME NEW c \in Comptrollers PROVE RecordKept(c)
  <2>1. /\ accepted[c] \in [Instants -> Nat]
        /\ \A t \in Instants : accepted[c][t] = 0
        /\ policyInfo[c] = NoPolicyInfo /\ hookToPolicies[c]["PostCallOnIntegration"] = {}
        /\ now \in Instants
    BY <1>1 DEF Init, SlippageType, Hooks
  <2> DEFINE f == accepted[c]
             info == policyInfo[c]
  <2>2. info = [NoPolicyInfo EXCEPT !.tolerance = 0]
    BY <2>1 DEF NoPolicyInfo
  <2>3. info.lastSlippageTimestamp = 0 /\ Bounded(f, info)
    <3>1. f \in [Instants -> Nat] /\ (\A t \in Instants : f[t] = 0) /\ 0 \in Nat
      BY <2>1
    <3> HIDE DEF f, info
    <3> QED
      BY <2>2, <3>1, BoundedAtFirst
  <2>4. 0 <= now
    BY <2>1, InstantFacts
  <2> QED
    BY <2>1, <2>3, <2>4 DEF RecordKept, Limited
<1>3. WindowsAnnounced
  BY DEF Init, WindowsAnnounced
<1> QED
  BY <1>1, <1>2, <1>3 DEF SlippageInv

\* A record that is not written, of a fund that stays limited.
LEMMA RecordStays ==
  ASSUME NEW c \in Comptrollers, SlippageType, SlippageType', RecordKept(c),
         accepted'[c] = accepted[c], policyInfo'[c] = policyInfo[c],
         Limited(c)' <=> Limited(c),
         c \in configured => c \in configured', now <= now'
  PROVE  RecordKept(c)'
<1>1. policyInfo[c].lastSlippageTimestamp \in Nat /\ now \in Nat /\ now' \in Nat
  BY InstantFacts DEF SlippageType, Records
<1>2. policyInfo'[c].lastSlippageTimestamp <= now'
  BY <1>1 DEF RecordKept
<1> QED
  BY <1>2 DEF RecordKept

\* Policies that are given to a fund whose slippage they limit for the first
\* time, if they do.
LEMMA RecordConfigured ==
  ASSUME SlippageInv, NEW d \in Comptrollers,
         NEW policies \in SUBSET (Policies \cup UNION Configurations),
         NEW tolerance \in Tolerances \cup {NoSettings},
         hookToPolicies' = WithPolicies(d, policies),
         CumulativeSlippageTolerance \in policies => ~Limited(d),
         IF CumulativeSlippageTolerance \in policies
           THEN AddFundSettings(d, tolerance)
           ELSE UNCHANGED policyInfo,
         configured' = configured \cup {d},
         UNCHANGED <<now, accessor, bypassWindowStart, announced, accepted>>
  PROVE  SlippageInv'
<1>1. HooksType /\ HooksType'
  BY WithPoliciesIs DEF SlippageInv, SlippageType, HooksType
<1>2. "PostCallOnIntegration" \in Hooks
  BY DEF Hooks
<1>3. /\ \A c \in Comptrollers \ {d} : Limited(c)' <=> Limited(c)
      /\ Limited(d) => Limited(d)'
      /\ CumulativeSlippageTolerance \notin policies => (Limited(d)' <=> Limited(d))
  BY <1>1, <1>2, WithPoliciesIs DEF Limited
<1>4. CASE policyInfo' = policyInfo
  <2>1. SlippageType'
    BY <1>1, <1>4 DEF SlippageInv, SlippageType
  <2>2. ASSUME NEW c \in Comptrollers \ {d} PROVE RecordKept(c)'
    <3>1. now <= now'
      BY InstantFacts DEF SlippageInv, SlippageType
    <3> QED
      BY <1>3, <1>4, <2>1, <3>1, RecordStays DEF SlippageInv
  <2>3. RecordKept(d)'
    BY <1>3, <1>4 DEF RecordKept, SlippageInv
  <2>4. WindowsAnnounced'
    BY DEF SlippageInv, WindowsAnnounced
  <2> QED
    BY <2>1, <2>2, <2>3, <2>4 DEF SlippageInv
<1>5. CASE policyInfo' # policyInfo
  <2>1. /\ ~Limited(d)
        /\ tolerance \in Nat
        /\ policyInfo' = [policyInfo EXCEPT ![d] = [NoPolicyInfo EXCEPT
                                                      !.tolerance = tolerance]]
    BY <1>5, AmountsAssumption DEF AddFundSettings
  <2>2. accepted[d] \in [Instants -> Nat] /\ \A t \in Instants : accepted[d][t] = 0
    BY <2>1 DEF SlippageInv, SlippageType, RecordKept
  <2> DEFINE info == [NoPolicyInfo EXCEPT !.tolerance = tolerance]
  <2>3. info \in Records /\ info.lastSlippageTimestamp = 0 /\ Bounded(accepted[d], info)
    BY <2>1, <2>2, BoundedAtFirst
  <2>4. policyInfo' = [policyInfo EXCEPT ![d] = info]
    BY <2>1
  <2> HIDE DEF info
  <2>5. policyInfo' \in [Comptrollers -> Records] /\ policyInfo'[d] = info
          /\ \A c \in Comptrollers \ {d} : policyInfo'[c] = policyInfo[c]
    BY <2>3, <2>4 DEF SlippageInv, SlippageType
  <2>6. SlippageType'
    BY <1>1, <2>5 DEF SlippageInv, SlippageType
  <2>7. now \in Nat /\ now' = now /\ now <= now'
    BY InstantFacts DEF SlippageInv, SlippageType
  <2>8. ASSUME NEW c \in Comptrollers \ {d} PROVE RecordKept(c)'
    BY <1>3, <2>5, <2>6, <2>7, RecordStays DEF SlippageInv
  <2>9. RecordKept(d)'
    BY <2>2, <2>3, <2>5, <2>7 DEF RecordKept
  <2>10. WindowsAnnounced'
    BY DEF SlippageInv, WindowsAnnounced
  <2> QED
    BY <2>6, <2>8, <2>9, <2>10 DEF SlippageInv
<1> QED
  BY <1>4, <1>5

\* What a trade is worth, as the policy sees it.
LEMMA SlippageFacts ==
  ASSUME NEW outgoing \in Nat, NEW incoming \in Nat
  PROVE  SlippageOf(outgoing, incoming) \in Nat
<1>1. CASE outgoing > incoming
  <2> DEFINE a == (outgoing - incoming) * OneHundredPercent
  <2>1. outgoing - incoming \in Nat /\ outgoing > 0 /\ OneHundredPercent \in Nat
    BY <1>1, AmountsAssumption
  <2>2. a \in Nat
    BY <2>1, Products
  <2>3. SlippageOf(outgoing, incoming) = a \div outgoing
    BY <1>1 DEF SlippageOf
  <2> HIDE DEF a
  <2> QED
    BY <2>1, <2>2, <2>3, DivFacts
<1>2. CASE ~(outgoing > incoming)
  BY <1>2 DEF SlippageOf
<1> QED
  BY <1>1, <1>2

LEMMA TotalValueIs ==
  ASSUME NEW amounts \in [Assets -> Nat]
  PROVE  /\ TotalValue(amounts) = SumOver(amounts, Assets \ unpriced)
         /\ TotalValue(amounts) \in Nat
<1>1. TotalValue(amounts) = SumOver(amounts, Assets \ unpriced)
  BY DEF TotalValue, MapThenSumSet, MapThenFoldSet, SumOver
<1>2. IsFiniteSet(Assets \ unpriced)
  BY AmountsAssumption, FS_Subset
<1>3. \A a \in Assets \ unpriced : amounts[a] \in Nat
  OBVIOUS
<1> QED
  BY <1>1, <1>2, <1>3, SumType

\* Whatever has no price and counts for nothing was announced in time, so that
\* the policy counts all that is to be counted.
LEMMA NothingLeftOut ==
  ASSUME SlippageType, WindowsAnnounced, NEW c \in Comptrollers,
         NEW trade \in Trades, Valuable(c, trade.spend)
  PROVE  SlippageOfTrade(c, trade) = Slippage(trade) /\ Slippage(trade) \in Nat
<1> DEFINE spend == trade.spend
           S == {a \in Assets : a \in unpriced => ~MayBeLeftOut(c, a)}
           R == Assets \ unpriced
<1>1. spend \in [Assets -> Nat] /\ trade.incoming \in [Assets -> Nat]
  BY AmountsAssumption
<1>2. R \in SUBSET S /\ S \in SUBSET Assets
  OBVIOUS
<1>3. IsFiniteSet(S)
  BY <1>2, AmountsAssumption, FS_Subset
<1>4. \A a \in S : spend[a] \in Nat
  BY <1>1
<1>5. ASSUME NEW a \in S \ R PROVE spend[a] = 0
  <2>1. a \in Assets /\ a \in unpriced /\ ~MayBeLeftOut(c, a)
    OBVIOUS
  <2>2. SUFFICES ASSUME spend[a] > 0 PROVE FALSE
    BY <1>4
  <2> DEFINE start == bypassWindowStart[c][a]
  <2>3. start <= now /\ start + BypassTimeLimit >= now
    BY <2>1, <2>2 DEF Valuable, AssetIsBypassable
  <2>4. start \in Nat /\ now \in Nat /\ now >= Genesis
    BY <2>1, InstantFacts DEF SlippageType, Instants
  <2>5. start # 0
    BY <2>3, <2>4, GenesisAssumption
  <2>6. PICK t \in announced[c][a] : start = t + BypassTimelock
    BY <2>1, <2>5 DEF WindowsAnnounced
  <2>7. t + BypassTimelock <= now /\ t + BypassTimelock + BypassTimeLimit >= now
    BY <2>3, <2>6
  <2> QED
    BY <2>1, <2>6, <2>7 DEF MayBeLeftOut
<1>6. ValueGone(c, trade) = SumOver(spend, S)
  BY DEF ValueGone, MapThenSumSet, MapThenFoldSet, SumOver
<1>7. TotalValue(spend) = SumOver(spend, R)
  BY <1>1, TotalValueIs
<1>8. SumOver(spend, S) = SumOver(spend, R)
  <2>1. \A a \in S \ R : spend[a] = 0
    BY <1>5
  <2> HIDE DEF S, R, spend
  <2> QED
    BY <1>2, <1>3, <1>4, <2>1, SumZeros
<1>9. ValueGone(c, trade) = TotalValue(trade.spend)
  BY <1>6, <1>7, <1>8
<1>10. Slippage(trade) \in Nat
  BY <1>1, TotalValueIs, SlippageFacts DEF Slippage
<1> QED
  BY <1>9, <1>10 DEF SlippageOfTrade, Slippage

LEMMA SlippageEnabled ==
  ASSUME SlippageInv, NEW d \in Comptrollers, NEW p \in Policies,
         NEW tolerance \in Tolerances \cup {NoSettings},
         EnablePolicyForFund(d, p, tolerance)
  PROVE  SlippageInv'
<1> DEFINE policies == {p}
<1>1. policies \in SUBSET (Policies \cup UNION Configurations)
  OBVIOUS
<1>2. /\ d \in configured /\ NotEnabled(d, p)
      /\ hookToPolicies' = WithPolicies(d, policies)
      /\ UNCHANGED <<now, accessor, configured, bypassWindowStart, announced, accepted>>
  BY DEF EnablePolicyForFund, fundVars, history
<1>3. configured' = configured \cup {d}
  BY <1>2
<1>4. CumulativeSlippageTolerance \in policies => ~Limited(d)
  <2>1. "PostCallOnIntegration" \in CumulativeSlippageTolerance.hooks
    BY DEF CumulativeSlippageTolerance, Policy
  <2> QED
    BY <1>2, <2>1 DEF Limited, NotEnabled, PolicyIsEnabledOnHook
<1>5. IF CumulativeSlippageTolerance \in policies
        THEN AddFundSettings(d, tolerance)
        ELSE UNCHANGED policyInfo
  BY DEF EnablePolicyForFund
<1> HIDE DEF policies
<1> QED
  BY <1>1, <1>2, <1>3, <1>4, <1>5, RecordConfigured

LEMMA SlippageSet ==
  ASSUME SlippageInv, NEW d \in Comptrollers, NEW policies \in Configurations,
         NEW tolerance \in Tolerances \cup {NoSettings},
         SetConfigForFund(d, policies, tolerance)
  PROVE  SlippageInv'
<1>1. policies \in SUBSET (Policies \cup UNION Configurations)
  OBVIOUS
<1>2. /\ d \notin configured /\ configured' = configured \cup {d}
      /\ hookToPolicies' = WithPolicies(d, policies)
      /\ UNCHANGED <<now, accessor, bypassWindowStart, announced, accepted>>
  BY DEF SetConfigForFund, history
<1>3. ~Limited(d)
  BY <1>2 DEF SlippageInv, RecordKept
<1>4. IF CumulativeSlippageTolerance \in policies
        THEN AddFundSettings(d, tolerance)
        ELSE UNCHANGED policyInfo
  BY DEF SetConfigForFund
<1> QED
  BY <1>1, <1>2, <1>3, <1>4, RecordConfigured

\* The cumulative slippage policy cannot be disabled.
LEMMA SlippageDisabled ==
  ASSUME SlippageInv, SlippageType', NEW d \in Comptrollers, NEW p,
         DisablePolicyForFund(d, p)
  PROVE  SlippageInv'
<1>1. /\ p # CumulativeSlippageTolerance
      /\ hookToPolicies' = [hookToPolicies EXCEPT ![d] =
           [hook \in Hooks |-> @[hook] \ (IF hook \in p.hooks THEN {p} ELSE {})]]
      /\ UNCHANGED <<now, configured, policyInfo, bypassWindowStart, announced, accepted>>
  BY DEF DisablePolicyForFund, fundVars, policyVars, history,
         CumulativeSlippageTolerance, Policy
<1>2. ASSUME NEW c \in Comptrollers PROVE Limited(c)' <=> Limited(c)
  BY <1>1 DEF Limited, SlippageInv, SlippageType, HooksType, Hooks
<1>3. now <= now'
  BY <1>1, InstantFacts DEF SlippageInv, SlippageType
<1>4. ASSUME NEW c \in Comptrollers PROVE RecordKept(c)'
  BY <1>1, <1>2, <1>3, RecordStays DEF SlippageInv
<1> QED
  BY <1>1, <1>4 DEF SlippageInv, WindowsAnnounced

LEMMA SlippageAnnounced ==
  ASSUME SlippageInv, NEW a \in Assets, StartAssetBypassTimelock(a)
  PROVE  SlippageInv'
<1>1. accessor \in Comptrollers /\ now \in Nat /\ BypassTimelock \in Nat
        /\ now + BypassTimelock \in Nat
  BY InstantFacts, GenesisAssumption
  DEF StartAssetBypassTimelock, SlippageInv, SlippageType
<1>2. /\ bypassWindowStart' =
           [bypassWindowStart EXCEPT ![accessor][a] = now + BypassTimelock]
      /\ announced' = [announced EXCEPT ![accessor][a] = @ \cup {now}]
      /\ UNCHANGED <<now, accessor, configured, hookToPolicies, policyInfo, accepted>>
  BY DEF StartAssetBypassTimelock, fundVars
<1>3. SlippageType'
  BY <1>1, <1>2 DEF SlippageInv, SlippageType, HooksType
<1>4. ASSUME NEW c \in Comptrollers PROVE RecordKept(c)'
  BY <1>2 DEF SlippageInv, RecordKept, Limited
<1>5. ASSUME NEW c \in Comptrollers, NEW b \in Assets,
             bypassWindowStart'[c][b] # 0
      PROVE  \E t \in announced'[c][b] : bypassWindowStart'[c][b] = t + BypassTimelock
  <2>1. CASE c = accessor /\ b = a
    <3>1. now \in announced'[c][b] /\ bypassWindowStart'[c][b] = now + BypassTimelock
      BY <1>1, <1>2, <2>1 DEF SlippageInv, SlippageType
    <3> QED
      BY <3>1
  <2>2. CASE ~(c = accessor /\ b = a)
    <3>1. announced'[c][b] = announced[c][b]
            /\ bypassWindowStart'[c][b] = bypassWindowStart[c][b]
      BY <1>1, <1>2, <2>2 DEF SlippageInv, SlippageType
    <3> QED
      BY <1>5, <3>1 DEF SlippageInv, WindowsAnnounced
  <2> QED
    BY <2>1, <2>2
<1> QED
  BY <1>3, <1>4, <1>5 DEF SlippageInv, WindowsAnnounced

LEMMA SlippageTraded ==
  ASSUME SlippageInv, NEW adapter, NEW trade \in Trades,
         CallOnIntegration(adapter, trade)
  PROVE  SlippageInv'
<1>1. /\ accessor \in Comptrollers
      /\ UNCHANGED <<now, accessor, configured, hookToPolicies, bypassWindowStart,
                     announced>>
  BY DEF CallOnIntegration, fundVars, SlippageInv, SlippageType
<1>2. WindowsAnnounced'
  BY <1>1 DEF SlippageInv, WindowsAnnounced
<1>3. \A c \in Comptrollers : Limited(c)' <=> Limited(c)
  BY <1>1 DEF Limited
<1>4. now \in Nat /\ now' = now /\ now <= now' /\ now \in Instants
  BY <1>1, InstantFacts DEF SlippageInv, SlippageType
<1>5. CASE UNCHANGED <<policyInfo, accepted>>
  <2>1. SlippageType'
    BY <1>1, <1>5 DEF SlippageInv, SlippageType, HooksType
  <2>2. ASSUME NEW c \in Comptrollers PROVE RecordKept(c)'
    BY <1>1, <1>3, <1>4, <1>5, <2>1, RecordStays DEF SlippageInv
  <2> QED
    BY <1>2, <2>1, <2>2 DEF SlippageInv
<1>6. CASE ~UNCHANGED <<policyInfo, accepted>>
  <2> DEFINE c == accessor
             f == accepted[c]
             d == Slippage(trade)
             info == policyInfo[c]
             next == NextPolicyInfo(info, d)
             g == [f EXCEPT ![now] = @ + d]
  <2>1. /\ Limited(c)
        /\ Valuable(c, trade.spend)
        /\ IF d = 0
             THEN policyInfo' = policyInfo
             ELSE /\ next.cumulativeSlippage <= next.tolerance
                  /\ policyInfo' = [policyInfo EXCEPT ![c] = next]
        /\ accepted' = [accepted EXCEPT ![c][now] = @ + SlippageOfTrade(c, trade)]
    BY <1>6 DEF CallOnIntegration, SlippageKnown, Limited, PolicyIsEnabledOnHook
  <2>2. SlippageOfTrade(c, trade) = d /\ d \in Nat
    BY <1>1, <2>1, NothingLeftOut DEF SlippageInv
  <2>3. f \in [Instants -> Nat] /\ info \in Records /\ c \in Comptrollers
    BY <1>1 DEF SlippageInv, SlippageType
  <2>4. info.lastSlippageTimestamp <= now /\ Bounded(f, info)
    BY <1>1 DEF SlippageInv, RecordKept
  <2>5. accepted' = [accepted EXCEPT ![c] = g]
    BY <2>1, <2>2
  <2>6. g \in [Instants -> Nat] /\ g[now] = f[now] + d
          /\ \A t \in Instants \ {now} : g[t] = f[t]
    <3>1. \A t \in Instants : f[t] + d \in Nat
      BY <2>2, <2>3
    <3> HIDE DEF d, f
    <3> QED
      BY <1>4, <2>2, <2>3, <3>1
  <2>7. /\ IF d = 0
             THEN policyInfo' = policyInfo
             ELSE /\ next.cumulativeSlippage <= next.tolerance
                  /\ policyInfo' = [policyInfo EXCEPT ![c] = next]
        /\ next = NextPolicyInfo(info, d)
        /\ c' = c
    BY <1>1, <2>1
  <2>8. Limited(c) /\ info = policyInfo[c]
    BY <2>1
  <2>9. /\ policyInfo \in [Comptrollers -> Records]
        /\ accepted \in [Comptrollers -> [Instants -> Nat]]
    BY DEF SlippageInv, SlippageType
  <2> HIDE DEF c, f, d, info, next, g
  <2>10. PICK kept \in Records :
           /\ kept.lastSlippageTimestamp <= now
           /\ Bounded(g, kept)
           /\ policyInfo' = [policyInfo EXCEPT ![c] = kept]
    <3>1. CASE d = 0
      <4>1. \A t \in Instants : g[t] = f[t]
        BY <2>3, <2>6, <3>1
      <4>2. g = f
        BY <2>3, <2>6, <4>1
      <4>3. policyInfo' = [policyInfo EXCEPT ![c] = info]
        BY <2>7, <2>8, <2>9, <3>1
      <4> QED
        BY <2>3, <2>4, <4>2, <4>3
    <3>2. CASE d # 0
      <4>1. next.cumulativeSlippage <= next.tolerance
              /\ policyInfo' = [policyInfo EXCEPT ![c] = next]
        BY <2>7, <3>2
      <4>2. next \in Records /\ next.lastSlippageTimestamp = now /\ Bounded(g, next)
        BY <1>4, <2>2, <2>3, <2>4, <2>6, <2>7, <4>1, BoundedStep
      <4>3. next.lastSlippageTimestamp <= now
        BY <1>4, <4>2
      <4> QED
        BY <4>1, <4>2, <4>3
    <3> QED
      BY <3>1, <3>2
  <2>11. /\ policyInfo' \in [Comptrollers -> Records] /\ policyInfo'[c] = kept
         /\ accepted' \in [Comptrollers -> [Instants -> Nat]] /\ accepted'[c] = g
         /\ \A b \in Comptrollers \ {c} : /\ policyInfo'[b] = policyInfo[b]
                                          /\ accepted'[b] = accepted[b]
    BY <2>3, <2>5, <2>6, <2>9, <2>10
  <2>12. SlippageType'
    BY <1>1, <2>11 DEF SlippageInv, SlippageType, HooksType
  <2>13. ASSUME NEW b \in Comptrollers \ {c} PROVE RecordKept(b)'
    BY <1>1, <1>3, <1>4, <2>11, <2>12, RecordStays DEF SlippageInv
  <2>14. RecordKept(c)'
    <3>1. Limited(c)' /\ (c \in configured)'
      BY <1>1, <2>3, <2>7, <2>8, <1>3 DEF SlippageInv, RecordKept, Limited
    <3>2. policyInfo'[c].lastSlippageTimestamp <= now' /\ Bounded(accepted'[c], policyInfo'[c])
      BY <1>4, <2>10, <2>11
    <3> QED
      BY <2>7, <3>1, <3>2 DEF RecordKept
  <2>15. \A b \in Comptrollers : RecordKept(b)'
    <3>1. ASSUME NEW b \in Comptrollers PROVE RecordKept(b)'
      <4>1. CASE b = c
        BY <2>7, <2>14, <4>1 DEF RecordKept, Limited
      <4> QED
        BY <2>13, <4>1
    <3> QED
      BY <3>1
  <2> QED
    BY <1>2, <2>12, <2>15 DEF SlippageInv
<1> QED
  BY <1>5, <1>6

LEMMA SlippageStep == SlippageInv /\ [Next]_vars => SlippageInv'
<1> SUFFICES ASSUME SlippageInv, [Next]_vars PROVE SlippageInv'
  OBVIOUS
<1>1. ASSUME NEW d \in Comptrollers, NEW tolerance \in Tolerances \cup {NoSettings},
             NEW policies \in Configurations, SetConfigForFund(d, policies, tolerance)
      PROVE  SlippageInv'
  BY <1>1, SlippageSet
<1>2. ASSUME NEW d \in Comptrollers, NEW tolerance \in Tolerances \cup {NoSettings},
             NEW p \in Policies, EnablePolicyForFund(d, p, tolerance)
      PROVE  SlippageInv'
  BY <1>2, SlippageEnabled
<1>3. HooksType'
  BY TermsStep DEF SlippageInv, SlippageType
<1>4. ASSUME NEW d \in Comptrollers, NEW p, DisablePolicyForFund(d, p)
      PROVE  SlippageInv'
  <2>1. SlippageType'
    BY <1>3, <1>4 DEF DisablePolicyForFund, fundVars, policyVars, history,
                      SlippageInv, SlippageType
  <2> QED
    BY <1>4, <2>1, SlippageDisabled
\* Neither the policies nor their records change.
<1>5. ASSUME accessor' \in Comptrollers \cup {NoAddress}, now' \in Instants, now <= now',
             UNCHANGED <<configured, hookToPolicies, policyInfo, bypassWindowStart,
                         announced, accepted>>
      PROVE  SlippageInv'
  <2>1. SlippageType'
    BY <1>3, <1>5 DEF SlippageInv, SlippageType
  <2>2. ASSUME NEW c \in Comptrollers PROVE RecordKept(c)'
    <3>1. Limited(c)' <=> Limited(c)
      BY <1>5 DEF Limited
    <3> QED
      BY <1>5, <2>1, <3>1, RecordStays DEF SlippageInv
  <2>3. WindowsAnnounced'
    BY <1>5 DEF SlippageInv, WindowsAnnounced
  <2> QED
    BY <2>1, <2>2, <2>3 DEF SlippageInv
<1>6. now \in Instants /\ now <= now /\ accessor \in Comptrollers \cup {NoAddress}
  BY InstantFacts DEF SlippageInv, SlippageType
<1>7. ASSUME NEW c \in Comptrollers, Activate(c) PROVE SlippageInv'
  BY <1>5, <1>6, <1>7 DEF Activate, policyVars, history
<1>8. ASSUME NEW a \in Assets, StartAssetBypassTimelock(a) PROVE SlippageInv'
  BY <1>8, SlippageAnnounced
<1>9. ASSUME NEW adapter \in Adapters, NEW trade \in Trades,
             CallOnIntegration(adapter, trade)
      PROVE  SlippageInv'
  BY <1>9, SlippageTraded
<1>10. CASE PricesChange
  BY <1>5, <1>6, <1>10 DEF PricesChange, fundVars, policyVars, history
<1>11. CASE Tick
  <2>1. now' \in Instants /\ now <= now'
    BY <1>6, <1>11, InstantFacts DEF Tick
  <2> QED
    BY <1>5, <1>6, <1>11, <2>1 DEF Tick, fundVars, policyVars, history
<1>12. CASE UNCHANGED vars
  BY <1>5, <1>6, <1>12 DEF vars
<1> QED
  BY <1>1, <1>2, <1>4, <1>7, <1>8, <1>9, <1>10, <1>11, <1>12 DEF Next

\* However long a fund trades, whatever its owner enables, disables, announces
\* and reconfigures, and whichever prices fail meanwhile: over any stretch of
\* time the trades that the cumulative slippage policy let pass lost no more
\* than the tolerance and what is restored of it in that time.
THEOREM LossesAlwaysWithinTolerance == Spec => []LossesWithinTolerance
<1>1. Init => SlippageInv
  BY SlippageAtFirst
<1>2. SlippageInv /\ [Next]_vars => SlippageInv'
  BY SlippageStep
<1>3. SlippageInv => LossesWithinTolerance
  <2> SUFFICES ASSUME SlippageInv, NEW c \in Comptrollers,
                      NEW from \in Instants, NEW to \in Instants, from <= to
               PROVE  AcceptedSlippage(c, from, to) * TolerancePeriodDuration
                        <= policyInfo[c].tolerance
                             * (TolerancePeriodDuration + (to - from))
    BY DEF LossesWithinTolerance
  <2>1. AcceptedSlippage(c, from, to) = SumOver(accepted[c], from..to)
    BY DEF AcceptedSlippage, MapThenSumSet, MapThenFoldSet, SumOver
  <2>2. Bounded(accepted[c], policyInfo[c])
    BY DEF SlippageInv, RecordKept
  <2> QED
    BY <2>1, <2>2 DEF Bounded
<1> QED
  BY <1>1, <1>2, <1>3, PTL DEF Spec

-----------------------------------------------------------------------------
(* The staking wrapper.  Its divisions round, so that what accounts earn is  *)
(* not preserved exactly by anything; what is due to them before any         *)
(* division, in units of 1 / IntegralPrecision, is: a checkpoint adds to the *)
(* dues of all no more than came in since the last one, and a claim takes at *)
(* least what it pays.                                                       *)

\* What the wrapper casts to uint128 fits, as long as the bounds are kept.
CastsFit ==
  /\ MaxIntegral < Uint128
  /\ MaxRewards < Uint128
  /\ MaxStake * MaxIntegral < Uint128 * IntegralPrecision

\* The stakes of accounts, and those a wrapper may have.
Stakes == [Accounts -> Nat]

Staked(b) == b \in Stakes /\ SumOver(b, Accounts) <= MaxStake

\* What an account with a stake and harvest data may claim at an integral; what is
\* due to it there before any division; and what is due to all accounts.
EarnedBy(stake, data, integral) ==
  data.claimableReward
    + IF data.integral < integral
        THEN (stake * (integral - data.integral)) \div IntegralPrecision
        ELSE 0

DueTo(stake, data, integral) ==
  data.claimableReward * IntegralPrecision + stake * (integral - data.integral)

Dues(b, u, integral) == [a \in Accounts |-> DueTo(b[a], u[a], integral)]

\* The harvest data of an account, at most as far as the integral, and no more
\* than the whole supply could have earned.
UserData(data, integral) ==
  /\ data.integral \in Nat /\ data.integral <= integral
  /\ data.claimableReward \in Nat
  /\ data.claimableReward * IntegralPrecision <= MaxStake * data.integral

\* A token: the stakes b of accounts with the harvest data u, the wrapper's harvest
\* data g, what it holds, h, and what was overcounted, o.  The balance that was
\* checkpointed is still there, and with o it covers what is due to all.
Covered(b, u, g, h, o) ==
  /\ g.integral \in Nat /\ g.integral <= MaxIntegral
  /\ g.lastCheckpointBalance \in Nat /\ g.lastCheckpointBalance <= h
  /\ h \in Nat /\ o \in Nat
  /\ \A a \in Accounts : UserData(u[a], g.integral)
  /\ SumOver(Dues(b, u, g.integral), Accounts)
       <= (g.lastCheckpointBalance + o) * IntegralPrecision

\* What is assumed of the constants.
LEMMA Sizes ==
  /\ IntegralPrecision \in Nat /\ IntegralPrecision > 0
  /\ Uint128 \in Nat /\ Uint128 > 0
  /\ IsFiniteSet(Accounts)
  /\ MaxStake \in Nat /\ MaxRewards \in Nat /\ MaxIntegral \in Nat
  BY PrecisionAssumption, Uint128Assumption, StakesAssumption

\* A cast of what fits is harmless.
LEMMA CastFits ==
  ASSUME NEW n \in Nat, n < Uint128
  PROVE  n % Uint128 = n
  BY Sizes, SMT

\* What an account may claim is a number, is covered by what is due, and fits.
LEMMA EarnedFacts ==
  ASSUME NEW stake \in Nat, stake <= MaxStake, NEW data, NEW integral \in Nat,
         UserData(data, integral)
  PROVE  /\ EarnedBy(stake, data, integral) \in Nat
         /\ DueTo(stake, data, integral) \in Nat
         /\ EarnedBy(stake, data, integral) * IntegralPrecision
              <= DueTo(stake, data, integral)
         /\ DueTo(stake, data, integral)
              < EarnedBy(stake, data, integral) * IntegralPrecision
                  + IntegralPrecision
         /\ EarnedBy(stake, data, integral) * IntegralPrecision
              <= MaxStake * integral
<1> DEFINE i == data.integral
           c == data.claimableReward
           x == stake * (integral - i)
           q == x \div IntegralPrecision
           P == IntegralPrecision
<1>0. P \in Nat /\ P > 0 /\ MaxStake \in Nat
  BY Sizes
<1>1. /\ i \in Nat /\ i <= integral /\ c \in Nat
      /\ c * P <= MaxStake * i
  BY DEF UserData
<1>2. EarnedBy(stake, data, integral) = c + q
  <2>1. CASE i < integral
    BY <2>1 DEF EarnedBy
  <2>2. CASE ~(i < integral)
    <3>1. integral - i = 0
      BY <1>1, <2>2
    <3>2. x = 0
      BY <3>1
    <3>3. q = 0
      BY <1>0, <3>2
    <3> HIDE DEF q
    <3> QED
      BY <1>1, <2>2, <3>3 DEF EarnedBy
  <2> QED
    BY <2>1, <2>2
<1>3. DueTo(stake, data, integral) = c * P + x
  BY DEF DueTo
<1> HIDE DEF i, c
<1>4. integral - i \in Nat
  BY <1>1
<1>5. x \in Nat /\ x <= MaxStake * (integral - i)
  <2>1. stake * (integral - i) <= MaxStake * (integral - i)
        /\ stake * (integral - i) \in Nat
    BY <1>0, <1>4, Products
  <2> QED
    BY <2>1
<1>6. MaxStake * integral = MaxStake * i + MaxStake * (integral - i)
  BY <1>0, <1>1, SMT
<1>7. MaxStake * i \in Nat /\ MaxStake * (integral - i) \in Nat /\ c * P \in Nat
  BY <1>0, <1>1, <1>4, SMT
<1> HIDE DEF x
<1>8. q \in Nat /\ P * q <= x /\ x < P * q + P
  BY <1>0, <1>5, DivFacts, DivUpper
<1> HIDE DEF q, P
<1>9. (c + q) * P = c * P + P * q /\ P * q \in Nat
  BY <1>0, <1>1, <1>8, SMT
<1>10. /\ (c + q) * P <= c * P + x
       /\ c * P + x < (c + q) * P + P
       /\ (c + q) * P <= MaxStake * integral
       /\ c * P + x \in Nat /\ c + q \in Nat
  <2> DEFINE A == c * P
             B == P * q
             C == MaxStake * i
             D == MaxStake * (integral - i)
             E == MaxStake * integral
             F == (c + q) * P
  <2>1. /\ A \in Nat /\ B \in Nat /\ C \in Nat /\ D \in Nat /\ x \in Nat
        /\ F = A + B /\ E = C + D /\ A <= C /\ x <= D /\ B <= x /\ x < B + P
    BY <1>1, <1>5, <1>6, <1>7, <1>8, <1>9
  <2> HIDE DEF A, B, C, D, E, F
  <2>2. F <= A + x /\ A + x < F + P /\ F <= E /\ A + x \in Nat
    BY <1>0, <2>1, SMT
  <2>3. c + q \in Nat
    BY <1>1, <1>8
  <2> QED
    BY <2>2, <2>3 DEF A, E, F
<1> QED
  BY <1>2, <1>3, <1>10 DEF P

\* It fits into the uint128 it is cast to.
LEMMA EarnedFits ==
  ASSUME CastsFit, NEW stake \in Nat, stake <= MaxStake,
         NEW data, NEW integral \in Nat, integral <= MaxIntegral,
         UserData(data, integral)
  PROVE  EarnedBy(stake, data, integral) < Uint128
<1> DEFINE E == EarnedBy(stake, data, integral)
           P == IntegralPrecision
<1>1. E \in Nat /\ E * P <= MaxStake * integral
  BY EarnedFacts
<1>2. P \in Nat /\ P > 0 /\ MaxStake \in Nat /\ MaxIntegral \in Nat /\ Uint128 \in Nat
  BY Sizes
<1>3. MaxStake * integral <= MaxStake * MaxIntegral
      /\ MaxStake * integral \in Nat /\ MaxStake * MaxIntegral \in Nat
  <2>1. integral * MaxStake <= MaxIntegral * MaxStake
        /\ integral * MaxStake \in Nat /\ MaxIntegral * MaxStake \in Nat
    BY <1>2, Products
  <2> QED
    BY <1>2, <2>1, SMT
<1>4. MaxStake * MaxIntegral < Uint128 * P
  BY DEF CastsFit
<1> HIDE DEF E, P
<1>5. E * P \in Nat /\ Uint128 * P \in Nat
  BY <1>1, <1>2, SMT
<1>6. SUFFICES ASSUME Uint128 <= E PROVE FALSE
  BY <1>1, <1>2, SMT DEF E
<1>7. Uint128 * P <= E * P
  BY <1>1, <1>2, <1>6, Products
<1> QED
  BY <1>1, <1>3, <1>4, <1>5, <1>7, SMT

\* What UserAt makes of harvest data.
DataAt(data, integral, claimable) ==
  [integral |-> IF data.integral < integral
                  THEN integral % Uint128 ELSE data.integral,
   claimableReward |-> claimable % Uint128]

\* An account whose data are brought up to an integral has the integral, and has
\* all it earned as its claimable reward, with any stake from then on.
LEMMA BroughtUp ==
  ASSUME CastsFit, NEW stake \in Nat, stake <= MaxStake,
         NEW data, NEW integral \in Nat, integral <= MaxIntegral,
         UserData(data, integral),
         NEW new, new = DataAt(data, integral, EarnedBy(stake, data, integral))
  PROVE  /\ UserData(new, integral)
         /\ new.integral = integral
         /\ new.claimableReward = EarnedBy(stake, data, integral)
<1>1. /\ EarnedBy(stake, data, integral) \in Nat
      /\ EarnedBy(stake, data, integral) * IntegralPrecision <= MaxStake * integral
  BY EarnedFacts
<1>2. EarnedBy(stake, data, integral) % Uint128 = EarnedBy(stake, data, integral)
  BY <1>1, EarnedFits, CastFits
<1>3. integral % Uint128 = integral
  <2>1. integral < Uint128
    BY Sizes DEF CastsFit
  <2> QED
    BY <2>1, CastFits
<1>4. new.claimableReward = EarnedBy(stake, data, integral)
  BY <1>2 DEF DataAt
<1>5. data.integral \in Nat /\ data.integral <= integral
  BY DEF UserData
<1>6. new.integral = IF data.integral < integral THEN integral ELSE data.integral
  BY <1>3 DEF DataAt
<1>7. new.integral = integral
  BY <1>5, <1>6
<1> QED
  BY <1>1, <1>4, <1>7 DEF UserData

\* The same after a claim, with nothing left to claim.
LEMMA BroughtUpAndClaimed ==
  ASSUME CastsFit, NEW data, NEW integral \in Nat, integral <= MaxIntegral,
         UserData(data, integral),
         NEW new, new = DataAt(data, integral, 0)
  PROVE  /\ UserData(new, integral)
         /\ new.integral = integral
         /\ new.claimableReward = 0
<1>2. 0 % Uint128 = 0
  BY Sizes, CastFits
<1>3. integral % Uint128 = integral
  <2>1. integral < Uint128
    BY Sizes DEF CastsFit
  <2> QED
    BY <2>1, CastFits
<1>4. new.claimableReward = 0
  BY <1>2 DEF DataAt
<1>5. data.integral \in Nat /\ data.integral <= integral
  BY DEF UserData
<1>6. new.integral = IF data.integral < integral THEN integral ELSE data.integral
  BY <1>3 DEF DataAt
<1>7. new.integral = integral
  BY <1>5, <1>6
<1>8. 0 * IntegralPrecision <= MaxStake * integral
  BY Sizes, SMT
<1> QED
  BY <1>4, <1>7, <1>8 DEF UserData

\* Who is up to date earns nothing more, whatever its stake.
LEMMA UpToDate ==
  ASSUME NEW data, NEW integral \in Nat, data.integral = integral,
         data.claimableReward \in Nat, NEW stake \in Nat
  PROVE  /\ EarnedBy(stake, data, integral) = data.claimableReward
         /\ DueTo(stake, data, integral)
              = data.claimableReward * IntegralPrecision
<1>1. ~(data.integral < integral)
  OBVIOUS
<1>2. stake * (integral - data.integral) = 0
  BY SMT
<1>3. data.claimableReward * IntegralPrecision \in Nat
  BY Sizes, SMT
<1> QED
  BY <1>1, <1>2, <1>3 DEF EarnedBy, DueTo

\* No stake exceeds the supply.
LEMMA StakeFacts ==
  ASSUME NEW b, Staked(b)
  PROVE  /\ SumOver(b, Accounts) \in Nat
         /\ \A a \in Accounts : b[a] \in Nat /\ b[a] <= MaxStake
<1>1. ASSUME NEW a \in Accounts
      PROVE  SumOver(b, Accounts) \in Nat /\ b[a] \in Nat /\ b[a] <= MaxStake
  <2>1. SumOver(b, Accounts) \in Nat /\ b[a] <= SumOver(b, Accounts) /\ b[a] \in Nat
    BY Sizes, SumCovers DEF Staked, Stakes
  <2> QED
    BY <2>1, Sizes DEF Staked
<1>2. SumOver(b, Accounts) \in Nat
  <2>1. \A a \in Accounts : b[a] \in Nat
    BY DEF Staked, Stakes
  <2> QED
    BY <2>1, Sizes, SumType
<1> QED
  BY <1>1, <1>2

\* Dues are numbers.
LEMMA DuesType ==
  ASSUME NEW b, Staked(b), NEW u, NEW integral \in Nat,
         \A a \in Accounts : UserData(u[a], integral)
  PROVE  /\ Dues(b, u, integral) \in [Accounts -> Nat]
         /\ \A a \in Accounts :
              Dues(b, u, integral)[a] = DueTo(b[a], u[a], integral)
<1>1. ASSUME NEW a \in Accounts PROVE DueTo(b[a], u[a], integral) \in Nat
  BY StakeFacts, EarnedFacts
<1> QED
  BY <1>1 DEF Dues

\* When the integral grows, so does everybody's due, in proportion to the stakes.
LEMMA DuesGrow ==
  ASSUME NEW b, Staked(b), NEW u, NEW integral \in Nat, NEW more \in Nat,
         \A a \in Accounts : UserData(u[a], integral)
  PROVE  /\ \A a \in Accounts : UserData(u[a], integral + more)
         /\ SumOver(Dues(b, u, integral + more), Accounts)
              = SumOver(Dues(b, u, integral), Accounts)
                  + more * SumOver(b, Accounts)
<1> DEFINE f == Dues(b, u, integral)
           h == Dues(b, u, integral + more)
<1>1. \A a \in Accounts : UserData(u[a], integral + more)
  BY DEF UserData
<1>2. f \in [Accounts -> Nat] /\ \A a \in Accounts : f[a] = DueTo(b[a], u[a], integral)
  BY DuesType
<1>3. h \in [Accounts -> Nat]
      /\ \A a \in Accounts : h[a] = DueTo(b[a], u[a], integral + more)
  BY <1>1, DuesType
<1>4. b \in [Accounts -> Nat]
  BY DEF Staked, Stakes
<1> HIDE DEF f, h
<1>5. ASSUME NEW a \in Accounts PROVE h[a] = f[a] + more * b[a]
  <2> DEFINE i == u[a].integral
             x == b[a] * (integral - i)
             y == u[a].claimableReward * IntegralPrecision
  <2>1. /\ i \in Nat /\ u[a].claimableReward \in Nat
    BY DEF UserData
  <2>2. h[a] = y + b[a] * ((integral + more) - i) /\ f[a] = y + x
    BY <1>2, <1>3 DEF DueTo
  <2>3. b[a] \in Nat /\ y \in Nat
    BY <1>4, <2>1, Sizes, SMT
  <2> HIDE DEF i, y
  <2>4. b[a] * ((integral + more) - i) = x + more * b[a]
    BY <2>1, <2>3, SMT
  <2>5. x \in Int /\ more * b[a] \in Nat
    BY <2>1, <2>3, SMT
  <2> HIDE DEF x
  <2> DEFINE z == more * b[a]
  <2>6. z \in Nat /\ h[a] = y + (x + z) /\ f[a] = y + x
    BY <2>2, <2>4, <2>5
  <2> HIDE DEF z
  <2>7. h[a] = f[a] + z
    BY <2>3, <2>5, <2>6, SMT
  <2> QED
    BY <2>7 DEF z
<1>6. SumOver(h, Accounts) = SumOver(f, Accounts) + more * SumOver(b, Accounts)
  <2>1. Linear(h, f, more, b, Accounts)
    BY <1>5 DEF Linear
  <2> QED
    BY <1>2, <1>3, <1>4, <2>1, Sizes, SumLinear
<1> QED
  BY <1>1, <1>6 DEF f, h

\* What a checkpoint adds to the integral pays out, over all stakes, no more than
\* what came in since the balance that was checkpointed.
LEMMA IntegralFacts ==
  ASSUME NEW supply \in Nat, NEW h \in Nat, NEW last \in Nat, last <= h
  PROVE  /\ IntegralForBalDiff(supply, h, last) \in Nat
         /\ IntegralForBalDiff(supply, h, last) * supply
              <= (h - last) * IntegralPrecision
<1> DEFINE x == (h - last) * IntegralPrecision
           d == x \div supply
<1>1. h - last \in Nat
  OBVIOUS
<1>2. x \in Nat
  BY <1>1, Sizes, Products
<1>3. CASE supply > 0
  <2>1. IntegralForBalDiff(supply, h, last) = d
    BY <1>3 DEF IntegralForBalDiff
  <2> HIDE DEF x
  <2>2. d \in Nat /\ supply * d <= x
    BY <1>2, <1>3, DivFacts
  <2> HIDE DEF d
  <2>3. supply * d = d * supply
    BY <2>2, SMT
  <2> QED
    BY <2>1, <2>2, <2>3 DEF x
<1>4. CASE ~(supply > 0)
  <2>1. IntegralForBalDiff(supply, h, last) = 0
    BY <1>4 DEF IntegralForBalDiff
  <2>2. 0 * supply = 0
    BY SMT
  <2> QED
    BY <1>2, <2>1, <2>2
<1> QED
  BY <1>3, <1>4

\* All dues at the new integral.
LEMMA DuesAdvance ==
  ASSUME NEW b, Staked(b), NEW u, NEW g, NEW h0, NEW o,
         Covered(b, u, g, h0, o), NEW h \in Nat, h0 <= h,
         NEW d, d = IntegralForBalDiff(SumOver(b, Accounts), h,
                                       g.lastCheckpointBalance)
  PROVE  /\ d \in Nat
         /\ \A a \in Accounts : UserData(u[a], g.integral + d)
         /\ SumOver(Dues(b, u, g.integral + d), Accounts) \in Nat
         /\ SumOver(Dues(b, u, g.integral + d), Accounts)
              <= (h + o) * IntegralPrecision
         /\ d = 0 => SumOver(Dues(b, u, g.integral + d), Accounts)
                       <= (g.lastCheckpointBalance + o) * IntegralPrecision
<1> DEFINE last == g.lastCheckpointBalance
           supply == SumOver(b, Accounts)
           before == SumOver(Dues(b, u, g.integral), Accounts)
           after == SumOver(Dues(b, u, g.integral + d), Accounts)
           P == IntegralPrecision
<1>1. /\ g.integral \in Nat /\ last \in Nat /\ last <= h0 /\ h0 \in Nat /\ o \in Nat
      /\ \A a \in Accounts : UserData(u[a], g.integral)
      /\ before <= (last + o) * P
  BY DEF Covered
<1>2. supply \in Nat
  BY StakeFacts
<1>3. last <= h
  BY <1>1
<1>4. d \in Nat /\ d * supply <= (h - last) * P
  <2> HIDE DEF last, supply
  <2>1. d = IntegralForBalDiff(supply, h, last)
    BY DEF last, supply
  <2> QED
    BY <1>1, <1>2, <1>3, <2>1, IntegralFacts
<1>5. /\ \A a \in Accounts : UserData(u[a], g.integral + d)
      /\ after = before + d * supply
  BY <1>1, <1>4, DuesGrow
<1>6. before \in Nat
  <2> DEFINE f == Dues(b, u, g.integral)
  <2>1. f \in [Accounts -> Nat]
    BY <1>1, DuesType
  <2> HIDE DEF f
  <2>2. \A a \in Accounts : f[a] \in Nat
    BY <2>1
  <2>3. SumOver(f, Accounts) \in Nat
    BY <2>2, Sizes, SumType
  <2> QED
    BY <2>3 DEF f
<1>7. P \in Nat
  BY Sizes
<1> HIDE DEF last, supply, before, after, P
<1>8. d * supply \in Nat /\ (last + o) * P \in Nat /\ (h - last) * P \in Nat
  BY <1>1, <1>2, <1>3, <1>4, <1>7, SMT
<1>9. (last + o) * P + (h - last) * P = (h + o) * P
  BY <1>1, <1>3, <1>7, SMT
<1>10. after \in Nat /\ after <= (h + o) * P
  BY <1>1, <1>4, <1>5, <1>6, <1>8, <1>9, SMT
<1>11. d = 0 => after <= (last + o) * P
  <2> SUFFICES ASSUME d = 0 PROVE after <= (last + o) * P
    OBVIOUS
  <2>1. d * supply = 0
    BY <1>2, SMT
  <2> QED
    BY <1>1, <1>5, <1>6, <2>1
<1> QED
  BY <1>4, <1>5, <1>10, <1>11 DEF last, after, P

\* A checkpoint of the accounts S, in a token of which the wrapper holds h, adds
\* d to the integral, which becomes I.
Checkpointed(b, u, g, h, S, d, I, u2, g2) ==
  /\ d = IntegralForBalDiff(SumOver(b, Accounts), h, g.lastCheckpointBalance)
  /\ I = g.integral + d /\ I <= MaxIntegral
  /\ g2 = IF d > 0 THEN [integral |-> I % Uint128,
                         lastCheckpointBalance |-> h % Uint128]
                   ELSE g
  /\ \A a \in Accounts :
       u2[a] = IF a \in S THEN DataAt(u[a], I, EarnedBy(b[a], u[a], I)) ELSE u[a]

\* It keeps what is due covered, and everybody has earned what it had.
LEMMA TokenCheckpoint ==
  ASSUME CastsFit, NEW b, Staked(b), NEW u, NEW g, NEW h0, NEW o,
         Covered(b, u, g, h0, o), NEW h \in Nat, h0 <= h, h < Uint128,
         NEW S, NEW d, NEW I, NEW u2, NEW g2,
         Checkpointed(b, u, g, h, S, d, I, u2, g2)
  PROVE  /\ Covered(b, u2, g2, h, o)
         /\ g2.integral = I /\ g.integral <= I /\ I \in Nat
         /\ \A a \in Accounts : /\ a \in S => u2[a].integral = I
                                /\ EarnedBy(b[a], u2[a], I) = EarnedBy(b[a], u[a], I)
<1> DEFINE P == IntegralPrecision
           f == Dues(b, u, I)
           f2 == Dues(b, u2, I)
<1>0. /\ d = IntegralForBalDiff(SumOver(b, Accounts), h, g.lastCheckpointBalance)
      /\ I = g.integral + d /\ I <= MaxIntegral
      /\ g2 = IF d > 0 THEN [integral |-> I % Uint128,
                             lastCheckpointBalance |-> h % Uint128]
                       ELSE g
  BY DEF Checkpointed
<1>00. \A a \in Accounts :
         u2[a] = IF a \in S THEN DataAt(u[a], I, EarnedBy(b[a], u[a], I)) ELSE u[a]
  BY DEF Checkpointed
<1>1. /\ g.integral \in Nat /\ g.lastCheckpointBalance \in Nat
      /\ g.lastCheckpointBalance <= h0 /\ h0 \in Nat /\ o \in Nat
  BY DEF Covered
<1>2. /\ d \in Nat /\ \A a \in Accounts : UserData(u[a], I)
      /\ SumOver(f, Accounts) \in Nat
      /\ SumOver(f, Accounts) <= (h + o) * P
      /\ d = 0 => SumOver(f, Accounts) <= (g.lastCheckpointBalance + o) * P
  BY <1>0, DuesAdvance
<1>3. I \in Nat /\ g.integral <= I /\ I < Uint128
  <2>1. MaxIntegral < Uint128
    BY DEF CastsFit
  <2> DEFINE i == g.integral
  <2>2. i \in Nat /\ d \in Nat /\ I = i + d
    BY <1>0, <1>1, <1>2
  <2> HIDE DEF i
  <2>3. I \in Nat /\ i <= I
    BY <2>2
  <2>4. I < Uint128
    BY <1>0, <2>1, <2>3, Sizes
  <2> QED
    BY <2>3, <2>4 DEF i
<1>4. \A a \in Accounts : b[a] \in Nat /\ b[a] <= MaxStake
  BY StakeFacts
<1>5. ASSUME NEW a \in Accounts
      PROVE  /\ UserData(u2[a], I)
             /\ a \in S => u2[a].integral = I
             /\ EarnedBy(b[a], u2[a], I) = EarnedBy(b[a], u[a], I)
             /\ DueTo(b[a], u2[a], I) <= DueTo(b[a], u[a], I)
  <2> DEFINE e == EarnedBy(b[a], u[a], I)
  <2>0. b[a] \in Nat /\ b[a] <= MaxStake /\ UserData(u[a], I)
    BY <1>2, <1>4
  <2>1. e \in Nat /\ e * P <= DueTo(b[a], u[a], I) /\ DueTo(b[a], u[a], I) \in Nat
    BY <1>3, <2>0, EarnedFacts
  <2>2. CASE a \in S
    <3>1. u2[a] = DataAt(u[a], I, e)
      BY <1>00, <2>2
    <3>2. UserData(u2[a], I) /\ u2[a].integral = I /\ u2[a].claimableReward = e
      BY <1>0, <1>3, <2>0, <3>1, BroughtUp
    <3>3. /\ EarnedBy(b[a], u2[a], I) = e
          /\ DueTo(b[a], u2[a], I) = e * P
      <4> HIDE DEF e
      <4> QED
        BY <1>3, <2>0, <2>1, <3>2, UpToDate
    <3> QED
      BY <2>1, <3>2, <3>3
  <2>3. CASE a \notin S
    <3>1. u2[a] = u[a]
      BY <1>00, <2>3
    <3> QED
      BY <2>0, <2>1, <2>3, <3>1
  <2> QED
    BY <2>2, <2>3
<1>6. /\ SumOver(f2, Accounts) \in Nat
      /\ SumOver(f2, Accounts) <= SumOver(f, Accounts)
  <2>1. f \in [Accounts -> Nat]
        /\ \A a \in Accounts : f[a] = DueTo(b[a], u[a], I)
    BY <1>2, <1>3, DuesType
  <2>2. f2 \in [Accounts -> Nat]
        /\ \A a \in Accounts : f2[a] = DueTo(b[a], u2[a], I)
    BY <1>3, <1>5, DuesType
  <2>3. \A a \in Accounts : f2[a] <= f[a]
    BY <1>5, <2>1, <2>2
  <2> HIDE DEF f, f2
  <2> QED
    BY <2>1, <2>2, <2>3, Sizes, SumMonotone
<1>7. /\ g2.integral = I
      /\ g2.lastCheckpointBalance \in Nat /\ g2.lastCheckpointBalance <= h
      /\ SumOver(f, Accounts) <= (g2.lastCheckpointBalance + o) * P
  <2>1. CASE d > 0
    <3>1. I % Uint128 = I /\ h % Uint128 = h
      BY <1>3, CastFits
    <3>2. g2.integral = I
      BY <1>0, <2>1, <3>1
    <3>3. g2.lastCheckpointBalance = h
      BY <1>0, <2>1, <3>1
    <3> QED
      BY <1>2, <3>2, <3>3
  <2>2. CASE ~(d > 0)
    <3>1. d = 0
      BY <1>2, <2>2
    <3>2. g2 = g /\ I = g.integral
      BY <1>0, <1>1, <2>2, <3>1
    <3> QED
      BY <1>1, <1>2, <3>1, <3>2
  <2> QED
    BY <2>1, <2>2
<1>8. SumOver(f2, Accounts) <= (g2.lastCheckpointBalance + o) * P
  <2>1. (g2.lastCheckpointBalance + o) * P \in Nat
    BY <1>1, <1>7, Sizes, SMT
  <2> QED
    BY <1>2, <1>6, <1>7, <2>1
<1>9. Covered(b, u2, g2, h, o)
  BY <1>0, <1>1, <1>3, <1>5, <1>7, <1>8 DEF Covered
<1> QED
  BY <1>3, <1>5, <1>7, <1>9


\* A claim of who, to which k is paid.
ClaimedFrom(b, u, g, h, o, who, d, I, k, u2, g2, h2, o2) ==
  /\ d = IntegralForBalDiff(SumOver(b, Accounts), h, g.lastCheckpointBalance)
  /\ I = g.integral + d /\ I <= MaxIntegral
  /\ k = EarnedBy(b[who], u[who], I) /\ k <= h
  /\ h2 = h - k
  /\ g2 = [integral |-> I % Uint128,
           lastCheckpointBalance |->
             CheckpointBalanceAfterClaim(g.lastCheckpointBalance, h2)]
  /\ o2 = o + IF d > 0 /\ h2 > g.lastCheckpointBalance
                THEN h2 - g.lastCheckpointBalance ELSE 0
  /\ \A a \in Accounts : u2[a] = IF a = who THEN DataAt(u[a], I, 0) ELSE u[a]

\* What is due stays covered, but for what is counted twice when the claim leaves
\* more than was checkpointed.
LEMMA TokenClaim ==
  ASSUME CastsFit, NEW b, Staked(b), NEW u, NEW g, NEW h0, NEW o,
         Covered(b, u, g, h0, o), NEW h \in Nat, h0 <= h, h < Uint128,
         NEW who \in Accounts, NEW d, NEW I, NEW k, NEW u2, NEW g2, NEW h2, NEW o2,
         ClaimedFrom(b, u, g, h, o, who, d, I, k, u2, g2, h2, o2)
  PROVE  /\ Covered(b, u2, g2, h2, o2)
         /\ g2.integral = I /\ g.integral <= I /\ I \in Nat /\ k \in Nat
         /\ u2[who].integral = I
         /\ EarnedBy(b[who], u2[who], I) = 0
         /\ \A a \in Accounts \ {who} : u2[a] = u[a]
<1> DEFINE P == IntegralPrecision
           f == Dues(b, u, I)
           f2 == Dues(b, u2, I)
           last == g.lastCheckpointBalance
           last2 == g2.lastCheckpointBalance
           i == g.integral
<1>0. /\ d = IntegralForBalDiff(SumOver(b, Accounts), h, last)
      /\ I = i + d /\ I <= MaxIntegral
      /\ k = EarnedBy(b[who], u[who], I) /\ k <= h
      /\ h2 = h - k
  BY DEF ClaimedFrom
<1>00. /\ g2 = [integral |-> I % Uint128,
                lastCheckpointBalance |-> CheckpointBalanceAfterClaim(last, h2)]
       /\ o2 = o + IF d > 0 /\ h2 > last THEN h2 - last ELSE 0
  BY DEF ClaimedFrom
<1>000. \A a \in Accounts : u2[a] = IF a = who THEN DataAt(u[a], I, 0) ELSE u[a]
  BY DEF ClaimedFrom
<1>1. /\ i \in Nat /\ last \in Nat /\ last <= h0 /\ h0 \in Nat /\ o \in Nat
  BY DEF Covered
<1>2. /\ d \in Nat /\ \A a \in Accounts : UserData(u[a], I)
      /\ SumOver(f, Accounts) \in Nat
      /\ SumOver(f, Accounts) <= (h + o) * P
      /\ d = 0 => SumOver(f, Accounts) <= (last + o) * P
  BY <1>0, DuesAdvance
<1>3. I \in Nat /\ i <= I /\ I < Uint128
  <2>1. MaxIntegral < Uint128
    BY DEF CastsFit
  <2>2. I = i + d
    BY <1>0
  <2> HIDE DEF i
  <2>3. I \in Nat /\ i <= I
    BY <1>1, <1>2, <2>2
  <2>4. I < Uint128
    BY <1>0, <2>1, <2>3, Sizes
  <2> QED
    BY <2>3, <2>4
<1>4. \A a \in Accounts : b[a] \in Nat /\ b[a] <= MaxStake
  BY StakeFacts
<1>5. /\ k \in Nat /\ k * P <= DueTo(b[who], u[who], I)
  <2>1. b[who] \in Nat /\ b[who] <= MaxStake /\ UserData(u[who], I)
    BY <1>2, <1>4
  <2> QED
    BY <1>0, <1>3, <2>1, EarnedFacts
<1>6. /\ UserData(u2[who], I)
      /\ u2[who].integral = I
      /\ EarnedBy(b[who], u2[who], I) = 0
      /\ DueTo(b[who], u2[who], I) = 0
  <2>1. u2[who] = DataAt(u[who], I, 0)
    BY <1>000
  <2>2. /\ UserData(u2[who], I) /\ u2[who].integral = I
        /\ u2[who].claimableReward = 0
    BY <1>0, <1>2, <1>3, <2>1, BroughtUpAndClaimed
  <2>3. /\ EarnedBy(b[who], u2[who], I) = 0
        /\ DueTo(b[who], u2[who], I) = 0 * P
    BY <1>3, <1>4, <2>2, UpToDate
  <2>4. 0 * P = 0
    BY Sizes, SMT
  <2> QED
    BY <2>2, <2>3, <2>4
<1>7. \A a \in Accounts \ {who} : u2[a] = u[a]
  BY <1>000
<1>8. \A a \in Accounts : UserData(u2[a], I)
  BY <1>2, <1>6, <1>7
<1>9. SumOver(f2, Accounts) \in Nat
      /\ SumOver(f2, Accounts) + k * P <= SumOver(f, Accounts)
  <2>1. f \in [Accounts -> Nat]
        /\ \A a \in Accounts : f[a] = DueTo(b[a], u[a], I)
    BY <1>2, <1>3, DuesType
  <2>2. f2 \in [Accounts -> Nat]
        /\ \A a \in Accounts : f2[a] = DueTo(b[a], u2[a], I)
    BY <1>3, <1>8, DuesType
  <2>3. \A a \in Accounts \ {who} : f2[a] = f[a]
    BY <1>7, <2>1, <2>2
  <2>4. f2[who] = 0 /\ k * P <= f[who] /\ f[who] \in Nat
    BY <1>5, <1>6, <2>1, <2>2
  <2> HIDE DEF f, f2
  <2>5. SumOver(f2, Accounts) = SumOver(f, Accounts) - f[who] + f2[who]
    BY <2>1, <2>2, <2>3, Sizes, SumChange
  <2>6. SumOver(f2, Accounts) \in Nat
    <3>1. \A a \in Accounts : f2[a] \in Nat
      BY <2>2
    <3> QED
      BY <3>1, Sizes, SumType
  <2>7. k * P \in Nat
    BY <1>5, Sizes, SMT
  <2> QED
    BY <1>2, <2>4, <2>5, <2>6, <2>7, SMT
<1>10. h2 \in Nat /\ h2 + k = h
  BY <1>0, <1>5
<1>11. g2.integral = I
  <2>1. I % Uint128 = I
    BY <1>3, CastFits
  <2> QED
    BY <1>00, <2>1
<1>12. last2 = IF h2 < last THEN h2 ELSE last
  <2>1. h2 < last => h2 % Uint128 = h2
    <3> SUFFICES ASSUME h2 < last PROVE h2 % Uint128 = h2
      OBVIOUS
    <3>1. h2 < Uint128
      BY <1>5, <1>10, Sizes
    <3> QED
      BY <1>10, <3>1, CastFits
  <2>2. last2 = CheckpointBalanceAfterClaim(last, h2)
    BY <1>00
  <2> HIDE DEF last2, last
  <2> QED
    BY <2>1, <2>2 DEF CheckpointBalanceAfterClaim
<1>13. /\ last2 \in Nat /\ last2 <= h2 /\ o2 \in Nat
       /\ SumOver(f2, Accounts) <= (last2 + o2) * P
  <2> DEFINE s == SumOver(f, Accounts)
             s2 == SumOver(f2, Accounts)
             n == last2
             l == last
  <2>0. /\ s \in Nat /\ s2 \in Nat /\ s2 + k * P <= s /\ s <= (h + o) * P
        /\ d = 0 => s <= (l + o) * P
    BY <1>2, <1>9
  <2>1. /\ n = IF h2 < l THEN h2 ELSE l
        /\ l \in Nat
    BY <1>1, <1>12
  <2>2. o2 = o + IF d > 0 /\ h2 > l THEN h2 - l ELSE 0
    BY <1>00
  <2>3. P \in Nat
    BY Sizes
  <2> HIDE DEF s, s2, n, l, P
  <2>4. n \in Nat /\ n <= h2 /\ o2 \in Nat
    BY <1>1, <1>2, <1>10, <2>1, <2>2
  <2>5. (h + o) * P = (h2 + o) * P + k * P
        /\ (h2 + o) * P \in Nat /\ k * P \in Nat
    <3>1. h + o = (h2 + o) + k /\ h2 + o \in Nat
      BY <1>1, <1>5, <1>10
    <3>2. ((h2 + o) + k) * P = (h2 + o) * P + k * P
      BY <1>5, <2>3, <3>1, SMT
    <3> QED
      BY <1>5, <2>3, <3>1, <3>2, SMT
  <2>6. s2 <= (h2 + o) * P
    BY <2>0, <2>5, SMT
  <2>7. CASE h2 + o <= n + o2
    <3>1. (h2 + o) * P <= (n + o2) * P /\ (n + o2) * P \in Nat
      <4>1. h2 + o \in Nat /\ n + o2 \in Nat
        BY <1>1, <1>10, <2>4
      <4> QED
        BY <2>3, <2>7, <4>1, Products
    <3>2. s2 <= (n + o2) * P
      BY <2>0, <2>5, <2>6, <3>1, SMT
    <3> QED
      BY <2>4, <3>2 DEF s2, n, P
  <2>8. CASE ~(h2 + o <= n + o2)
    <3>1. d = 0 /\ n = l /\ o2 = o
      BY <1>1, <1>2, <1>10, <2>1, <2>2, <2>8
    <3>2. s <= (l + o) * P
      BY <2>0, <3>1
    <3>3. (l + o) * P \in Nat /\ k * P \in Nat
      BY <1>1, <1>5, <2>1, <2>3, SMT
    <3>4. s2 <= (l + o) * P
      BY <2>0, <3>2, <3>3, SMT
    <3> QED
      BY <2>4, <3>1, <3>4 DEF s2, n, P
  <2> QED
    BY <2>7, <2>8
<1>14. Covered(b, u2, g2, h2, o2)
  BY <1>0, <1>3, <1>8, <1>10, <1>11, <1>13 DEF Covered
<1> QED
  BY <1>3, <1>5, <1>6, <1>7, <1>11, <1>14

\* Stakes may change where the harvest data are up to date.
LEMMA TokenRestaked ==
  ASSUME NEW b, Staked(b), NEW u, NEW g, NEW h, NEW o, Covered(b, u, g, h, o),
         NEW b2, Staked(b2),
         \A a \in Accounts : b2[a] = b[a] \/ u[a].integral = g.integral
  PROVE  /\ Covered(b2, u, g, h, o)
         /\ \A a \in Accounts : EarnedBy(b2[a], u[a], g.integral)
                                  = EarnedBy(b[a], u[a], g.integral)
<1> DEFINE I == g.integral
           f == Dues(b, u, I)
           f2 == Dues(b2, u, I)
<1>1. I \in Nat /\ \A a \in Accounts : UserData(u[a], I)
  BY DEF Covered
<1>2. ASSUME NEW a \in Accounts
      PROVE  /\ EarnedBy(b2[a], u[a], I) = EarnedBy(b[a], u[a], I)
             /\ DueTo(b2[a], u[a], I) = DueTo(b[a], u[a], I)
  <2>1. CASE b2[a] = b[a]
    BY <2>1
  <2>2. CASE u[a].integral = I
    <3>1. b[a] \in Nat /\ b2[a] \in Nat
      BY StakeFacts
    <3>2. u[a].claimableReward \in Nat
      BY <1>1 DEF UserData
    <3> QED
      BY <1>1, <2>2, <3>1, <3>2, UpToDate
  <2> QED
    BY <2>1, <2>2
<1>3. SumOver(f2, Accounts) = SumOver(f, Accounts)
  <2>1. \A a \in Accounts : f2[a] = f[a]
    BY <1>2 DEF Dues
  <2> HIDE DEF f, f2
  <2> QED
    BY <2>1, Sizes, SumAgree
<1>4. Covered(b2, u, g, h, o)
  BY <1>3 DEF Covered
<1> QED
  BY <1>2, <1>4

\* Only the harvest data of accounts count.
LEMMA TokenSame ==
  ASSUME NEW b, NEW u, NEW g, NEW h, NEW o, Covered(b, u, g, h, o),
         NEW u2, \A a \in Accounts : u2[a] = u[a]
  PROVE  Covered(b, u2, g, h, o)
<1>1. Dues(b, u2, g.integral) = Dues(b, u, g.integral)
  BY DEF Dues
<1> QED
  BY <1>1 DEF Covered

\* The wrapper may hold more.
LEMMA TokenPaidIn ==
  ASSUME NEW b, NEW u, NEW g, NEW h, NEW o, Covered(b, u, g, h, o),
         NEW h2 \in Nat, h <= h2
  PROVE  Covered(b, u, g, h2, o)
<1> DEFINE last == g.lastCheckpointBalance
<1>1. last \in Nat /\ last <= h /\ h \in Nat
  BY DEF Covered
<1>2. last <= h2
  BY <1>1
<1> QED
  BY <1>2 DEF Covered


\* What an account gains as the integral grows is what its stake earns, up to
\* rounding.
LEMMA EarnedGain ==
  ASSUME NEW stake \in Nat, stake <= MaxStake, NEW data, NEW i \in Nat,
         NEW I \in Nat, i <= I, UserData(data, i),
         NEW gain, gain = EarnedBy(stake, data, I) - EarnedBy(stake, data, i)
  PROVE  /\ gain * IntegralPrecision > stake * (I - i) - IntegralPrecision
         /\ gain * IntegralPrecision < stake * (I - i) + IntegralPrecision
<1> DEFINE P == IntegralPrecision
           E == EarnedBy(stake, data, i)
           F == EarnedBy(stake, data, I)
           D == DueTo(stake, data, i)
           G == DueTo(stake, data, I)
           x == stake * (I - i)
<1>0. P \in Nat
  BY Sizes
<1>1. E \in Nat /\ D \in Nat /\ E * P <= D /\ D < E * P + P
  BY EarnedFacts
<1>2. UserData(data, I)
  BY DEF UserData
<1>3. F \in Nat /\ G \in Nat /\ F * P <= G /\ G < F * P + P
  BY <1>2, EarnedFacts
<1>4. G = D + x
  <2> DEFINE y == data.claimableReward * P
             j == data.integral
  <2>1. y \in Nat /\ j \in Nat
    BY Sizes, SMT DEF UserData
  <2>2. G = y + stake * (I - j) /\ D = y + stake * (i - j)
    BY DEF DueTo
  <2> HIDE DEF y, j, G, D, x
  <2>3. stake * (I - j) = stake * (i - j) + stake * (I - i)
    BY <2>1, SMT
  <2>4. stake * (i - j) \in Int /\ stake * (I - i) \in Int
    BY <2>1, SMT
  <2> QED
    BY <2>1, <2>2, <2>3, <2>4, SMT DEF x
<1>5. gain = F - E
  OBVIOUS
<1> HIDE DEF P, E, F, D, G, x
<1>6. (F - E) * P = F * P - E * P /\ F * P \in Nat /\ E * P \in Nat
  BY <1>0, <1>1, <1>3, SMT
<1>7. x \in Int
  <2>1. I - i \in Nat
    OBVIOUS
  <2> QED
    BY <2>1, SMT DEF x
<1>8. (F - E) * P > x - P /\ (F - E) * P < x + P
  <2> DEFINE U == F * P
             V == E * P
             W == (F - E) * P
  <2>1. /\ W = U - V /\ U \in Nat /\ V \in Nat
        /\ V <= D /\ D < V + P /\ U <= G /\ G < U + P
    BY <1>1, <1>3, <1>6
  <2> HIDE DEF U, V, W
  <2>2. W > x - P /\ W < x + P
    BY <1>0, <1>1, <1>3, <1>4, <1>7, <2>1, SMT
  <2> QED
    BY <2>2 DEF W
<1> QED
  BY <1>5, <1>8 DEF P, x

\* All that is earned is covered.
LEMMA TotalCovered ==
  ASSUME NEW b, Staked(b), NEW u, NEW g, NEW h, NEW o, Covered(b, u, g, h, o),
         NEW e, e = [a \in Accounts |-> EarnedBy(b[a], u[a], g.integral)]
  PROVE  SumOver(e, Accounts) <= g.lastCheckpointBalance + o
<1> DEFINE P == IntegralPrecision
           I == g.integral
           last == g.lastCheckpointBalance
           f == Dues(b, u, I)
           pe == [a \in Accounts |-> P * e[a]]
<1>0. P \in Nat /\ P > 0
  BY Sizes
<1>1. /\ I \in Nat /\ last \in Nat /\ o \in Nat
      /\ \A a \in Accounts : UserData(u[a], I)
      /\ SumOver(f, Accounts) <= (last + o) * P
  BY DEF Covered
<1>2. f \in [Accounts -> Nat]
      /\ \A a \in Accounts : f[a] = DueTo(b[a], u[a], I)
  BY <1>1, DuesType
<1>3. ASSUME NEW a \in Accounts
      PROVE  e[a] \in Nat /\ P * e[a] <= f[a] /\ P * e[a] \in Nat
  <2>1. b[a] \in Nat /\ b[a] <= MaxStake
    BY StakeFacts
  <2>2. e[a] = EarnedBy(b[a], u[a], I)
    OBVIOUS
  <2>3. e[a] \in Nat /\ e[a] * P <= f[a]
    BY <1>1, <1>2, <2>1, <2>2, EarnedFacts
  <2>4. e[a] * P = P * e[a] /\ P * e[a] \in Nat
    BY <1>0, <2>3, SMT
  <2> QED
    BY <2>3, <2>4
<1>4. e \in [Accounts -> Nat]
  BY <1>3
<1>5. pe \in [Accounts -> Nat] /\ \A a \in Accounts : pe[a] <= f[a]
  BY <1>3
<1>6. Scaled(pe, P, e, Accounts)
  BY DEF Scaled
<1> HIDE DEF f, pe, P, I, last
<1>9. SumOver(pe, Accounts) = P * SumOver(e, Accounts)
  BY <1>0, <1>4, <1>5, <1>6, Sizes, SumScaled
<1>10. /\ SumOver(pe, Accounts) \in Nat /\ SumOver(f, Accounts) \in Nat
       /\ SumOver(pe, Accounts) <= SumOver(f, Accounts)
  BY <1>2, <1>5, Sizes, SumMonotone
<1>11. SumOver(e, Accounts) \in Nat
  <2>1. \A a \in Accounts : e[a] \in Nat
    BY <1>3
  <2> QED
    BY <2>1, Sizes, SumType
<1>12. SumOver(e, Accounts) * P <= (last + o) * P
  <2>1. P * SumOver(e, Accounts) = SumOver(e, Accounts) * P
        /\ P * SumOver(e, Accounts) \in Nat /\ (last + o) * P \in Nat
    BY <1>0, <1>1, <1>11, SMT
  <2> QED
    BY <1>1, <1>9, <1>10, <2>1, SMT
<1>13. last + o \in Nat
  BY <1>1
<1>14. SumOver(e, Accounts) <= last + o
  BY <1>0, <1>11, <1>12, <1>13, Cancel
<1> QED
  BY <1>14 DEF last

-----------------------------------------------------------------------------
(* The states of a wrapper. *)

\* A token, on the list or not, with its harvest data, what the wrapper holds
\* and overcounted of it, what the pool owes, what accrued and what was paid.
TokenOK(t, list, b, u, g, h, o, p, c, w) ==
  /\ Covered(b, u, g, h, o)
  /\ DOMAIN u = Accounts
  /\ p \in Nat /\ c \in Nat /\ h + p <= c /\ c <= MaxRewards
  /\ w \in [Accounts -> Nat]
  /\ t \notin list => g.integral = 0

\* From one state to another, everybody is credited with what it had earned at
\* the new integral.
Credited(b, u, g, w, b2, u2, g2, w2) ==
  /\ g2.integral \in Nat /\ g.integral <= g2.integral
  /\ \A a \in Accounts :
       EarnedBy(b2[a], u2[a], g2.integral) + w2[a]
         = EarnedBy(b[a], u[a], g2.integral) + w[a]

\* The inductive invariant.
RewardInv ==
  /\ Staked(balanceOf)
  /\ pending \in [RewardTokens -> Nat] /\ accrued \in [RewardTokens -> Nat]
  /\ \A t \in RewardTokens :
       TokenOK(t, rewardTokens, balanceOf, user[t], total[t], held[t],
               overcounted[t], pending[t], accrued[t], paid[t])

\* The total supply, as the sum that the lemmas on sums are about.
LEMMA SupplyIs == TotalSupply = SumOver(balanceOf, Accounts)
  BY DEF TotalSupply, SumOver, MapThenSumSet, MapThenFoldSet

\* What a harvest brings in.
LEMMA HarvestFacts ==
  ASSUME RewardInv, NEW t \in RewardTokens
  PROVE  /\ HeldAfterHarvest(t) \in Nat /\ held[t] \in Nat
         /\ held[t] <= HeldAfterHarvest(t)
         /\ pending[t] - Harvested(t) \in Nat
         /\ HeldAfterHarvest(t) + (pending[t] - Harvested(t)) = held[t] + pending[t]
         /\ HeldAfterHarvest(t) <= MaxRewards
<1>1. /\ held[t] \in Nat /\ pending[t] \in Nat /\ accrued[t] \in Nat
      /\ held[t] + pending[t] <= accrued[t] /\ accrued[t] <= MaxRewards
  BY DEF RewardInv, TokenOK, Covered
<1>2. Harvested(t) = 0 \/ Harvested(t) = pending[t]
  BY DEF Harvested
<1>3. HeldAfterHarvest(t) = held[t] + Harvested(t)
  BY DEF HeldAfterHarvest
<1> QED
  BY <1>1, <1>2, <1>3, Sizes

\* A token that is not harvested is not on the list.
LEMMA Unlisted ==
  ASSUME RewardInv, NEW t \in RewardTokens, t \notin TokensHarvested
  PROVE  /\ total[t].integral = 0
         /\ \A a \in Accounts : user[t][a].integral = 0
<1>1. t \notin rewardTokens
  BY DEF TokensHarvested
<1>2. total[t].integral = 0
  BY <1>1 DEF RewardInv, TokenOK
<1>3. \A a \in Accounts : UserData(user[t][a], total[t].integral)
  BY DEF RewardInv, TokenOK, Covered
<1> QED
  BY <1>2, <1>3 DEF UserData

\* No total integral exceeds its bound at a checkpoint.
LEMMA IntegralBounded ==
  ASSUME RewardInv, Checkpointable, NEW t \in TokensHarvested,
         t \in RewardTokens
  PROVE  total[t].integral + IntegralToAdd(t) <= MaxIntegral
<1>1. total[t].integral \in Nat /\ total[t].integral <= MaxIntegral
  BY DEF RewardInv, TokenOK, Covered
<1>2. CASE TotalSupply > 0
  BY <1>2 DEF Checkpointable
<1>3. CASE ~(TotalSupply > 0)
  <2>1. IntegralToAdd(t) = 0
    BY <1>3 DEF IntegralToAdd, IntegralForBalDiff
  <2> QED
    BY <1>1, <2>1
<1> QED
  BY <1>2, <1>3


\* Nothing is credited where nothing happens.
LEMMA NoCredit ==
  ASSUME NEW b, NEW u, NEW g, NEW h, NEW o, NEW w, Covered(b, u, g, h, o)
  PROVE  Credited(b, u, g, w, b, u, g, w)
<1>1. g.integral \in Nat
  BY DEF Covered
<1> QED
  BY <1>1 DEF Credited

\* A checkpoint of accounts, in one token.
LEMMA CheckpointToken ==
  ASSUME CastsFit, RewardInv, NEW S, Checkpoint(S), NEW t \in RewardTokens
  PROVE  /\ TokenOK(t, rewardTokens', balanceOf, user'[t], total'[t], held'[t],
                    overcounted'[t], pending'[t], accrued[t], paid'[t])
         /\ Credited(balanceOf, user[t], total[t], paid[t],
                     balanceOf, user'[t], total'[t], paid'[t])
         /\ \A a \in Accounts : a \in S => user'[t][a].integral = total'[t].integral
<1> DEFINE b == balanceOf
           u == user[t]
           g == total[t]
           o == overcounted[t]
           w == paid[t]
           h == HeldAfterHarvest(t)
           p == pending[t] - Harvested(t)
           d == IntegralToAdd(t)
           I == g.integral + d
           u2 == user'[t]
           g2 == total'[t]
<1>1. /\ Staked(b) /\ Covered(b, u, g, held[t], o) /\ DOMAIN u = Accounts
      /\ accrued[t] \in Nat /\ held[t] + pending[t] <= accrued[t]
      /\ accrued[t] <= MaxRewards /\ w \in [Accounts -> Nat]
  BY DEF RewardInv, TokenOK
<1>2. /\ h \in Nat /\ held[t] <= h /\ p \in Nat
      /\ h + p = held[t] + pending[t] /\ h <= MaxRewards
  BY HarvestFacts
<1>3. h < Uint128
  BY <1>2, Sizes DEF CastsFit
<1>4. d = IntegralForBalDiff(SumOver(b, Accounts), h, g.lastCheckpointBalance)
  BY SupplyIs DEF IntegralToAdd
<1>5. held'[t] = h /\ pending'[t] = p /\ paid'[t] = w /\ overcounted'[t] = o
  BY DEF Checkpoint
<1>6. rewardTokens' = TokensHarvested
  BY DEF Checkpoint
<1>7. g2 = IF t \in TokensHarvested /\ d > 0
             THEN [integral |-> I % Uint128, lastCheckpointBalance |-> h % Uint128]
             ELSE g
  BY DEF Checkpoint
<1>8. /\ DOMAIN u2 = Accounts
      /\ \A a \in Accounts :
           u2[a] = IF t \in TokensHarvested /\ a \in S
                     THEN UserAt(t, a, I, ClaimableAt(t, a, I)) ELSE u[a]
  BY DEF Checkpoint
<1>9. \A a \in Accounts : UserAt(t, a, I, ClaimableAt(t, a, I))
                            = DataAt(u[a], I, EarnedBy(b[a], u[a], I))
  BY DEF UserAt, ClaimableAt, ClaimableForIntegralDiff, DataAt, EarnedBy
<1>10. t \in TokensHarvested => I <= MaxIntegral
  BY IntegralBounded DEF Checkpoint
<1>11. t \notin TokensHarvested =>
         g.integral = 0 /\ \A a \in Accounts : u[a].integral = 0
  BY Unlisted
<1> HIDE DEF b, u, g, o, w, h, p, d, u2, g2
<1>12. h + p <= accrued[t]
  BY <1>1, <1>2
<1>13. CASE t \in TokensHarvested
  <2>1. I <= MaxIntegral
    BY <1>10, <1>13
  <2>2. g2 = IF d > 0
               THEN [integral |-> I % Uint128, lastCheckpointBalance |-> h % Uint128]
               ELSE g
    BY <1>7, <1>13
  <2>3. \A a \in Accounts :
          u2[a] = IF a \in S THEN DataAt(u[a], I, EarnedBy(b[a], u[a], I)) ELSE u[a]
    BY <1>8, <1>9, <1>13
  <2> HIDE DEF I
  <2>4. I = g.integral + d
    BY DEF I
  <2>40. Checkpointed(b, u, g, h, S, d, I, u2, g2)
    BY <1>4, <2>1, <2>2, <2>3, <2>4 DEF Checkpointed
  <2>5. /\ Covered(b, u2, g2, h, o)
        /\ g2.integral = I /\ g.integral <= I /\ I \in Nat
        /\ \A a \in Accounts : /\ a \in S => u2[a].integral = I
                               /\ EarnedBy(b[a], u2[a], I) = EarnedBy(b[a], u[a], I)
    BY <1>1, <1>2, <1>3, <2>40, TokenCheckpoint
  <2>6. TokenOK(t, rewardTokens', b, u2, g2, h, o, p, accrued[t], w)
    BY <1>1, <1>2, <1>6, <1>8, <1>12, <1>13, <2>5 DEF TokenOK
  <2>7. Credited(b, u, g, w, b, u2, g2, w)
    BY <2>5 DEF Credited
  <2> QED
    BY <1>5, <2>5, <2>6, <2>7 DEF b, u, g, o, w, u2, g2
<1>14. CASE t \notin TokensHarvested
  <2>1. g2 = g
    BY <1>7, <1>14
  <2>2. \A a \in Accounts : u2[a] = u[a]
    BY <1>8, <1>14
  <2>3. Covered(b, u, g, h, o)
    BY <1>1, <1>2, TokenPaidIn
  <2>30. Covered(b, u2, g2, h, o)
    BY <2>1, <2>2, <2>3, TokenSame
  <2>4. TokenOK(t, rewardTokens', b, u2, g2, h, o, p, accrued[t], w)
    BY <1>1, <1>2, <1>8, <1>11, <1>12, <1>14, <2>1, <2>30 DEF TokenOK
  <2>5. Credited(b, u, g, w, b, u2, g2, w)
    <3>1. g.integral \in Nat
      BY <2>3 DEF Covered
    <3> QED
      BY <2>1, <2>2, <3>1 DEF Credited
  <2>6. \A a \in Accounts : u2[a].integral = g2.integral
    BY <1>11, <1>14, <2>1, <2>2
  <2> QED
    BY <1>5, <2>4, <2>5, <2>6 DEF b, u, g, o, w, u2, g2
<1> QED
  BY <1>13, <1>14


\* A claim of an account, in one token.
LEMMA ClaimToken ==
  ASSUME CastsFit, RewardInv, NEW who \in Accounts, CheckpointAndClaim(who),
         NEW t \in RewardTokens
  PROVE  /\ TokenOK(t, rewardTokens', balanceOf, user'[t], total'[t], held'[t],
                    overcounted'[t], pending'[t], accrued[t], paid'[t])
         /\ Credited(balanceOf, user[t], total[t], paid[t],
                     balanceOf, user'[t], total'[t], paid'[t])
         /\ user'[t][who].integral = total'[t].integral
<1> DEFINE b == balanceOf
           u == user[t]
           g == total[t]
           o == overcounted[t]
           w == paid[t]
           last == g.lastCheckpointBalance
           h == HeldAfterHarvest(t)
           p == pending[t] - Harvested(t)
           d == IntegralToAdd(t)
           I == g.integral + d
           k == Claimed(t, who)
           u2 == user'[t]
           g2 == total'[t]
           h2 == held'[t]
           o2 == overcounted'[t]
           w2 == paid'[t]
<1>1. /\ Staked(b) /\ Covered(b, u, g, held[t], o) /\ DOMAIN u = Accounts
      /\ accrued[t] \in Nat /\ held[t] + pending[t] <= accrued[t]
      /\ accrued[t] <= MaxRewards /\ w \in [Accounts -> Nat]
  BY DEF RewardInv, TokenOK
<1>2. /\ h \in Nat /\ held[t] <= h /\ p \in Nat
      /\ h + p = held[t] + pending[t] /\ h <= MaxRewards
  BY HarvestFacts
<1>3. h < Uint128
  BY <1>2, Sizes DEF CastsFit
<1>4. d = IntegralForBalDiff(SumOver(b, Accounts), h, last)
  BY SupplyIs DEF IntegralToAdd
<1>5. pending'[t] = p /\ rewardTokens' = TokensHarvested
  BY DEF CheckpointAndClaim
<1>6. k = EarnedBy(b[who], u[who], I)
  BY DEF Claimed, ClaimableAt, ClaimableForIntegralDiff, EarnedBy
<1>7. UserAt(t, who, I, 0) = DataAt(u[who], I, 0)
  BY DEF UserAt, DataAt
<1>8. HeldAfterClaim(t, who) = h - IF t \in TokensHarvested THEN k ELSE 0
  BY DEF HeldAfterClaim
<1>9. h2 = HeldAfterClaim(t, who)
  BY DEF CheckpointAndClaim
<1>10. g2 = IF t \in TokensHarvested
              THEN [integral |-> I % Uint128,
                    lastCheckpointBalance |-> CheckpointBalanceAfterClaim(last, h2)]
              ELSE g
  BY <1>9 DEF CheckpointAndClaim
<1>11. u2 = IF t \in TokensHarvested
              THEN [u EXCEPT ![who] = UserAt(t, who, I, 0)] ELSE u
  BY DEF CheckpointAndClaim
<1>12. w2 = IF t \in TokensHarvested THEN [w EXCEPT ![who] = @ + k] ELSE w
  BY DEF CheckpointAndClaim
<1>13. o2 = o + IF t \in TokensHarvested /\ d > 0 /\ h2 > last
                  THEN h2 - last ELSE 0
  BY <1>9 DEF CheckpointAndClaim
<1>14. t \in TokensHarvested => I <= MaxIntegral /\ k <= h
  BY IntegralBounded DEF CheckpointAndClaim
<1>15. t \notin TokensHarvested =>
         g.integral = 0 /\ \A a \in Accounts : u[a].integral = 0
  BY Unlisted
<1> HIDE DEF b, u, g, o, w, last, h, p, d, I, k, u2, g2, h2, o2, w2
<1>16. h + p <= accrued[t]
  BY <1>1, <1>2
<1>17. CASE t \in TokensHarvested
  <2>1. /\ I = g.integral + d /\ last = g.lastCheckpointBalance
    BY DEF I, last
  <2>2. /\ h2 = h - k
        /\ g2 = [integral |-> I % Uint128,
                 lastCheckpointBalance |-> CheckpointBalanceAfterClaim(last, h2)]
        /\ u2 = [u EXCEPT ![who] = DataAt(u[who], I, 0)]
        /\ w2 = [w EXCEPT ![who] = @ + k]
    BY <1>7, <1>8, <1>9, <1>10, <1>11, <1>12, <1>17
  <2>3. o2 = o + IF d > 0 /\ h2 > last THEN h2 - last ELSE 0
    BY <1>13, <1>17
  <2>4. /\ DOMAIN u2 = Accounts
        /\ \A a \in Accounts : u2[a] = IF a = who THEN DataAt(u[a], I, 0) ELSE u[a]
    BY <1>1, <2>2
  <2>5. ClaimedFrom(b, u, g, h, o, who, d, I, k, u2, g2, h2, o2)
    BY <1>4, <1>6, <1>14, <1>17, <2>1, <2>2, <2>3, <2>4 DEF ClaimedFrom
  <2>6. /\ Covered(b, u2, g2, h2, o2)
        /\ g2.integral = I /\ g.integral <= I /\ I \in Nat /\ k \in Nat
        /\ u2[who].integral = I
        /\ EarnedBy(b[who], u2[who], I) = 0
        /\ \A a \in Accounts \ {who} : u2[a] = u[a]
    BY <1>1, <1>2, <1>3, <2>5, TokenClaim
  <2>7. h2 \in Nat /\ h2 + p <= accrued[t]
    <3>1. k <= h
      BY <1>14, <1>17
    <3> QED
      BY <1>1, <1>2, <1>16, <2>2, <2>6, <3>1
  <2>8. w2 \in [Accounts -> Nat]
    BY <1>1, <2>2, <2>6
  <2>9. TokenOK(t, rewardTokens', b, u2, g2, h2, o2, p, accrued[t], w2)
    BY <1>1, <1>2, <1>5, <1>17, <2>4, <2>6, <2>7, <2>8 DEF TokenOK
  <2>10. ASSUME NEW a \in Accounts
         PROVE  EarnedBy(b[a], u2[a], I) + w2[a] = EarnedBy(b[a], u[a], I) + w[a]
    <3>1. CASE a = who
      <4>1. w2[who] = w[who] + k /\ w[who] \in Nat
        BY <1>1, <2>2
      <4>2. 0 + (w[who] + k) = k + w[who]
        BY <2>6, <4>1
      <4> QED
        BY <1>6, <2>6, <3>1, <4>1, <4>2
    <3>2. CASE a # who
      <4>1. w2[a] = w[a]
        BY <1>1, <2>2, <3>2
      <4> QED
        BY <2>6, <3>2, <4>1
    <3> QED
      BY <3>1, <3>2
  <2>11. Credited(b, u, g, w, b, u2, g2, w2)
    BY <2>6, <2>10 DEF Credited
  <2> QED
    BY <1>5, <2>6, <2>9, <2>11 DEF b, u, g, o, w, u2, g2, h2, o2, w2
<1>18. CASE t \notin TokensHarvested
  <2>1. /\ g2 = g /\ u2 = u /\ w2 = w
    BY <1>10, <1>11, <1>12, <1>18
  <2>2. h2 = h /\ o2 = o
    <3>1. o \in Nat
      BY <1>1 DEF Covered
    <3> QED
      BY <1>2, <1>8, <1>9, <1>13, <1>18, <3>1
  <2>3. Covered(b, u, g, h, o)
    BY <1>1, <1>2, TokenPaidIn
  <2>4. TokenOK(t, rewardTokens', b, u2, g2, h2, o2, p, accrued[t], w2)
    BY <1>1, <1>2, <1>15, <1>16, <1>18, <2>1, <2>2, <2>3 DEF TokenOK
  <2>5. Credited(b, u, g, w, b, u2, g2, w2)
    BY <2>1, <2>3, NoCredit
  <2>6. u2[who].integral = g2.integral
    BY <1>15, <1>18, <2>1
  <2> QED
    BY <1>5, <2>4, <2>5, <2>6 DEF b, u, g, o, w, u2, g2, h2, o2, w2
<1> QED
  BY <1>17, <1>18


\* Stakes change where the harvest data are up to date.
LEMMA Restaked ==
  ASSUME NEW t, NEW list, NEW b, NEW u, NEW g, NEW h, NEW o, NEW p, NEW c, NEW w,
         NEW b0, NEW u0, NEW g0, NEW w0,
         Staked(b), TokenOK(t, list, b, u, g, h, o, p, c, w),
         Credited(b0, u0, g0, w0, b, u, g, w),
         NEW b2, Staked(b2),
         \A a \in Accounts : b2[a] = b[a] \/ u[a].integral = g.integral
  PROVE  /\ TokenOK(t, list, b2, u, g, h, o, p, c, w)
         /\ Credited(b0, u0, g0, w0, b2, u, g, w)
<1>1. Covered(b, u, g, h, o)
  BY DEF TokenOK
<1>2. /\ Covered(b2, u, g, h, o)
      /\ \A a \in Accounts : EarnedBy(b2[a], u[a], g.integral)
                               = EarnedBy(b[a], u[a], g.integral)
  BY <1>1, TokenRestaked
<1> QED
  BY <1>2 DEF TokenOK, Credited

\* A step credits everybody, in every token.
AllCredited ==
  \A t \in RewardTokens :
    Credited(balanceOf, user[t], total[t], paid[t],
             balanceOf', user'[t], total'[t], paid'[t])

\* An operation checkpoints the accounts whose stakes it changes.
LEMMA Operation ==
  ASSUME CastsFit, RewardInv, NEW S,
         \/ Checkpoint(S)
         \/ \E who \in Accounts : S = {who} /\ CheckpointAndClaim(who),
         Staked(balanceOf'), accrued' = accrued,
         \A a \in Accounts : balanceOf'[a] = balanceOf[a] \/ a \in S
  PROVE  RewardInv' /\ AllCredited
<1>1. ASSUME NEW t \in RewardTokens
      PROVE  /\ TokenOK(t, rewardTokens', balanceOf, user'[t], total'[t], held'[t],
                        overcounted'[t], pending'[t], accrued[t], paid'[t])
             /\ Credited(balanceOf, user[t], total[t], paid[t],
                         balanceOf, user'[t], total'[t], paid'[t])
             /\ \A a \in Accounts :
                  a \in S => user'[t][a].integral = total'[t].integral
  <2>1. CASE Checkpoint(S)
    BY <2>1, CheckpointToken
  <2>2. ASSUME NEW who \in Accounts, S = {who}, CheckpointAndClaim(who)
        PROVE  /\ TokenOK(t, rewardTokens', balanceOf, user'[t], total'[t],
                          held'[t], overcounted'[t], pending'[t], accrued[t],
                          paid'[t])
               /\ Credited(balanceOf, user[t], total[t], paid[t],
                           balanceOf, user'[t], total'[t], paid'[t])
               /\ \A a \in Accounts :
                    a \in S => user'[t][a].integral = total'[t].integral
    BY <2>2, ClaimToken
  <2> QED
    BY <2>1, <2>2
<1>2. Staked(balanceOf)
  BY DEF RewardInv
<1>3. ASSUME NEW t \in RewardTokens
      PROVE  /\ TokenOK(t, rewardTokens', balanceOf', user'[t], total'[t], held'[t],
                        overcounted'[t], pending'[t], accrued[t], paid'[t])
             /\ Credited(balanceOf, user[t], total[t], paid[t],
                         balanceOf', user'[t], total'[t], paid'[t])
  <2>1. \A a \in Accounts : balanceOf'[a] = balanceOf[a]
                              \/ user'[t][a].integral = total'[t].integral
    BY <1>1
  <2> QED
    BY <1>1, <1>2, <2>1, Restaked
<1>4. pending' \in [RewardTokens -> Nat]
  <2>1. pending' = [t \in RewardTokens |-> pending[t] - Harvested(t)]
    BY DEF Checkpoint, CheckpointAndClaim
  <2>2. \A t \in RewardTokens : pending[t] - Harvested(t) \in Nat
    BY HarvestFacts
  <2> QED
    BY <2>1, <2>2
<1>5. accrued' \in [RewardTokens -> Nat]
  BY DEF RewardInv
<1>6. RewardInv'
  BY <1>3, <1>4, <1>5 DEF RewardInv
<1> QED
  BY <1>3, <1>6 DEF AllCredited

\* Stakes after one of them changes.
LEMMA StakeChange ==
  ASSUME NEW b, Staked(b), NEW a \in Accounts, NEW b2 \in [Accounts -> Nat],
         \A c \in Accounts \ {a} : b2[c] = b[c],
         SumOver(b, Accounts) - b[a] + b2[a] <= MaxStake
  PROVE  /\ Staked(b2)
         /\ SumOver(b2, Accounts) = SumOver(b, Accounts) - b[a] + b2[a]
         /\ SumOver(b2, Accounts) \in Nat
<1>1. b \in [Accounts -> Nat]
  BY DEF Staked, Stakes
<1>2. SumOver(b2, Accounts) = SumOver(b, Accounts) - b[a] + b2[a]
  BY <1>1, Sizes, SumChange
<1>3. SumOver(b2, Accounts) \in Nat
  <2>1. \A c \in Accounts : b2[c] \in Nat
    OBVIOUS
  <2> QED
    BY <2>1, Sizes, SumType
<1> QED
  BY <1>2, <1>3 DEF Staked, Stakes

\* Each operation of the wrapper, and each step of the pool.
LEMMA DepositStep ==
  ASSUME CastsFit, RewardInv, NEW to \in Accounts, NEW amount \in 1..MaxStake,
         Deposit(to, amount)
  PROVE  RewardInv' /\ AllCredited
<1> DEFINE b == balanceOf
           b2 == balanceOf'
<1>1. /\ Checkpoint({to}) /\ accrued' = accrued
      /\ SumOver(b, Accounts) + amount <= MaxStake
  BY SupplyIs DEF Deposit, poolVars
<1>2. Staked(b)
  BY DEF RewardInv
<1>3. b \in [Accounts -> Nat] /\ b[to] \in Nat /\ amount \in Nat
      /\ SumOver(b, Accounts) \in Nat
  BY <1>2, StakeFacts, Sizes DEF Staked, Stakes
<1>4. /\ b2 \in [Accounts -> Nat] /\ b2[to] = b[to] + amount
      /\ \A a \in Accounts \ {to} : b2[a] = b[a]
  <2>1. b2 = [b EXCEPT ![to] = b[to] + amount]
    BY DEF Deposit
  <2>2. b[to] + amount \in Nat
    BY <1>3
  <2> HIDE DEF b, b2
  <2> QED
    BY <1>3, <2>1, <2>2
<1> HIDE DEF b, b2
<1>5. SumOver(b, Accounts) - b[to] + b2[to] <= MaxStake
  BY <1>1, <1>3, <1>4, Sizes
<1>6. Staked(b2)
  BY <1>2, <1>4, <1>5, StakeChange
<1>7. \A a \in Accounts : b2[a] = b[a] \/ a \in {to}
  BY <1>4
<1> QED
  BY <1>1, <1>6, <1>7, Operation DEF b, b2

LEMMA WithdrawStep ==
  ASSUME CastsFit, RewardInv, NEW from \in Accounts, NEW amount \in 1..MaxStake,
         NEW claimRewards \in BOOLEAN, Withdraw(from, amount, claimRewards)
  PROVE  RewardInv' /\ AllCredited
<1> DEFINE b == balanceOf
           b2 == balanceOf'
<1>1. /\ Checkpoint({from}) \/ CheckpointAndClaim(from)
      /\ accrued' = accrued /\ amount <= b[from]
  BY DEF Withdraw, poolVars
<1>2. Staked(b)
  BY DEF RewardInv
<1>3. b \in [Accounts -> Nat] /\ b[from] \in Nat /\ amount \in Nat
      /\ SumOver(b, Accounts) \in Nat /\ SumOver(b, Accounts) <= MaxStake
  BY <1>2, StakeFacts, Sizes DEF Staked, Stakes
<1>4. /\ b2 \in [Accounts -> Nat] /\ b2[from] = b[from] - amount
      /\ \A a \in Accounts \ {from} : b2[a] = b[a]
  <2>1. b2 = [b EXCEPT ![from] = b[from] - amount]
    BY DEF Withdraw
  <2>2. b[from] - amount \in Nat
    BY <1>1, <1>3
  <2> HIDE DEF b, b2
  <2> QED
    BY <1>3, <2>1, <2>2
<1> HIDE DEF b, b2
<1>5. SumOver(b, Accounts) - b[from] + b2[from] <= MaxStake
  BY <1>1, <1>3, <1>4, Sizes
<1>6. Staked(b2)
  BY <1>2, <1>4, <1>5, StakeChange
<1>7. \A a \in Accounts : b2[a] = b[a] \/ a \in {from}
  BY <1>4
<1> QED
  BY <1>1, <1>6, <1>7, Operation DEF b, b2

\* What a transfer makes of the stakes.
MovedFrom(b, b2, from, to, amount) ==
  \E b1 : /\ b1 = [b EXCEPT ![from] = b[from] - amount]
          /\ b2 = [b1 EXCEPT ![to] = b1[to] + amount]

\* A transfer leaves the supply and the stakes of all others alone.
LEMMA Transferred ==
  ASSUME NEW b, Staked(b), NEW from \in Accounts, NEW to \in Accounts,
         NEW amount \in Nat, amount <= b[from],
         NEW b2, MovedFrom(b, b2, from, to, amount)
  PROVE  /\ Staked(b2)
         /\ \A a \in Accounts : b2[a] = b[a] \/ a \in {from, to}
<1>0. PICK b1 : /\ b1 = [b EXCEPT ![from] = b[from] - amount]
                 /\ b2 = [b1 EXCEPT ![to] = b1[to] + amount]
  BY DEF MovedFrom
<1> DEFINE n == b[from] - amount
           m == b1[to] + amount
<1>1. b \in [Accounts -> Nat] /\ b[from] \in Nat
      /\ SumOver(b, Accounts) \in Nat /\ SumOver(b, Accounts) <= MaxStake
  BY StakeFacts DEF Staked, Stakes
<1>2. n \in Nat
  BY <1>1
<1>3. b1 = [b EXCEPT ![from] = n] /\ b2 = [b1 EXCEPT ![to] = m]
  BY <1>0
<1>4. /\ b1 \in [Accounts -> Nat] /\ b1[from] = n
      /\ \A a \in Accounts \ {from} : b1[a] = b[a]
  <2> HIDE DEF n
  <2> QED
    BY <1>1, <1>2, <1>3
<1>5. SumOver(b, Accounts) - b[from] + b1[from] <= MaxStake
      /\ SumOver(b, Accounts) - b[from] + b1[from] = SumOver(b, Accounts) - amount
  BY <1>1, <1>4, Sizes
<1> HIDE DEF n
<1>6. /\ Staked(b1) /\ SumOver(b1, Accounts) = SumOver(b, Accounts) - amount
      /\ SumOver(b1, Accounts) \in Nat
  BY <1>4, <1>5, StakeChange
<1>7. b1[to] \in Nat /\ m \in Nat
  BY <1>4
<1> HIDE DEF m
<1>70. m = b1[to] + amount
  BY DEF m
<1>8. /\ b2 \in [Accounts -> Nat] /\ b2[to] = m
      /\ \A a \in Accounts \ {to} : b2[a] = b1[a]
  BY <1>3, <1>4, <1>7
<1>9. SumOver(b1, Accounts) - b1[to] + b2[to] <= MaxStake
  BY <1>1, <1>6, <1>7, <1>70, <1>8, Sizes
<1>10. Staked(b2)
  BY <1>6, <1>8, <1>9, StakeChange
<1> QED
  BY <1>4, <1>8, <1>10

LEMMA TransferStep ==
  ASSUME CastsFit, RewardInv, NEW from \in Accounts, NEW to \in Accounts,
         NEW amount \in 1..MaxStake, Transfer(from, to, amount)
  PROVE  RewardInv' /\ AllCredited
<1> DEFINE b == balanceOf
           b2 == balanceOf'
<1>1. /\ Checkpoint({from, to}) /\ accrued' = accrued /\ amount <= b[from]
  BY DEF Transfer, poolVars
<1>10. MovedFrom(b, b2, from, to, amount)
  BY DEF Transfer, Moved, MovedFrom
<1>2. Staked(b) /\ amount \in Nat
  BY Sizes DEF RewardInv
<1> HIDE DEF b, b2
<1>3. Staked(b2) /\ \A a \in Accounts : b2[a] = b[a] \/ a \in {from, to}
  BY <1>1, <1>10, <1>2, Transferred
<1> QED
  BY <1>1, <1>3, Operation DEF b, b2


\* Steps that change neither stakes nor harvest data.
LEMMA OtherStep ==
  ASSUME RewardInv,
         UNCHANGED <<balanceOf, total, user, paid, overcounted>>,
         rewardTokens \subseteq rewardTokens',
         pending' \in [RewardTokens -> Nat], accrued' \in [RewardTokens -> Nat],
         \A t \in RewardTokens :
           /\ held'[t] \in Nat /\ held[t] <= held'[t]
           /\ held'[t] + pending'[t] <= accrued'[t] /\ accrued'[t] <= MaxRewards
  PROVE  RewardInv' /\ AllCredited
<1>1. ASSUME NEW t \in RewardTokens
      PROVE  /\ TokenOK(t, rewardTokens', balanceOf', user'[t], total'[t], held'[t],
                        overcounted'[t], pending'[t], accrued'[t], paid'[t])
             /\ Credited(balanceOf, user[t], total[t], paid[t],
                         balanceOf', user'[t], total'[t], paid'[t])
  <2> DEFINE b == balanceOf
             u == user[t]
             g == total[t]
             o == overcounted[t]
             w == paid[t]
             h == held[t]
             h2 == held'[t]
  <2>0. /\ Covered(b, u, g, h, o) /\ DOMAIN u = Accounts /\ w \in [Accounts -> Nat]
        /\ t \notin rewardTokens' => g.integral = 0
    BY DEF RewardInv, TokenOK
  <2>1. /\ h2 \in Nat /\ h <= h2
        /\ h2 + pending'[t] <= accrued'[t] /\ accrued'[t] <= MaxRewards
        /\ pending'[t] \in Nat /\ accrued'[t] \in Nat
    OBVIOUS
  <2>2. b = balanceOf' /\ u = user'[t] /\ g = total'[t] /\ o = overcounted'[t]
        /\ w = paid'[t]
    OBVIOUS
  <2> HIDE DEF b, u, g, o, w, h, h2
  <2>3. Covered(b, u, g, h2, o)
    BY <2>0, <2>1, TokenPaidIn
  <2>4. TokenOK(t, rewardTokens', b, u, g, h2, o, pending'[t], accrued'[t], w)
    BY <2>0, <2>1, <2>3 DEF TokenOK
  <2>5. Credited(b, u, g, w, b, u, g, w)
    BY <2>3, NoCredit
  <2> QED
    BY <2>2, <2>4, <2>5 DEF b, u, g, w, h2
<1>2. Staked(balanceOf')
  BY DEF RewardInv
<1>3. RewardInv'
  BY <1>1, <1>2 DEF RewardInv
<1> QED
  BY <1>1, <1>3 DEF AllCredited

\* What is held and owed, in every token.
LEMMA AmountFacts ==
  ASSUME RewardInv, NEW t \in RewardTokens
  PROVE  /\ held[t] \in Nat /\ pending[t] \in Nat /\ accrued[t] \in Nat
         /\ held[t] + pending[t] <= accrued[t] /\ accrued[t] <= MaxRewards
  BY DEF RewardInv, TokenOK, Covered

\* Steps that only lengthen the list of reward tokens, or not even that.
LEMMA QuietStep ==
  ASSUME RewardInv,
         UNCHANGED <<balanceOf, total, user, held, pending, accrued, paid,
                     overcounted>>,
         rewardTokens \subseteq rewardTokens'
  PROVE  RewardInv' /\ AllCredited
<1>1. pending' \in [RewardTokens -> Nat] /\ accrued' \in [RewardTokens -> Nat]
  BY DEF RewardInv
<1>2. ASSUME NEW t \in RewardTokens
      PROVE  /\ held'[t] \in Nat /\ held[t] <= held'[t]
             /\ held'[t] + pending'[t] <= accrued'[t] /\ accrued'[t] <= MaxRewards
  BY AmountFacts
<1> QED
  BY <1>1, <1>2, OtherStep

\* The pool comes to owe more.
LEMMA AccrueStep ==
  ASSUME RewardInv, NEW s \in RewardTokens, NEW amount \in Accruals,
         Accrue(s, amount)
  PROVE  RewardInv' /\ AllCredited
<1>1. /\ UNCHANGED <<balanceOf, total, user, paid, overcounted, held, rewardTokens>>
      /\ pending' = [pending EXCEPT ![s] = @ + amount]
      /\ accrued' = [accrued EXCEPT ![s] = @ + amount]
      /\ accrued[s] + amount <= MaxRewards
  BY DEF Accrue
<1>2. amount \in Nat
  BY StakesAssumption
<1>3. pending \in [RewardTokens -> Nat] /\ accrued \in [RewardTokens -> Nat]
  BY DEF RewardInv
<1>4. pending' \in [RewardTokens -> Nat] /\ accrued' \in [RewardTokens -> Nat]
  BY <1>1, <1>2, <1>3
<1>5. ASSUME NEW t \in RewardTokens
      PROVE  /\ held'[t] \in Nat /\ held[t] <= held'[t]
             /\ held'[t] + pending'[t] <= accrued'[t] /\ accrued'[t] <= MaxRewards
  <2>1. /\ held[t] \in Nat /\ pending[t] \in Nat /\ accrued[t] \in Nat
        /\ held[t] + pending[t] <= accrued[t] /\ accrued[t] <= MaxRewards
    BY AmountFacts
  <2>2. held'[t] = held[t]
    BY <1>1
  <2>3. CASE t = s
    <3>1. pending'[t] = pending[t] + amount /\ accrued'[t] = accrued[t] + amount
      BY <1>1, <1>3, <2>3
    <3> QED
      BY <1>1, <1>2, <2>1, <2>2, <2>3, <3>1, Sizes
  <2>4. CASE t # s
    <3>1. pending'[t] = pending[t] /\ accrued'[t] = accrued[t]
      BY <1>1, <1>3, <2>4
    <3> QED
      BY <2>1, <2>2, <3>1
  <2> QED
    BY <2>3, <2>4
<1> QED
  BY <1>1, <1>4, <1>5, OtherStep

\* The pool pays what it owes.
LEMMA GetRewardStep ==
  ASSUME RewardInv, GetRewardFor
  PROVE  RewardInv' /\ AllCredited
<1>1. /\ UNCHANGED <<balanceOf, total, user, paid, overcounted, rewardTokens, accrued>>
  BY DEF GetRewardFor, poolVars
<1>2. accrued' \in [RewardTokens -> Nat]
  BY <1>1 DEF RewardInv
<1>3. ASSUME NEW t \in RewardTokens
      PROVE  /\ held'[t] \in Nat /\ held[t] <= held'[t] /\ pending'[t] \in Nat
             /\ held'[t] + pending'[t] <= accrued'[t] /\ accrued'[t] <= MaxRewards
  <2>1. /\ held[t] \in Nat /\ pending[t] \in Nat /\ accrued[t] \in Nat
        /\ held[t] + pending[t] <= accrued[t] /\ accrued[t] <= MaxRewards
    BY AmountFacts
  <2>2. \/ held'[t] = held[t] + pending[t] /\ pending'[t] = 0
        \/ held'[t] = held[t] /\ pending'[t] = pending[t]
    BY DEF GetRewardFor
  <2> QED
    BY <1>1, <2>1, <2>2, Sizes
<1>4. pending' \in [RewardTokens -> Nat]
  <2>1. pending' = [t \in RewardTokens |->
                      IF t \in BaseRewards \cup extraRewards THEN 0 ELSE pending[t]]
    BY DEF GetRewardFor
  <2> QED
    BY <2>1, AmountFacts
<1> QED
  BY <1>1, <1>2, <1>3, <1>4, OtherStep

\* Every step keeps the invariant and credits everybody.
LEMMA RewardStep ==
  ASSUME CastsFit, RewardInv, WrapperNext
  PROVE  RewardInv' /\ AllCredited
<1>1. ASSUME NEW a \in Accounts, NEW amount \in 1..MaxStake, Deposit(a, amount)
      PROVE  RewardInv' /\ AllCredited
  BY <1>1, DepositStep
<1>2. ASSUME NEW a \in Accounts, NEW amount \in 1..MaxStake,
             NEW claimRewards \in BOOLEAN, Withdraw(a, amount, claimRewards)
      PROVE  RewardInv' /\ AllCredited
  BY <1>2, WithdrawStep
<1>3. ASSUME NEW a \in Accounts, NEW amount \in 1..MaxStake,
             NEW to \in Accounts, Transfer(a, to, amount)
      PROVE  RewardInv' /\ AllCredited
  BY <1>3, TransferStep
<1>4. ASSUME NEW a \in Accounts, ClaimRewardsFor(a)
      PROVE  RewardInv' /\ AllCredited
  <2>1. /\ CheckpointAndClaim(a) /\ accrued' = accrued /\ balanceOf' = balanceOf
    BY <1>4 DEF ClaimRewardsFor, poolVars
  <2>2. Staked(balanceOf')
    BY <2>1 DEF RewardInv
  <2>3. \A c \in Accounts : balanceOf'[c] = balanceOf[c] \/ c \in {a}
    BY <2>1
  <2> QED
    BY <2>1, <2>2, <2>3, Operation
<1>5. CASE TogglePause
  BY <1>5, QuietStep DEF TogglePause, poolVars
<1>6. CASE AddExtraRewards
  BY <1>6, QuietStep DEF AddExtraRewards, poolVars
<1>7. ASSUME NEW s \in RewardTokens, NEW amount \in Accruals, Accrue(s, amount)
      PROVE  RewardInv' /\ AllCredited
  BY <1>7, AccrueStep
<1>8. CASE GetRewardFor
  BY <1>8, GetRewardStep
<1>9. CASE ChangeExtraRewards
  BY <1>9, QuietStep DEF ChangeExtraRewards
<1> QED
  BY <1>1, <1>2, <1>3, <1>4, <1>5, <1>6, <1>7, <1>8, <1>9 DEF WrapperNext

\* A new wrapper: nothing is due.
LEMMA RewardInit ==
  ASSUME WrapperInit
  PROVE  RewardInv
<1> DEFINE b == [a \in Accounts |-> 0]
           u == [a \in Accounts |-> NothingClaimable]
           g == NothingHarvested
           f == Dues(b, u, 0)
<1>1. b \in [Accounts -> Nat] /\ \A a \in Accounts : b[a] = 0
  OBVIOUS
<1>3. Staked(b)
  <2>1. SumOver(b, Accounts) = 0
    BY <1>1, Sizes, SumZero
  <2> QED
    BY <1>1, <2>1, Sizes DEF Staked, Stakes
<1>4. NothingHarvested.integral = 0 /\ NothingHarvested.lastCheckpointBalance = 0
  BY DEF NothingHarvested
<1>5. NothingClaimable.integral = 0 /\ NothingClaimable.claimableReward = 0
  BY DEF NothingClaimable
<1>6. \A a \in Accounts : UserData(u[a], 0) /\ DueTo(b[a], u[a], 0) = 0
  <2>1. 0 * IntegralPrecision = 0 /\ MaxStake * 0 = 0
    BY Sizes, SMT
  <2> QED
    BY <1>5, <2>1 DEF UserData, DueTo
<1>7. f \in [Accounts -> Nat] /\ \A a \in Accounts : f[a] = 0
  BY <1>6 DEF Dues
<1>8. SumOver(f, Accounts) = 0
  <2> HIDE DEF f
  <2> QED
    BY <1>7, Sizes, SumZero
<1>9. Covered(b, u, g, 0, 0)
  <2>1. (0 + 0) * IntegralPrecision = 0
    BY Sizes, SMT
  <2> HIDE DEF b, u
  <2> QED
    BY <1>4, <1>6, <1>8, <2>1, Sizes DEF Covered
<1>10. /\ balanceOf = b /\ pending = ByToken(0) /\ accrued = ByToken(0)
       /\ \A t \in RewardTokens :
            /\ user[t] = u /\ total[t] = g /\ held[t] = 0 /\ overcounted[t] = 0
            /\ pending[t] = 0 /\ accrued[t] = 0 /\ paid[t] = b
  BY DEF WrapperInit, ByToken
<1>11. pending \in [RewardTokens -> Nat] /\ accrued \in [RewardTokens -> Nat]
  BY <1>10 DEF ByToken
<1>12. DOMAIN u = Accounts
  OBVIOUS
<1> HIDE DEF b, u, g
<1>13. \A t \in RewardTokens : TokenOK(t, rewardTokens, b, u, g, 0, 0, 0, 0, b)
  BY <1>1, <1>4, <1>9, <1>12, Sizes DEF TokenOK, g
<1> QED
  BY <1>3, <1>10, <1>11, <1>13 DEF RewardInv

LEMMA RewardStutter ==
  ASSUME RewardInv, UNCHANGED wrapperVars
  PROVE  RewardInv'
  BY QuietStep DEF wrapperVars, poolVars

\* The invariant holds throughout.
LEMMA RewardAlways ==
  ASSUME CastsFit
  PROVE  WrapperSpec => []RewardInv
<1>1. WrapperInit => RewardInv
  BY RewardInit
<1>2. RewardInv /\ [WrapperNext]_wrapperVars => RewardInv'
  BY RewardStep, RewardStutter
<1> QED
  BY <1>1, <1>2, PTL DEF WrapperSpec

\* What is earned, as a function of a token's data.
LEMMA EarnedIs ==
  ASSUME NEW t, NEW a
  PROVE  Earned(t, a) = EarnedBy(balanceOf[a], user[t][a], total[t].integral)
  BY DEF Earned, ClaimableAt, ClaimableForIntegralDiff, EarnedBy

LEMMA TotalEarnedIs ==
  ASSUME NEW t
  PROVE  TotalEarned(t) = SumOver([a \in Accounts |-> Earned(t, a)], Accounts)
  BY DEF TotalEarned, SumOver, MapThenSumSet, MapThenFoldSet

\* What is due covers what is earned, which is that, rounded down.
LEMMA CoveredHolds ==
  ASSUME RewardInv
  PROVE  CoveredButForOvercount
<1>1. ASSUME NEW t \in RewardTokens
      PROVE  /\ total[t].lastCheckpointBalance <= held[t]
             /\ TotalEarned(t) <= total[t].lastCheckpointBalance + overcounted[t]
  <2> DEFINE e == [a \in Accounts |-> EarnedBy(balanceOf[a], user[t][a],
                                                total[t].integral)]
  <2>1. /\ Staked(balanceOf)
        /\ Covered(balanceOf, user[t], total[t], held[t], overcounted[t])
    BY DEF RewardInv, TokenOK
  <2>2. SumOver(e, Accounts) <= total[t].lastCheckpointBalance + overcounted[t]
    BY <2>1, TotalCovered
  <2>3. TotalEarned(t) = SumOver([a \in Accounts |-> Earned(t, a)], Accounts)
    BY TotalEarnedIs
  <2>4. [a \in Accounts |-> Earned(t, a)] = e
    BY EarnedIs
  <2>5. total[t].lastCheckpointBalance <= held[t]
    BY <2>1 DEF Covered
  <2> QED
    BY <2>2, <2>3, <2>4, <2>5
<1> QED
  BY <1>1 DEF CoveredButForOvercount

\* For any accounts, tokens, stakes and rewards, and whatever deposits,
\* withdrawals, transfers, claims, pauses and payments of the pool come in
\* whatever order: no balance falls below its checkpoint, so that every
\* checkpoint stays possible, and the checkpointed balance covers what all
\* accounts have earned, but for the balances that __updateHarvestAndClaim
\* counted into the integral without raising the checkpoint.
THEOREM RewardsCoveredButForOvercount ==
  ASSUME CastsFit
  PROVE  WrapperSpec => []CoveredButForOvercount
<1>1. RewardInv => CoveredButForOvercount
  BY CoveredHolds
<1> QED
  BY <1>1, RewardAlways, PTL


\* What any account may claim exceeds what the wrapper holds by no more than what
\* was counted twice.
ShortByOvercount ==
  \A t \in RewardTokens, a \in Accounts : Earned(t, a) <= held[t] + overcounted[t]

LEMMA ShortHolds ==
  ASSUME RewardInv
  PROVE  ShortByOvercount
<1>1. ASSUME NEW t \in RewardTokens, NEW a \in Accounts
      PROVE  Earned(t, a) <= held[t] + overcounted[t]
  <2> DEFINE e == [c \in Accounts |-> Earned(t, c)]
             last == total[t].lastCheckpointBalance
  <2>1. /\ Staked(balanceOf)
        /\ Covered(balanceOf, user[t], total[t], held[t], overcounted[t])
    BY DEF RewardInv, TokenOK
  <2>2. \A c \in Accounts : UserData(user[t][c], total[t].integral)
    BY <2>1 DEF Covered
  <2>3. total[t].integral \in Nat /\ last \in Nat /\ last <= held[t]
        /\ held[t] \in Nat /\ overcounted[t] \in Nat
    BY <2>1 DEF Covered
  <2>4. ASSUME NEW c \in Accounts PROVE Earned(t, c) \in Nat
    <3>1. balanceOf[c] \in Nat /\ balanceOf[c] <= MaxStake
      BY <2>1, StakeFacts
    <3>2. EarnedBy(balanceOf[c], user[t][c], total[t].integral) \in Nat
      BY <2>2, <2>3, <3>1, EarnedFacts
    <3> QED
      BY <3>2, EarnedIs
  <2>5. e \in [Accounts -> Nat] /\ e[a] = Earned(t, a)
    BY <2>4
  <2>6. SumOver(e, Accounts) <= last + overcounted[t]
    <3>1. CoveredButForOvercount
      BY CoveredHolds
    <3>2. TotalEarned(t) = SumOver(e, Accounts)
      BY TotalEarnedIs
    <3> QED
      BY <3>1, <3>2 DEF CoveredButForOvercount
  <2> HIDE DEF e, last
  <2>7. e[a] <= SumOver(e, Accounts) /\ SumOver(e, Accounts) \in Nat
    BY <2>5, Sizes, SumCovers
  <2>8. e[a] \in Nat
    BY <2>5
  <2>9. e[a] <= held[t] + overcounted[t]
    BY <2>3, <2>6, <2>7, <2>8
  <2> QED
    BY <2>5, <2>9
<1> QED
  BY <1>1 DEF ShortByOvercount

\* A claim can only ever fail for lack of a token by what the claims before it
\* left to be counted a second time: whoever is owed a token of which nothing
\* was, is paid in full.
THEOREM ShortOnlyByOvercount ==
  ASSUME CastsFit
  PROVE  WrapperSpec => []ShortByOvercount
<1>1. RewardInv => ShortByOvercount
  BY ShortHolds
<1> QED
  BY <1>1, RewardAlways, PTL

\* What an account gains by a step.
LEMMA CreditFollows ==
  ASSUME NEW b, Staked(b), NEW u, NEW g, NEW h, NEW o, Covered(b, u, g, h, o),
         NEW w \in [Accounts -> Nat],
         NEW b2, NEW u2, NEW g2, NEW w2 \in [Accounts -> Nat],
         Staked(b2), NEW h2, NEW o2, Covered(b2, u2, g2, h2, o2),
         Credited(b, u, g, w, b2, u2, g2, w2), NEW a \in Accounts,
         NEW gain,
         gain = (EarnedBy(b2[a], u2[a], g2.integral) + w2[a])
                  - (EarnedBy(b[a], u[a], g.integral) + w[a]),
         NEW due, due = b[a] * (g2.integral - g.integral)
  PROVE  /\ gain * IntegralPrecision > due - IntegralPrecision
         /\ gain * IntegralPrecision < due + IntegralPrecision
<1> DEFINE i == g.integral
           I == g2.integral
           s == b[a]
           E == EarnedBy(s, u[a], i)
           F == EarnedBy(s, u[a], I)
           G == EarnedBy(b2[a], u2[a], I)
           x == w[a]
           y == w2[a]
<1>1. i \in Nat /\ I \in Nat /\ i <= I /\ UserData(u[a], i) /\ UserData(u2[a], I)
  BY DEF Covered, Credited
<1>2. s \in Nat /\ s <= MaxStake /\ b2[a] \in Nat /\ b2[a] <= MaxStake
  BY StakeFacts
<1>3. UserData(u[a], I)
  BY <1>1 DEF UserData
<1>4. E \in Nat /\ F \in Nat /\ G \in Nat
  BY <1>1, <1>2, <1>3, EarnedFacts
<1>5. G + y = F + x
  BY DEF Credited
<1>6. x \in Nat /\ y \in Nat
  OBVIOUS
<1>7. gain = (G + y) - (E + x)
  OBVIOUS
<1>8. due = s * (I - i)
  OBVIOUS
<1> HIDE DEF E, F, G, x, y, s, i, I
<1>9. gain = F - E
  BY <1>4, <1>5, <1>6, <1>7
<1>10. gain = EarnedBy(s, u[a], I) - EarnedBy(s, u[a], i)
  BY <1>9 DEF E, F
<1> QED
  BY <1>1, <1>2, <1>8, <1>10, EarnedGain

\* What the integral has counted of a token, as a sum that the lemmas are about.
CountedOf(g, w, o) == g.lastCheckpointBalance + SumOver(w, Accounts) + o

LEMMA CountedIs ==
  ASSUME NEW t
  PROVE  /\ Counted(t) = CountedOf(total[t], paid[t], overcounted[t])
         /\ Counted(t)' = CountedOf(total'[t], paid'[t], overcounted'[t])
  BY DEF Counted, CountedOf, SumOver, MapThenSumSet, MapThenFoldSet

\* All stakes together gain no more than what is counted anew.
Counts(t) ==
  (total'[t].integral - total[t].integral) * TotalSupply
    <= (Counted(t)' - Counted(t)) * IntegralPrecision

\* Where the integral and what is counted stay, nothing is gained.
LEMMA NothingCounted ==
  ASSUME RewardInv, NEW t \in RewardTokens,
         total'[t].integral = total[t].integral, NEW more \in Nat,
         Counted(t)' = Counted(t) + more, Counted(t) \in Nat
  PROVE  Counts(t)
<1>1. total[t].integral \in Nat
  BY DEF RewardInv, TokenOK, Covered
<1>2. TotalSupply \in Nat
  <2>1. Staked(balanceOf)
    BY DEF RewardInv
  <2> QED
    BY <2>1, StakeFacts, SupplyIs
<1>3. total'[t].integral - total[t].integral = 0 /\ Counted(t)' - Counted(t) = more
  BY <1>1
<1>4. 0 * TotalSupply = 0
  BY <1>2, SMT
<1>5. more * IntegralPrecision \in Nat
  BY Sizes, Products
<1> QED
  BY <1>3, <1>4, <1>5 DEF Counts

\* What is counted is a number.
LEMMA CountedNat ==
  ASSUME RewardInv, NEW t \in RewardTokens
  PROVE  /\ Counted(t) \in Nat
         /\ SumOver(paid[t], Accounts) \in Nat
         /\ total[t].lastCheckpointBalance \in Nat /\ overcounted[t] \in Nat
         /\ total[t].integral \in Nat
<1>1. /\ paid[t] \in [Accounts -> Nat]
      /\ total[t].lastCheckpointBalance \in Nat /\ overcounted[t] \in Nat
      /\ total[t].integral \in Nat
  BY DEF RewardInv, TokenOK, Covered
<1>2. SumOver(paid[t], Accounts) \in Nat
  BY <1>1, Sizes, SumType
<1> QED
  BY <1>1, <1>2, CountedIs DEF CountedOf

\* The growth of the integral pays out, over all stakes, at most what the step
\* finds beyond the checkpointed balance.
LEMMA GrowthFacts ==
  ASSUME RewardInv, NEW t \in RewardTokens
  PROVE  /\ HeldAfterHarvest(t) - total[t].lastCheckpointBalance \in Nat
         /\ IntegralToAdd(t) \in Nat
         /\ IntegralToAdd(t) * TotalSupply
              <= (HeldAfterHarvest(t) - total[t].lastCheckpointBalance)
                   * IntegralPrecision
<1> DEFINE last == total[t].lastCheckpointBalance
           h == HeldAfterHarvest(t)
<1>1. h \in Nat /\ held[t] <= h /\ held[t] \in Nat
  BY HarvestFacts
<1>2. last \in Nat /\ last <= held[t]
  BY DEF RewardInv, TokenOK, Covered
<1>3. last <= h /\ h - last \in Nat
  BY <1>1, <1>2
<1>4. TotalSupply \in Nat
  <2>1. Staked(balanceOf)
    BY DEF RewardInv
  <2> QED
    BY <2>1, StakeFacts, SupplyIs
<1>5. IntegralToAdd(t) = IntegralForBalDiff(TotalSupply, h, last)
  BY DEF IntegralToAdd
<1> HIDE DEF last, h
<1>6. /\ IntegralForBalDiff(TotalSupply, h, last) \in Nat
      /\ IntegralForBalDiff(TotalSupply, h, last) * TotalSupply
           <= (h - last) * IntegralPrecision
  BY <1>1, <1>2, <1>3, <1>4, IntegralFacts DEF last
<1> QED
  BY <1>3, <1>5, <1>6 DEF last, h

LEMMA CheckpointCounts ==
  ASSUME CastsFit, RewardInv, NEW S, Checkpoint(S), NEW t \in RewardTokens
  PROVE  Counts(t)
<1> DEFINE last == total[t].lastCheckpointBalance
           h == HeldAfterHarvest(t)
           d == IntegralToAdd(t)
<1>1. /\ paid' = paid /\ overcounted' = overcounted
      /\ total'[t] = IF t \in TokensHarvested /\ d > 0
                       THEN [integral |-> (total[t].integral + d) % Uint128,
                             lastCheckpointBalance |-> h % Uint128]
                       ELSE total[t]
  BY DEF Checkpoint
<1>2. /\ Counted(t) \in Nat /\ SumOver(paid[t], Accounts) \in Nat
      /\ last \in Nat /\ overcounted[t] \in Nat /\ total[t].integral \in Nat
  BY CountedNat
<1>3. CASE t \in TokensHarvested /\ d > 0
  <2>1. /\ d \in Nat /\ h - last \in Nat
        /\ d * TotalSupply <= (h - last) * IntegralPrecision
    BY GrowthFacts
  <2>2. /\ total[t].integral + d \in Nat /\ total[t].integral + d < Uint128
        /\ h \in Nat /\ h < Uint128
    <3>1. total[t].integral + d <= MaxIntegral
      BY <1>3, IntegralBounded DEF Checkpoint
    <3>2. h \in Nat /\ h <= MaxRewards
      BY HarvestFacts
    <3> QED
      BY <1>2, <2>1, <3>1, <3>2, Sizes DEF CastsFit
  <2>3. total'[t].integral = total[t].integral + d
          /\ total'[t].lastCheckpointBalance = h
    BY <1>1, <1>3, <2>2, CastFits
  <2>4. Counted(t)' - Counted(t) = h - last
    BY <1>1, <1>2, <2>2, <2>3, CountedIs DEF CountedOf
  <2>5. total'[t].integral - total[t].integral = d
    BY <1>2, <2>1, <2>3
  <2> QED
    BY <2>1, <2>4, <2>5 DEF Counts
<1>4. CASE ~(t \in TokensHarvested /\ d > 0)
  <2>1. total'[t] = total[t]
    BY <1>1, <1>4
  <2>2. Counted(t)' = Counted(t) + 0
    BY <1>1, <1>2, <2>1, CountedIs
  <2> QED
    BY <1>2, <2>1, <2>2, NothingCounted
<1> QED
  BY <1>3, <1>4

LEMMA ClaimCounts ==
  ASSUME CastsFit, RewardInv, NEW who \in Accounts, CheckpointAndClaim(who),
         NEW t \in RewardTokens
  PROVE  Counts(t)
<1> DEFINE last == total[t].lastCheckpointBalance
           h == HeldAfterHarvest(t)
           d == IntegralToAdd(t)
           k == Claimed(t, who)
           left == HeldAfterClaim(t, who)
           kept == CheckpointBalanceAfterClaim(last, left)
           over == IF t \in TokensHarvested /\ d > 0 /\ left > last
                     THEN left - last ELSE 0
<1>1. /\ total'[t] = IF t \in TokensHarvested
                       THEN [integral |-> (total[t].integral + d) % Uint128,
                             lastCheckpointBalance |-> kept]
                       ELSE total[t]
      /\ paid'[t] = IF t \in TokensHarvested THEN [paid[t] EXCEPT ![who] = @ + k]
                     ELSE paid[t]
      /\ overcounted'[t] = overcounted[t] + over
      /\ t \in TokensHarvested => k <= h
  BY DEF CheckpointAndClaim
<1>2. /\ Counted(t) \in Nat /\ SumOver(paid[t], Accounts) \in Nat
      /\ last \in Nat /\ overcounted[t] \in Nat /\ total[t].integral \in Nat
  BY CountedNat
<1>3. CASE t \in TokensHarvested
  <2>1. /\ d \in Nat /\ h - last \in Nat
        /\ d * TotalSupply <= (h - last) * IntegralPrecision
    BY GrowthFacts
  <2>2. /\ total[t].integral + d \in Nat /\ total[t].integral + d < Uint128
        /\ h \in Nat /\ h < Uint128
    <3>1. total[t].integral + d <= MaxIntegral
      BY <1>3, IntegralBounded DEF CheckpointAndClaim
    <3>2. h \in Nat /\ h <= MaxRewards
      BY HarvestFacts
    <3> QED
      BY <1>2, <2>1, <3>1, <3>2, Sizes DEF CastsFit
  <2>3. k \in Nat /\ k <= h /\ left = h - k /\ left \in Nat
    <3>1. Covered(balanceOf, user[t], total[t], held[t], overcounted[t])
            /\ Staked(balanceOf)
      BY DEF RewardInv, TokenOK
    <3>2. UserData(user[t][who], total[t].integral + d)
      BY <1>2, <2>1, <3>1 DEF Covered, UserData
    <3>3. balanceOf[who] \in Nat /\ balanceOf[who] <= MaxStake
      BY <3>1, StakeFacts
    <3>4. EarnedBy(balanceOf[who], user[t][who], total[t].integral + d) \in Nat
      BY <2>2, <3>2, <3>3, EarnedFacts
    <3>5. k = EarnedBy(balanceOf[who], user[t][who], total[t].integral + d)
      BY DEF Claimed, ClaimableAt, ClaimableForIntegralDiff, EarnedBy
    <3>6. left = h - k
      BY <1>3 DEF HeldAfterClaim
    <3> HIDE DEF k, h, left, d
    <3>7. k \in Nat /\ k <= h
      BY <1>1, <1>3, <3>4, <3>5
    <3> QED
      BY <2>2, <3>6, <3>7
  <2>4. SumOver(paid'[t], Accounts) = SumOver(paid[t], Accounts) + k
    <3>1. paid[t] \in [Accounts -> Nat]
      BY DEF RewardInv, TokenOK
    <3>2. paid'[t] = [paid[t] EXCEPT ![who] = @ + k]
      BY <1>1, <1>3
    <3> HIDE DEF k
    <3>3. /\ paid'[t] \in [Accounts -> Nat] /\ paid'[t][who] = paid[t][who] + k
          /\ \A x \in Accounts \ {who} : paid'[t][x] = paid[t][x]
          /\ paid[t][who] \in Nat
      BY <2>3, <3>1, <3>2
    <3>4. SumOver(paid'[t], Accounts)
            = SumOver(paid[t], Accounts) - paid[t][who] + paid'[t][who]
      BY <3>1, <3>3, Sizes, SumChange
    <3> QED
      BY <1>2, <2>3, <3>3, <3>4
  <2>5. kept = IF left < last THEN left ELSE last
    <3> HIDE DEF left, last, h, k
    <3>1. left < Uint128
      BY <2>2, <2>3, Sizes
    <3> QED
      BY <2>3, <3>1, CastFits DEF CheckpointBalanceAfterClaim
  <2>6. total'[t].integral = total[t].integral + d
          /\ total'[t].lastCheckpointBalance = kept
    BY <1>1, <1>3, <2>2, CastFits
  <2>7. Counted(t)' = kept + (SumOver(paid[t], Accounts) + k) + (overcounted[t] + over)
          /\ Counted(t) = last + SumOver(paid[t], Accounts) + overcounted[t]
    BY <1>1, <2>4, <2>6, CountedIs DEF CountedOf
  <2>8. over = IF d > 0 /\ left > last THEN left - last ELSE 0
    BY <1>3
  <2>9. total'[t].integral - total[t].integral = d
    BY <1>2, <2>1, <2>6
  <2> HIDE DEF last, h, d, k, left, kept, over
  <2>10. CASE d > 0
    <3>1. Counted(t)' - Counted(t) = h - last
      BY <1>2, <2>2, <2>3, <2>5, <2>7, <2>8, <2>10
    <3> QED
      BY <2>1, <2>9, <3>1 DEF Counts
  <2>11. CASE ~(d > 0)
    <3> DEFINE more == Counted(t)' - Counted(t)
    <3>1. more \in Nat /\ Counted(t)' = Counted(t) + more
      BY <1>2, <2>1, <2>2, <2>3, <2>5, <2>7, <2>8, <2>11
    <3>2. total'[t].integral = total[t].integral
      BY <1>2, <2>1, <2>6, <2>11
    <3> HIDE DEF more
    <3> QED
      BY <1>2, <3>1, <3>2, NothingCounted
  <2> QED
    BY <2>10, <2>11
<1>4. CASE t \notin TokensHarvested
  <2>1. total'[t] = total[t] /\ paid'[t] = paid[t] /\ overcounted'[t] = overcounted[t]
    BY <1>1, <1>2, <1>4
  <2>2. Counted(t)' = Counted(t) + 0
    BY <1>2, <2>1, CountedIs
  <2> QED
    BY <1>2, <2>1, <2>2, NothingCounted
<1> QED
  BY <1>3, <1>4

\* In every step.
AllCounted == \A t \in RewardTokens : Counts(t)

LEMMA OthersCount ==
  ASSUME RewardInv, UNCHANGED <<total, paid, overcounted>>
  PROVE  AllCounted
<1>1. ASSUME NEW t \in RewardTokens PROVE Counts(t)
  <2>1. Counted(t) \in Nat
    BY CountedNat
  <2>2. Counted(t)' = Counted(t) + 0
    BY <2>1, CountedIs
  <2> QED
    BY <2>1, <2>2, NothingCounted
<1> QED
  BY <1>1 DEF AllCounted

LEMMA StepCounts ==
  ASSUME CastsFit, RewardInv, RewardInv', [WrapperNext]_wrapperVars
  PROVE  AllCounted
<1>1. ASSUME NEW S, Checkpoint(S) PROVE AllCounted
  BY <1>1, CheckpointCounts DEF AllCounted
<1>2. ASSUME NEW who \in Accounts, CheckpointAndClaim(who) PROVE AllCounted
  BY <1>2, ClaimCounts DEF AllCounted
<1>3. ASSUME NEW a \in Accounts, NEW amount \in 1..MaxStake,
             \/ Deposit(a, amount)
             \/ \E claimRewards \in BOOLEAN : Withdraw(a, amount, claimRewards)
             \/ \E to \in Accounts : Transfer(a, to, amount)
      PROVE  AllCounted
  BY <1>1, <1>2, <1>3 DEF Deposit, Withdraw, Transfer
<1>4. ASSUME NEW a \in Accounts, ClaimRewardsFor(a) PROVE AllCounted
  BY <1>2, <1>4 DEF ClaimRewardsFor
<1>5. ASSUME \/ TogglePause \/ AddExtraRewards \/ GetRewardFor \/ ChangeExtraRewards
             \/ \E t \in RewardTokens, amount \in Accruals : Accrue(t, amount)
             \/ UNCHANGED wrapperVars
      PROVE  AllCounted
  BY <1>5, OthersCount
  DEF TogglePause, AddExtraRewards, GetRewardFor, ChangeExtraRewards, Accrue, wrapperVars
<1> QED
  BY <1>3, <1>4, <1>5 DEF WrapperNext

\* What RewardsFollowStakes says of the accounts, and all of it.
AccountsFollow ==
  \A t \in RewardTokens, a \in Accounts :
    LET gain == (Earned(t, a)' + paid'[t][a]) - (Earned(t, a) + paid[t][a])
        due == balanceOf[a] * (total'[t].integral - total[t].integral)
    IN  /\ gain * IntegralPrecision > due - IntegralPrecision
        /\ gain * IntegralPrecision < due + IntegralPrecision

Follows ==
  \A t \in RewardTokens :
    LET growth == total'[t].integral - total[t].integral
    IN  /\ growth * TotalSupply <= (Counted(t)' - Counted(t)) * IntegralPrecision
        /\ \A a \in Accounts :
             LET gain == (Earned(t, a)' + paid'[t][a]) - (Earned(t, a) + paid[t][a])
                 due == balanceOf[a] * growth
             IN  /\ gain * IntegralPrecision > due - IntegralPrecision
                 /\ gain * IntegralPrecision < due + IntegralPrecision

\* To credit everybody with what it had earned is what the property asks.
LEMMA FollowsHolds ==
  ASSUME RewardInv, RewardInv', AllCredited
  PROVE  AccountsFollow
<1>1. ASSUME NEW t \in RewardTokens, NEW a \in Accounts,
             NEW gain,
             gain = (Earned(t, a)' + paid'[t][a]) - (Earned(t, a) + paid[t][a]),
             NEW due,
             due = balanceOf[a] * (total'[t].integral - total[t].integral)
      PROVE  /\ gain * IntegralPrecision > due - IntegralPrecision
             /\ gain * IntegralPrecision < due + IntegralPrecision
  <2>1. Earned(t, a) = EarnedBy(balanceOf[a], user[t][a], total[t].integral)
    BY EarnedIs
  <2>2. Earned(t, a)' = EarnedBy(balanceOf'[a], user'[t][a], total'[t].integral)
    BY DEF Earned, ClaimableAt, ClaimableForIntegralDiff, EarnedBy
  <2>3. /\ Staked(balanceOf)
        /\ Covered(balanceOf, user[t], total[t], held[t], overcounted[t])
        /\ paid[t] \in [Accounts -> Nat]
    BY DEF RewardInv, TokenOK
  <2>4. /\ Staked(balanceOf')
        /\ Covered(balanceOf', user'[t], total'[t], held'[t], overcounted'[t])
        /\ paid'[t] \in [Accounts -> Nat]
    BY DEF RewardInv, TokenOK
  <2>5. Credited(balanceOf, user[t], total[t], paid[t],
                 balanceOf', user'[t], total'[t], paid'[t])
    BY DEF AllCredited
  <2> DEFINE b == balanceOf
             u == user[t]
             g == total[t]
             w == paid[t]
             b2 == balanceOf'
             u2 == user'[t]
             g2 == total'[t]
             w2 == paid'[t]
  <2>6. gain = (EarnedBy(b2[a], u2[a], g2.integral) + w2[a])
                 - (EarnedBy(b[a], u[a], g.integral) + w[a])
    BY <1>1, <2>1, <2>2
  <2>7. due = b[a] * (g2.integral - g.integral)
    BY <1>1
  <2> HIDE DEF b, u, g, w, b2, u2, g2, w2
  <2> QED
    BY <2>3, <2>4, <2>5, <2>6, <2>7, CreditFollows DEF b, u, g, w, b2, u2, g2, w2
<1> QED
  BY <1>1, Zenon DEF AccountsFollow

\* Whatever happens in whatever order, no account gains or loses but what its
\* stake earns by the growth of the integral, up to one unit of rounding: not by
\* moving the stake to another account and back, nor when others deposit, have
\* somebody else checkpointed, or claim for it.  And by the growth of the
\* integral all stakes together gain no more than what came in since the
\* checkpointed balance, once, except for what the history variable
\* overcounted records: what a claim left to be counted again.
THEOREM RewardsFollow ==
  ASSUME CastsFit
  PROVE  WrapperSpec => RewardsFollowStakes
<1>1. RewardInv /\ [WrapperNext]_wrapperVars => RewardInv'
  BY RewardStep, RewardStutter
<1>2. RewardInv /\ RewardInv' /\ [WrapperNext]_wrapperVars => [Follows]_wrapperVars
  <2> SUFFICES ASSUME RewardInv, RewardInv', WrapperNext PROVE Follows
    OBVIOUS
  <2>1. AccountsFollow
    BY RewardStep, FollowsHolds
  <2>2. AllCounted
    BY StepCounts
  <2> QED
    BY <2>1, <2>2, Zenon DEF Follows, AccountsFollow, AllCounted, Counts
<1>3. RewardsFollowStakes <=> [][Follows]_wrapperVars
  BY DEF RewardsFollowStakes, Follows
<1> QED
  BY <1>1, <1>2, <1>3, RewardAlways, PTL DEF WrapperSpec

=============================================================================
