---------------------------- MODULE StakingWrapper ----------------------------
(***************************************************************************)
(* StakingWrapperBase and ConvexCurveLpStakingWrapperLib: a token for      *)
(* stakes in a pool of Convex, whose rewards the wrapper harvests and      *)
(* shares out among the holders.  The pool, which owes the wrapper rewards *)
(* in some tokens and pays all of them when asked, is external.            *)
(*                                                                         *)
(* A transaction is one step.  Who may withdraw for whom (allowances) is   *)
(* left out, as are the names of the token and its decimals.  Reward       *)
(* tokens move what they are told to move.                                 *)
(*                                                                         *)
(* The specification and its parts have names of their own, so that a      *)
(* module may extend this one and another component.                       *)
(***************************************************************************)
EXTENDS Integers, FiniteSetsExt

CONSTANTS
  Accounts,          \* holders of stakes
  RewardTokens,      \* every token the pool ever pays rewards in
  BaseRewards,       \* CRV_TOKEN and CVX_TOKEN
  IntegralPrecision, \* INTEGRAL_PRECISION
  Uint128,           \* 2^128
  MaxStake,          \* bound on the total supply
  Accruals,          \* the rewards that may accrue at once
  MaxRewards,        \* bound on the rewards of a token that ever accrue
  MaxIntegral        \* bound on the integrals

ASSUME BaseRewardsAssumption == BaseRewards \subseteq RewardTokens
ASSUME PrecisionAssumption == IntegralPrecision \in Nat \ {0}
ASSUME Uint128Assumption == Uint128 \in Nat \ {0}
ASSUME StakesAssumption ==
  /\ IsFiniteSet(Accounts)
  /\ MaxStake \in Nat /\ MaxRewards \in Nat /\ MaxIntegral \in Nat
  /\ Accruals \subseteq Nat

VARIABLES
  balanceOf,     \* stakes, by account
  paused,
  rewardTokens,  \* the reward tokens the wrapper has on its list
  total,         \* by token: the wrapper's TotalHarvestData
  user,          \* by token and account: UserHarvestData
  held,          \* by token: what the wrapper holds
  \* The pool of Convex
  pending,       \* by token: what the pool owes the wrapper
  extraRewards,  \* the extra reward tokens the pool pays now
  \* History
  accrued,       \* by token: what has ever accrued
  paid,          \* by token and account: what has been claimed
  overcounted    \* by token: rewards that came to be counted a second time

wrapperVars == <<balanceOf, paused, rewardTokens, total, user, held, pending,
          extraRewards, accrued, paid, overcounted>>
poolVars == <<extraRewards, accrued>>

TotalSupply == MapThenSumSet(LAMBDA a : balanceOf[a], Accounts)

NothingHarvested == [integral |-> 0, lastCheckpointBalance |-> 0]
NothingClaimable == [integral |-> 0, claimableReward |-> 0]
ByToken(value) == [t \in RewardTokens |-> value]

\* A wrapper as init leaves it: the pool's reward tokens are on its list.
WrapperInit ==
  /\ balanceOf = [a \in Accounts |-> 0]
  /\ paused = FALSE
  /\ extraRewards \in SUBSET (RewardTokens \ BaseRewards)
  /\ rewardTokens = BaseRewards \cup extraRewards
  /\ total = ByToken(NothingHarvested)
  /\ user = ByToken([a \in Accounts |-> NothingClaimable])
  /\ held = ByToken(0)
  /\ pending = ByToken(0)
  /\ accrued = ByToken(0)
  /\ paid = ByToken([a \in Accounts |-> 0])
  /\ overcounted = ByToken(0)

-----------------------------------------------------------------------------
(* Harvest. *)

\* __harvestRewardsLogic, which a pause skips: addExtraRewards, then
\* getReward, which pays what the pool owes in the tokens it pays now.
TokensHarvested ==
  IF paused THEN rewardTokens ELSE rewardTokens \cup extraRewards
Harvested(t) ==
  IF ~paused /\ t \in BaseRewards \cup extraRewards THEN pending[t] ELSE 0
HeldAfterHarvest(t) == held[t] + Harvested(t)

\* [Mutant: the whole balance is counted.]
IntegralForWholeBalance(supply, currentBalance, lastCheckpointBalance) ==
  IF supply > 0 THEN (currentBalance * IntegralPrecision) \div supply ELSE 0

IntegralForBalDiff(supply, currentBalance, lastCheckpointBalance) ==
  IF supply > 0
    THEN ((currentBalance - lastCheckpointBalance) * IntegralPrecision)
           \div supply
    ELSE 0

IntegralToAdd(t) ==
  IntegralForBalDiff(TotalSupply, HeldAfterHarvest(t),
                     total[t].lastCheckpointBalance)

\* The subtraction of the checkpointed balance does not underflow (and the
\* integral stays within its bound).
Checkpointable ==
  TotalSupply > 0 =>
    \A t \in TokensHarvested :
      /\ HeldAfterHarvest(t) >= total[t].lastCheckpointBalance
      /\ total[t].integral + IntegralToAdd(t) <= MaxIntegral

\* __calcClaimableRewardForIntegralDiff
ClaimableForIntegralDiff(a, totalIntegral, userIntegral) ==
  (balanceOf[a] * (totalIntegral - userIntegral)) \div IntegralPrecision

\* What the account may claim at a total integral.
ClaimableAt(t, a, totalIntegral) ==
  user[t][a].claimableReward
    + IF user[t][a].integral < totalIntegral
        THEN ClaimableForIntegralDiff(a, totalIntegral, user[t][a].integral)
        ELSE 0

\* UserHarvestData of the account at a total integral, with so much left to
\* claim.
UserAt(t, a, totalIntegral, claimable) ==
  [integral |-> IF user[t][a].integral < totalIntegral
                  THEN totalIntegral % Uint128 ELSE user[t][a].integral,
   claimableReward |-> claimable % Uint128]

-----------------------------------------------------------------------------
(* Checkpoints. *)

\* __checkpoint: __updateHarvest of every reward token for the accounts.
Checkpoint(accounts) ==
  /\ Checkpointable
  /\ rewardTokens' = TokensHarvested
  /\ held' = [t \in RewardTokens |-> HeldAfterHarvest(t)]
  /\ pending' = [t \in RewardTokens |-> pending[t] - Harvested(t)]
  /\ total' = [t \in RewardTokens |->
       IF t \in TokensHarvested /\ IntegralToAdd(t) > 0
         THEN [integral |->
                 (total[t].integral + IntegralToAdd(t)) % Uint128,
               lastCheckpointBalance |-> HeldAfterHarvest(t) % Uint128]
         ELSE total[t]]
  /\ user' = [t \in RewardTokens |-> [a \in Accounts |->
       LET integral == total[t].integral + IntegralToAdd(t)
       IN  IF t \in TokensHarvested /\ a \in accounts
             THEN UserAt(t, a, integral, ClaimableAt(t, a, integral))
             ELSE user[t][a]]]
  /\ UNCHANGED <<paid, overcounted>>

\* What __updateHarvestAndClaim pays the account.
Claimed(t, a) == ClaimableAt(t, a, total[t].integral + IntegralToAdd(t))
HeldAfterClaim(t, a) ==
  HeldAfterHarvest(t) - IF t \in TokensHarvested THEN Claimed(t, a) ELSE 0

\* The claim lowers the checkpointed balance to what is left, and leaves it
\* alone when more is left.
\* [Mutant: it leaves it alone.]
CheckpointBalanceKept(last, finalBal) == last
CheckpointBalanceAfterClaim(last, finalBal) ==
  IF finalBal < last THEN finalBal % Uint128 ELSE last

\* __checkpointAndClaim: __updateHarvestAndClaim of every reward token, to
\* the account.  It reverts when the wrapper does not hold what it owes.
CheckpointAndClaim(account) ==
  /\ Checkpointable
  /\ \A t \in TokensHarvested : Claimed(t, account) <= HeldAfterHarvest(t)
  /\ rewardTokens' = TokensHarvested
  /\ held' = [t \in RewardTokens |-> HeldAfterClaim(t, account)]
  /\ pending' = [t \in RewardTokens |-> pending[t] - Harvested(t)]
  /\ total' = [t \in RewardTokens |->
       IF t \in TokensHarvested
         THEN [integral |->
                 (total[t].integral + IntegralToAdd(t)) % Uint128,
               lastCheckpointBalance |->
                 CheckpointBalanceAfterClaim(total[t].lastCheckpointBalance,
                                             HeldAfterClaim(t, account))]
         ELSE total[t]]
  /\ user' = [t \in RewardTokens |->
       IF t \in TokensHarvested
         THEN [user[t] EXCEPT ![account] =
                 UserAt(t, account, total[t].integral + IntegralToAdd(t), 0)]
         ELSE user[t]]
  /\ paid' = [t \in RewardTokens |->
       IF t \in TokensHarvested
         THEN [paid[t] EXCEPT ![account] = @ + Claimed(t, account)]
         ELSE paid[t]]
  /\ overcounted' = [t \in RewardTokens |->
       overcounted[t]
         + IF /\ t \in TokensHarvested
              /\ IntegralToAdd(t) > 0
              /\ HeldAfterClaim(t, account) > total[t].lastCheckpointBalance
             THEN HeldAfterClaim(t, account) - total[t].lastCheckpointBalance
             ELSE 0]

-----------------------------------------------------------------------------
(* The wrapper's operations. *)

\* deposit and depositTo.
Deposit(to, amount) ==
  /\ ~paused
  /\ TotalSupply + amount <= MaxStake
  /\ Checkpoint({to})
  /\ balanceOf' = [balanceOf EXCEPT ![to] = @ + amount]
  /\ UNCHANGED <<paused, poolVars>>

\* withdraw, withdrawTo and withdrawToOnBehalf: who receives the stake is
\* no part of the state.
Withdraw(from, amount, claimRewards) ==
  /\ amount <= balanceOf[from]
  /\ IF claimRewards THEN CheckpointAndClaim(from) ELSE Checkpoint({from})
  /\ balanceOf' = [balanceOf EXCEPT ![from] = @ - amount]
  /\ UNCHANGED <<paused, poolVars>>

\* The balances after a transfer, of which the recipient may be the sender.
Moved(from, to, amount) ==
  LET debited == [balanceOf EXCEPT ![from] = @ - amount]
  IN  [debited EXCEPT ![to] = @ + amount]

\* _transfer
\* [Mutant: only the recipient's rewards are checkpointed.]
TransferCheckpointingRecipient(from, to, amount) ==
  /\ amount <= balanceOf[from]
  /\ Checkpoint({to})
  /\ balanceOf' = Moved(from, to, amount)
  /\ UNCHANGED <<paused, poolVars>>
Transfer(from, to, amount) ==
  /\ amount <= balanceOf[from]
  /\ Checkpoint({from, to})
  /\ balanceOf' = Moved(from, to, amount)
  /\ UNCHANGED <<paused, poolVars>>

\* Anybody claims for anybody.
ClaimRewardsFor(account) ==
  /\ CheckpointAndClaim(account)
  /\ UNCHANGED <<balanceOf, paused, poolVars>>

TogglePause ==
  /\ paused' = ~paused
  /\ UNCHANGED <<balanceOf, rewardTokens, total, user, held, pending,
                 poolVars, paid, overcounted>>

AddExtraRewards ==
  /\ ~(extraRewards \subseteq rewardTokens)
  /\ rewardTokens' = rewardTokens \cup extraRewards
  /\ UNCHANGED <<balanceOf, paused, total, user, held, pending, poolVars,
                 paid, overcounted>>

-----------------------------------------------------------------------------
(* The pool of Convex. *)

\* Rewards accrue while the wrapper has a stake.
Accrue(t, amount) ==
  /\ TotalSupply > 0
  /\ t \in BaseRewards \cup extraRewards
  /\ accrued[t] + amount <= MaxRewards
  /\ pending' = [pending EXCEPT ![t] = @ + amount]
  /\ accrued' = [accrued EXCEPT ![t] = @ + amount]
  /\ UNCHANGED <<balanceOf, paused, rewardTokens, total, user, held,
                 extraRewards, paid, overcounted>>

\* Anybody may have the pool pay the wrapper: getReward(account).
GetRewardFor ==
  /\ \E t \in BaseRewards \cup extraRewards : pending[t] > 0
  /\ held' = [t \in RewardTokens |->
       IF t \in BaseRewards \cup extraRewards
         THEN held[t] + pending[t] ELSE held[t]]
  /\ pending' = [t \in RewardTokens |->
       IF t \in BaseRewards \cup extraRewards THEN 0 ELSE pending[t]]
  /\ UNCHANGED <<balanceOf, paused, rewardTokens, total, user, poolVars,
                 paid, overcounted>>

\* The pool gets new extra rewards and loses old ones.
ChangeExtraRewards ==
  /\ extraRewards' \in SUBSET (RewardTokens \ BaseRewards) \ {extraRewards}
  /\ UNCHANGED <<balanceOf, paused, rewardTokens, total, user, held, pending,
                 accrued, paid, overcounted>>

WrapperNext ==
  \/ \E a \in Accounts, amount \in 1..MaxStake :
       \/ Deposit(a, amount)
       \/ \E claimRewards \in BOOLEAN : Withdraw(a, amount, claimRewards)
       \/ \E to \in Accounts : Transfer(a, to, amount)
  \/ \E a \in Accounts : ClaimRewardsFor(a)
  \/ TogglePause
  \/ AddExtraRewards
  \/ \E t \in RewardTokens, amount \in Accruals : Accrue(t, amount)
  \/ GetRewardFor
  \/ ChangeExtraRewards

WrapperSpec == WrapperInit /\ [][WrapperNext]_wrapperVars

-----------------------------------------------------------------------------
(* Properties. *)

\* What an account could claim of a token at the last checkpoint.
Earned(t, a) == ClaimableAt(t, a, total[t].integral)
TotalEarned(t) == MapThenSumSet(LAMBDA a : Earned(t, a), Accounts)

\* The rewards of a token that the integral has counted: those that are still
\* in the checkpointed balance, those paid out, and what was counted twice.
Counted(t) ==
  total[t].lastCheckpointBalance + MapThenSumSet(LAMBDA a : paid[t][a], Accounts)
    + overcounted[t]

\* Rewards follow stakes: whoever deposits, withdraws, transfers or claims,
\* in whatever order, and whoever's data are brought up to date by it, what
\* an account gains by a step is its stake before the step times the growth of
\* the integral, up to one unit of rounding, and what it claims is what it
\* gives up of its earnings.  The integral grows so far that all stakes
\* together gain no more than what the step counts: what has come in since
\* the checkpointed balance, once, but for what is recorded as overcounted.
RewardsFollowStakes ==
  [][\A t \in RewardTokens :
       LET growth == total'[t].integral - total[t].integral
       IN  /\ growth * TotalSupply <= (Counted(t)' - Counted(t)) * IntegralPrecision
           /\ \A a \in Accounts :
                LET gain == (Earned(t, a)' + paid'[t][a]) - (Earned(t, a) + paid[t][a])
                    due == balanceOf[a] * growth
                IN  /\ gain * IntegralPrecision > due - IntegralPrecision
                    /\ gain * IntegralPrecision < due + IntegralPrecision]_wrapperVars

\* Checkpoints stay possible, and with them every deposit and transfer and
\* every withdrawal without a claim: no balance falls below its checkpoint.
\* What is earned is covered by the checkpointed balance but for what was
\* counted twice: __updateHarvestAndClaim counts a balance into the integral
\* and does not raise the checkpoint, so that what the claim leaves is counted
\* again, and a later claim may lack as much.
CoveredButForOvercount ==
  \A t \in RewardTokens :
    /\ total[t].lastCheckpointBalance <= held[t]
    /\ TotalEarned(t) <= total[t].lastCheckpointBalance + overcounted[t]

\* A claim pays all rewards of an account (claimRewardsFor: "Claims all
\* rewards for a given account"), so the wrapper holds them.
RewardsHeld ==
  \A t \in RewardTokens, a \in Accounts : Earned(t, a) <= held[t]
===============================================================================
