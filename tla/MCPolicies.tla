------------------------------ MODULE MCPolicies ------------------------------
(* Instances of Policies small enough for TLC. *)
EXTENDS Policies, TLC

\* A policy of a third party on two hooks, one of which restricts investors.
ThirdParty ==
  Policy("THIRD_PARTY", {"PostBuyShares", "PreTransferShares"}, FALSE)

ThreePolicies ==
  {CumulativeSlippageTolerance, AllowedSharesTransferRecipients, ThirdParty}
ASSUME MostlyOfficial == ThreePolicies \subseteq OfficialPolicies \cup {ThirdParty}
\* Every policy there is has hooks that the PolicyManager knows.
ASSUME HooksKnown == \A p \in OfficialPolicies : p.hooks \subseteq Hooks
WithOrWithoutTransferRecipients ==
  {{CumulativeSlippageTolerance},
   {AllowedSharesTransferRecipients}}

\* From the asset listed first to the one listed second.
Exchange(from, to, out, in) ==
  [spend |-> [a \in Assets |-> IF a = from THEN out ELSE 0],
   incoming |-> [a \in Assets |-> IF a = to THEN in ELSE 0]]
SomeTrades ==
  {Exchange(a, b, 3, in) : <<a, b>> \in {p \in Assets \X Assets : p[1] # p[2]},
                           in \in {1, 2}}

ComptrollerSymmetry == Permutations(Comptrollers)
===============================================================================
