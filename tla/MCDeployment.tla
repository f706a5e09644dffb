----------------------------- MODULE MCDeployment -----------------------------
(* The repository's own scripts on the networks of hardhat.config.ts: the in-process
   copy of the main network, "mainnet", "matic", and "testnet", whose chain has no
   configuration. *)
EXTENDS HardhatDeploy, Deployment

AllNetworks ==
  {[chain |-> "homestead", live |-> TRUE], [chain |-> "homestead", live |-> FALSE],
   [chain |-> "matic", live |-> TRUE], [chain |-> "other", live |-> TRUE]}
Mainnet == {[chain |-> "homestead", live |-> TRUE]}
=============================================================================
