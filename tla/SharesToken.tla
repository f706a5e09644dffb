---------------------------- MODULE SharesToken ----------------------------
(***************************************************************************)
(* The ERC20 token that a VaultProxy is, as a record s of the balances and *)
(* the total supply, and what the operations of SharesTokenBase make of    *)
(* it.  Transactions apply several of them in turn.                        *)
(***************************************************************************)
EXTENDS Naturals

Mint(s, account, amount) ==
  [balanceOf |-> [s.balanceOf EXCEPT ![account] = @ + amount],
   totalSupply |-> s.totalSupply + amount]

\* Neither subtraction of a burn may underflow.
Burnable(s, account, amount) ==
  amount <= s.balanceOf[account] /\ amount <= s.totalSupply

Burn(s, account, amount) ==
  [balanceOf |-> [s.balanceOf EXCEPT ![account] = @ - amount],
   totalSupply |-> s.totalSupply - amount]

Transfer(s, sender, recipient, amount) ==
  LET debited == [s.balanceOf EXCEPT ![sender] = @ - amount]
  IN  [balanceOf |-> [debited EXCEPT ![recipient] = @ + amount],
       totalSupply |-> s.totalSupply]
=============================================================================
