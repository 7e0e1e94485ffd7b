---------------------------- MODULE BlockContext ----------------------------
(***************************************************************************)
(* What every contract of ArgusChain shares with the chain it runs on: the *)
(* accounts that sign transactions, the zero address, and block.timestamp. *)
(* A transaction is one atomic step of the model.  A call that reverts     *)
(* changes nothing, so a revert is an action whose guard is false.         *)
(***************************************************************************)
EXTENDS Naturals

CONSTANTS
  Address,      \* the accounts that may send a transaction
  NoAddress,    \* address(0)
  MaxTime       \* bound: the last block time that is explored

ASSUME AddressAssumption == NoAddress \notin Address
ASSUME MaxTimeAssumption == MaxTime \in Nat \ {0}

VARIABLE now    \* block.timestamp of the block under construction

AnyAddress == Address \cup {NoAddress}

\* A later block has a later timestamp; several transactions may share one.
Tick ==
  /\ now < MaxTime
  /\ now' = now + 1
=============================================================================
