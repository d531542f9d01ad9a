------------------------------ MODULE Ledger -------------------------------
(***************************************************************************)
(* What an agency wallet promises (wallet.service.ts, the comment on       *)
(* WalletService): every change of a balance is one ledger entry made      *)
(* together with it, an idempotency key is applied at most once, and an    *)
(* entry that enforces the credit limit is refused rather than posted past *)
(* the agency's floor.  Posting is atomic here; WalletLedger shows how the *)
(* code carries it out.                                                    *)
(***************************************************************************)
EXTENDS Integers, Sequences

CONSTANTS
  Agencies,    \* b2b agencies, at most one wallet each
  Keys,        \* idempotency keys
  Amounts,     \* amounts in minor units, after round2
  CreditTerms  \* CreditTerms[a]: credit_enabled and credit_limit of agency a

ASSUME LedgerAssumption ==
  /\ Amounts \subseteq Nat
  /\ CreditTerms \in [Agencies -> [creditEnabled : BOOLEAN, creditLimit : Nat]]

VARIABLES
  wallets,   \* the agencies that have a wallet row
  balance,   \* wallets.balance; 0 while there is no row
  ledger     \* ledger[a]: the wallet_transactions rows of a's wallet, in commit order

ledgerVars == <<wallets, balance, ledger>>

\* One ledger entry as a caller asks for it: money moves in one direction.
Entry ==
  {e \in [agency : Agencies, key : Keys, debit : Amounts \cup {0},
          credit : Amounts \cup {0}, enforceCreditLimit : BOOLEAN] :
     e.debit = 0 \/ e.credit = 0}

Row ==
  [key : Keys, debit : Amounts \cup {0}, credit : Amounts \cup {0},
   enforceCreditLimit : BOOLEAN, previousBalance : Int, newBalance : Int]

\* The lowest balance the credit terms of agency a allow.
Floor(a) ==
  IF CreditTerms[a].creditEnabled THEN -CreditTerms[a].creditLimit ELSE 0

\* Mutant: a credit is taken off the balance.
CreditSubtracted(previous, e) == previous - e.debit - e.credit

BalanceAfter(previous, e) == previous - e.debit + e.credit

\* Mutant: the limit counts even if the agency has no credit.
LimitAlwaysCounts(e, newBalance) ==
  e.enforceCreditLimit => newBalance >= -CreditTerms[e.agency].creditLimit

WithinTerms(e, newBalance) ==
  e.enforceCreditLimit => newBalance >= Floor(e.agency)

RowOf(e, previous) ==
  [key |-> e.key, debit |-> e.debit, credit |-> e.credit,
   enforceCreditLimit |-> e.enforceCreditLimit,
   previousBalance |-> previous, newBalance |-> BalanceAfter(previous, e)]

KeyUsed(k) == \E a \in Agencies : \E i \in DOMAIN ledger[a] : ledger[a][i].key = k

Init ==
  /\ wallets = {}
  /\ balance = [a \in Agencies |-> 0]
  /\ ledger = [a \in Agencies |-> <<>>]

OpenWallet(a) ==
  /\ a \notin wallets
  /\ wallets' = wallets \cup {a}
  /\ UNCHANGED <<balance, ledger>>

Post(e) ==
  /\ e.agency \in wallets
  /\ ~KeyUsed(e.key)
  /\ WithinTerms(e, BalanceAfter(balance[e.agency], e))
  /\ balance' = [balance EXCEPT ![e.agency] = BalanceAfter(@, e)]
  /\ ledger' = [ledger EXCEPT ![e.agency] = Append(@, RowOf(e, balance[e.agency]))]
  /\ UNCHANGED wallets

Next ==
  \/ \E a \in Agencies : OpenWallet(a)
  \/ \E e \in Entry : Post(e)

Spec == Init /\ [][Next]_ledgerVars
=============================================================================
