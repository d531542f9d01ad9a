-------------------------- MODULE MC_WalletLedger --------------------------
(* Model checking of WalletLedger on small instances.                      *)
EXTENDS WalletLedger

CONSTANTS a1, a2, k1, k2, k3, k4

MCAmounts == {1, 2}

\* a1 has credit 2, a2 has none (its limit is not looked at).
MCCreditTerms ==
  [a \in {a1, a2} |->
     IF a = a1 THEN [creditEnabled |-> TRUE, creditLimit |-> 2]
               ELSE [creditEnabled |-> FALSE, creditLimit |-> 2]]

BookingDebit(a, k, n) ==
  [agency |-> a, key |-> k, debit |-> n, credit |-> 0, enforceCreditLimit |-> TRUE]
Deposit(a, k, n) ==
  [agency |-> a, key |-> k, debit |-> 0, credit |-> n, enforceCreditLimit |-> FALSE]

\* Two bookings that a1's credit covers one at a time, a deposit, and a
\* booking of a2 under a key that a1 uses too.
MCRequests ==
  {BookingDebit(a1, k1, 2), BookingDebit(a1, k2, 1), Deposit(a1, k3, 1),
   Deposit(a2, k4, 2), BookingDebit(a2, k1, 1)}
=============================================================================
