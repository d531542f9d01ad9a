---------------------------- MODULE WalletLedger ----------------------------
(***************************************************************************)
(* WalletService.applyTransaction, statement by statement, for any number  *)
(* of concurrent calls on any number of agencies.  Each call is one        *)
(* PostgreSQL transaction at READ COMMITTED (the code sets no isolation    *)
(* level and takes no explicit lock):                                      *)
(*   - a read sees the rows committed before it;                           *)
(*   - the UPDATE of the wallet row takes its row lock until the end of    *)
(*     the transaction and writes the balance computed from the read;      *)
(*   - the INSERT of the ledger row waits for another transaction that has *)
(*     inserted the same idempotency key and fails if that one committed;  *)
(*   - nothing is seen by others before the commit.                        *)
(* The callers (debitForBooking, creditForBooking, their hotel forms and   *)
(* adminAdjust) differ only in the entry they ask for.                     *)
(***************************************************************************)
EXTENDS Ledger, Totals

CONSTANTS
  Workers,   \* API calls that can be inside applyTransaction at a time
  Requests,  \* the entries callers ask for; two calls with one key are a retry
  NoInput    \* no call

ASSUME RequestsAssumption == Requests \subseteq Entry /\ NoInput \notin Requests

\* Every caller that debits enforces the credit limit: the bookings, and an
\* administrator's adjustment when it is a debit.
ASSUME DebitsEnforceLimit ==
  \A e \in Requests : e.debit > 0 => e.enforceCreditLimit

VARIABLES
  pc,        \* pc[w]: the next statement of the transaction of w, or "idle"
  input,     \* input[w]: the ApplyTransactionInput of the call
  previousBalance,   \* previousBalance[w]: the balance that w read
  newBalance         \* newBalance[w]: the balance that w computed from it

local == <<pc, input, previousBalance, newBalance>>
walletVars == <<wallets, balance, ledger, pc, input, previousBalance, newBalance>>

WInit ==
  /\ Init
  /\ pc = [w \in Workers |-> "idle"]
  /\ input = [w \in Workers |-> NoInput]
  /\ previousBalance = [w \in Workers |-> 0]
  /\ newBalance = [w \in Workers |-> 0]

\* The transaction of w is over: committed, refused or rolled back.
End(w) ==
  /\ pc' = [pc EXCEPT ![w] = "idle"]
  /\ input' = [input EXCEPT ![w] = NoInput]
  /\ previousBalance' = [previousBalance EXCEPT ![w] = 0]
  /\ newBalance' = [newBalance EXCEPT ![w] = 0]

\* getOrCreateWallet: agencyId is unique, so of two concurrent creations the
\* second fails and leaves the first in place.
GetOrCreateWallet(a) ==
  /\ OpenWallet(a)
  /\ UNCHANGED local

\* A call and its first statement, the look-up of the idempotency key, when
\* the key is new.
Begin(w, e) ==
  /\ pc[w] = "idle"
  /\ ~KeyUsed(e.key)
  /\ pc' = [pc EXCEPT ![w] = "read"]
  /\ input' = [input EXCEPT ![w] = e]
  /\ UNCHANGED <<ledgerVars, previousBalance, newBalance>>

\* The look-up finds the key: the call returns that row and changes nothing.
ReturnExisting(w, e) ==
  /\ pc[w] = "idle"
  /\ KeyUsed(e.key)
  /\ UNCHANGED walletVars

\* The wallet is read, the new balance computed and the credit floor checked.
ReadWallet(w) ==
  LET e == input[w]
      before == balance[e.agency]
      after == BalanceAfter(before, e)
  IN /\ pc[w] = "read"
     /\ e.agency \in wallets
     /\ WithinTerms(e, after)
     /\ pc' = [pc EXCEPT ![w] = "update"]
     /\ previousBalance' = [previousBalance EXCEPT ![w] = before]
     /\ newBalance' = [newBalance EXCEPT ![w] = after]
     /\ UNCHANGED <<ledgerVars, input>>

\* Mutant: a call for a missing wallet waits for it to be made.
RefuseOnlyFunds(w) ==
  /\ pc[w] = "read"
  /\ input[w].agency \in wallets
  /\ ~WithinTerms(input[w], BalanceAfter(balance[input[w].agency], input[w]))
  /\ End(w)
  /\ UNCHANGED ledgerVars

\* NotFoundException, or InsufficientFundsError: the transaction rolls back.
Refuse(w) ==
  LET e == input[w]
      before == balance[e.agency]
  IN /\ pc[w] = "read"
     /\ \/ e.agency \notin wallets
        \/ ~WithinTerms(e, BalanceAfter(before, e))
     /\ End(w)
     /\ UNCHANGED ledgerVars

\* w holds the row lock of its agency's wallet.
HoldsWallet(w) == pc[w] \in {"insert", "commit"}

\* Mutant: the UPDATE is not part of the transaction.
UpdateAtOnce(w) ==
  /\ pc[w] = "update"
  /\ balance' = [balance EXCEPT ![input[w].agency] = newBalance[w]]
  /\ pc' = [pc EXCEPT ![w] = "insert"]
  /\ UNCHANGED <<wallets, ledger, input, previousBalance, newBalance>>

\* prisma wallet.update: waits for the row lock, then writes newBalance.
UpdateWallet(w) ==
  /\ pc[w] = "update"
  /\ \A v \in Workers : HoldsWallet(v) => input[v].agency # input[w].agency
  /\ pc' = [pc EXCEPT ![w] = "insert"]
  /\ UNCHANGED <<ledgerVars, input, previousBalance, newBalance>>

\* w has inserted its ledger row and not ended.
HoldsKey(w) == pc[w] = "commit"

\* Mutant: no unique index; the look-up alone guards the key.
InsertUnindexed(w) ==
  /\ pc[w] = "insert"
  /\ pc' = [pc EXCEPT ![w] = "commit"]
  /\ UNCHANGED <<ledgerVars, input, previousBalance, newBalance>>

\* prisma walletTransaction.create, with its unique index on the key.
InsertRow(w) ==
  /\ pc[w] = "insert"
  /\ ~KeyUsed(input[w].key)
  /\ \A v \in Workers : HoldsKey(v) => input[v].key # input[w].key
  /\ pc' = [pc EXCEPT ![w] = "commit"]
  /\ UNCHANGED <<ledgerVars, input, previousBalance, newBalance>>

\* Mutant: the row is rejected, the balance it came with stays.
ConflictKeepsUpdate(w) ==
  /\ pc[w] = "insert"
  /\ KeyUsed(input[w].key)
  /\ balance' = [balance EXCEPT ![input[w].agency] = newBalance[w]]
  /\ End(w)
  /\ UNCHANGED <<wallets, ledger>>

\* The key was committed by another transaction since the look-up: the
\* unique index rejects the row and the whole transaction rolls back.
KeyConflict(w) ==
  /\ pc[w] = "insert"
  /\ KeyUsed(input[w].key)
  /\ End(w)
  /\ UNCHANGED ledgerVars

\* Mutant: the ledger row is the bare input.
CommitInput(w) ==
  /\ pc[w] = "commit"
  /\ balance' = [balance EXCEPT ![input[w].agency] = newBalance[w]]
  /\ ledger' = [ledger EXCEPT ![input[w].agency] = Append(@, input[w])]
  /\ End(w)
  /\ UNCHANGED wallets

\* Balance and ledger row become visible together.
Commit(w) ==
  LET e == input[w]
      row == [key |-> e.key, debit |-> e.debit, credit |-> e.credit,
              enforceCreditLimit |-> e.enforceCreditLimit,
              previousBalance |-> previousBalance[w], newBalance |-> newBalance[w]]
  IN /\ pc[w] = "commit"
     /\ balance' = [balance EXCEPT ![e.agency] = newBalance[w]]
     /\ ledger' = [ledger EXCEPT ![e.agency] = Append(@, row)]
     /\ End(w)
     /\ UNCHANGED wallets

\* The transaction ends without a commit: Prisma's interactive-transaction
\* timeout, a lost connection, a crash of the API process.
Rollback(w) ==
  /\ pc[w] # "idle"
  /\ End(w)
  /\ UNCHANGED ledgerVars

\* What w does by itself once its call has begun.
Step(w) ==
  \/ ReadWallet(w)
  \/ Refuse(w)
  \/ UpdateWallet(w)
  \/ InsertRow(w)
  \/ KeyConflict(w)
  \/ Commit(w)

WNext ==
  \/ \E a \in Agencies : GetOrCreateWallet(a)
  \/ \E w \in Workers :
       \/ \E e \in Requests : Begin(w, e) \/ ReturnExisting(w, e)
       \/ Step(w)
       \/ Rollback(w)

WSpec == WInit /\ [][WNext]_walletVars

\* The database runs every statement that can run, and a row lock is granted
\* in the order it was asked for, so that a statement that waits for a lock
\* is not overtaken for ever.
FairSpec == WSpec /\ \A w \in Workers : SF_walletVars(Step(w))

\* The same service when no two calls on one agency overlap.  Nothing in the
\* code enforces it: it is the condition under which the promise holds.
NoOverlap ==
  \A v, w \in Workers :
    v # w /\ pc[v] # "idle" /\ pc[w] # "idle" => input[v].agency # input[w].agency
SerialSpec == WInit /\ [][WNext /\ NoOverlap']_walletVars
-----------------------------------------------------------------------------
(* Properties.                                                             *)

Pcs == {"idle", "read", "update", "insert", "commit"}

WTypeOK ==
  /\ wallets \in SUBSET Agencies
  /\ balance \in [Agencies -> Int]
  /\ ledger \in [Agencies -> Seq(Row)]
  /\ pc \in [Workers -> Pcs]
  /\ input \in [Workers -> Requests \cup {NoInput}]
  /\ previousBalance \in [Workers -> Int]
  /\ newBalance \in [Workers -> Int]

\* "The unique constraint is what actually prevents a double-debit on retry":
\* over all wallets no two ledger rows carry one idempotency key, however
\* calls, retries, failures and rollbacks interleave.
KeyAppliedOnce ==
  \A a, b \in Agencies : \A i \in DOMAIN ledger[a], j \in DOMAIN ledger[b] :
    ledger[a][i].key = ledger[b][j].key => a = b /\ i = j

\* Each row adds up by itself, and no row of a call that enforces the credit
\* limit records a balance below the agency's floor.
RowsAddUp ==
  \A a \in Agencies : \A i \in DOMAIN ledger[a] :
    LET row == ledger[a][i]
    IN /\ row.newBalance = row.previousBalance - row.debit + row.credit
       /\ row.enforceCreditLimit => row.newBalance >= Floor(a)

\* The balance column never gets ahead of, or behind, the ledger: it is the new
\* balance of the newest committed row (0 when there is none).
BalanceIsLastRow ==
  \A a \in Agencies :
    balance[a] = IF ledger[a] = <<>> THEN 0 ELSE ledger[a][Len(ledger[a])].newBalance

\* Whatever overlaps, is refused by the key's index or rolls back, balance and
\* rows go together: no balance update survives without its row and no row
\* without its update, and each row is what its terms allow.
RowsSound == RowsAddUp /\ BalanceIsLastRow

\* The rows of a wallet are one chain: each starts from the balance that the
\* row before it left.  With RowsSound this makes the balance the
\* sum of the ledger.
LedgerUnbroken ==
  \A a \in Agencies : \A i \in DOMAIN ledger[a] :
    ledger[a][i].previousBalance = IF i = 1 THEN 0 ELSE ledger[a][i - 1].newBalance

\* The sum of the ledger rows of a: its credits less its debits.
NetPosted(a) ==
  LET rows == DOMAIN ledger[a]
  IN Total([i \in rows |-> ledger[a][i].credit], rows)
       - Total([i \in rows |-> ledger[a][i].debit], rows)

\* "`balance` is always exactly the sum of transactions and never drifts
\* from its own ledger" (WalletService).
BalanceIsLedgerSum ==
  \A a \in Agencies : balance[a] = NetPosted(a)

\* "Rejects rather than let the booking push the agency past its credit
\* limit" (debitForBooking): what an agency has really spent stays within its
\* terms.
SpendWithinTerms == \A a \in Agencies : NetPosted(a) >= Floor(a)

\* What the abstract ledger promises holds of the wallet's own rows as long as
\* the calls on an agency do not overlap: no drift and no overspending.
SerialLedgerSound == BalanceIsLedgerSum /\ SpendWithinTerms

\* When calls on an agency do not overlap, the statement-level service
\* implements the abstract ledger.
ImplementsLedger == Spec

\* A call does not hang: it is answered whatever locks other calls take, so
\* the row lock and the key lock never wait on each other.
EveryCallReturns ==
  \A w \in Workers : pc[w] # "idle" ~> pc[w] = "idle"
=============================================================================
