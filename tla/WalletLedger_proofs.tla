------------------------- MODULE WalletLedger_proofs -------------------------
(***************************************************************************)
(* Proofs about WalletLedger, for any agencies, keys, amounts, requests    *)
(* and number of concurrent calls.                                         *)
(***************************************************************************)
EXTENDS WalletLedger, Totals_proofs

\* A call under way has an entry to post.
BusyHasInput == \A w \in Workers : pc[w] # "idle" => input[w] \in Requests

TypeInv == WTypeOK /\ BusyHasInput

LEMMA RequestFields ==
  ASSUME NEW e \in Requests
  PROVE  /\ e \in Entry
         /\ e.agency \in Agencies
         /\ e.key \in Keys
         /\ e.debit \in Amounts \cup {0} /\ e.debit \in Int
         /\ e.credit \in Amounts \cup {0} /\ e.credit \in Int
         /\ e.enforceCreditLimit \in BOOLEAN
<1>1. e \in Entry
  BY RequestsAssumption
<1>2. /\ e.agency \in Agencies
      /\ e.key \in Keys
      /\ e.debit \in Amounts \cup {0}
      /\ e.credit \in Amounts \cup {0}
      /\ e.enforceCreditLimit \in BOOLEAN
  BY <1>1 DEF Entry
<1>3. Amounts \cup {0} \subseteq Int
  BY LedgerAssumption
<1> QED BY <1>1, <1>2, <1>3

\* The end of a transaction leaves the local state well-formed.
LEMMA EndTypeInv ==
  ASSUME TypeInv, NEW w \in Workers, End(w)
  PROVE  /\ pc' \in [Workers -> Pcs]
         /\ input' \in [Workers -> Requests \cup {NoInput}]
         /\ previousBalance' \in [Workers -> Int]
         /\ newBalance' \in [Workers -> Int]
         /\ BusyHasInput'
<1>1. /\ pc' \in [Workers -> Pcs]
      /\ input' \in [Workers -> Requests \cup {NoInput}]
      /\ previousBalance' \in [Workers -> Int]
      /\ newBalance' \in [Workers -> Int]
  BY DEF TypeInv, WTypeOK, End, Pcs
<1>2. BusyHasInput'
  BY DEF TypeInv, WTypeOK, End, BusyHasInput
<1> QED BY <1>1, <1>2

LEMMA StepTypeInv == TypeInv /\ [WNext]_walletVars => TypeInv'
<1> SUFFICES ASSUME TypeInv, [WNext]_walletVars PROVE TypeInv'
  OBVIOUS
<1> USE DEF TypeInv
<1>1. ASSUME NEW a \in Agencies, GetOrCreateWallet(a) PROVE TypeInv'
  BY <1>1 DEF GetOrCreateWallet, OpenWallet, local, WTypeOK, BusyHasInput
<1>2. ASSUME NEW w \in Workers, NEW e \in Requests, Begin(w, e) PROVE TypeInv'
  BY <1>2 DEF Begin, ledgerVars, WTypeOK, BusyHasInput, Pcs
<1>3. ASSUME NEW w \in Workers, NEW e \in Requests, ReturnExisting(w, e) PROVE TypeInv'
  BY <1>3 DEF ReturnExisting, walletVars, WTypeOK, BusyHasInput
<1>4. ASSUME NEW w \in Workers, ReadWallet(w) PROVE TypeInv'
  <2> DEFINE e == input[w]
             before == balance[e.agency]
             after == BalanceAfter(before, e)
  <2>1. e \in Requests
    BY <1>4 DEF ReadWallet, BusyHasInput
  <2>2. before \in Int
    BY <2>1, RequestFields DEF WTypeOK
  <2>3. after \in Int
    BY <2>1, <2>2, RequestFields DEF BalanceAfter
  <2>4. /\ pc' = [pc EXCEPT ![w] = "update"]
        /\ previousBalance' = [previousBalance EXCEPT ![w] = before]
        /\ newBalance' = [newBalance EXCEPT ![w] = after]
        /\ UNCHANGED <<wallets, balance, ledger, input>>
        /\ pc[w] # "idle"
    BY <1>4 DEF ReadWallet, ledgerVars
  <2> HIDE DEF e, before, after
  <2>5. WTypeOK'
    BY <2>2, <2>3, <2>4 DEF WTypeOK, Pcs
  <2>6. BusyHasInput'
    BY <2>4 DEF WTypeOK, BusyHasInput
  <2> QED BY <2>5, <2>6
<1>5. ASSUME NEW w \in Workers, Refuse(w) \/ KeyConflict(w) \/ Rollback(w)
      PROVE  TypeInv'
  <2>1. End(w) /\ UNCHANGED <<wallets, balance, ledger>>
    BY <1>5 DEF Refuse, KeyConflict, Rollback, ledgerVars
  <2> QED BY <2>1, EndTypeInv DEF WTypeOK
<1>6. ASSUME NEW w \in Workers, UpdateWallet(w) PROVE TypeInv'
  BY <1>6 DEF UpdateWallet, ledgerVars, WTypeOK, BusyHasInput, Pcs
<1>7. ASSUME NEW w \in Workers, InsertRow(w) PROVE TypeInv'
  BY <1>7 DEF InsertRow, ledgerVars, WTypeOK, BusyHasInput, Pcs
<1>8. ASSUME NEW w \in Workers, Commit(w) PROVE TypeInv'
  <2> DEFINE e == input[w]
             row == [key |-> e.key, debit |-> e.debit, credit |-> e.credit,
                     enforceCreditLimit |-> e.enforceCreditLimit,
                     previousBalance |-> previousBalance[w], newBalance |-> newBalance[w]]
  <2>1. e \in Requests
    BY <1>8 DEF Commit, BusyHasInput
  <2>2. row \in Row
    BY <2>1, RequestFields DEF Row, WTypeOK
  <2>3. /\ balance' = [balance EXCEPT ![e.agency] = newBalance[w]]
        /\ ledger' = [ledger EXCEPT ![e.agency] = Append(@, row)]
        /\ End(w)
        /\ UNCHANGED wallets
    BY <1>8 DEF Commit
  <2> HIDE DEF e, row
  <2>4. e.agency \in Agencies
    BY <2>1, RequestFields
  <2>5. /\ balance' \in [Agencies -> Int]
        /\ ledger' \in [Agencies -> Seq(Row)]
        /\ wallets' \in SUBSET Agencies
    BY <2>2, <2>3, <2>4 DEF WTypeOK
  <2> QED BY <2>3, <2>5, EndTypeInv DEF WTypeOK
<1>9. CASE UNCHANGED walletVars
  BY <1>9 DEF walletVars, WTypeOK, BusyHasInput
<1> QED BY <1>1, <1>2, <1>3, <1>4, <1>5, <1>6, <1>7, <1>8, <1>9 DEF WNext, Step

LEMMA TypeInvariant == WSpec => []TypeInv
<1>1. WInit => TypeInv
  BY DEF WInit, Init, TypeInv, WTypeOK, BusyHasInput, Pcs
<1> QED BY <1>1, StepTypeInv, PTL DEF WSpec

\* The wallet rows, the ledger and the calls under way are always well-formed;
\* in particular every balance is an integer number of minor units.
THEOREM WalletTypeCorrect == WSpec => []WTypeOK
<1>1. TypeInv => WTypeOK
  BY DEF TypeInv
<1> QED BY <1>1, TypeInvariant, PTL

-----------------------------------------------------------------------------
(* What a commit does to the ledger, and that nothing else touches it.     *)

\* The ledger row that the call of w posts.
RowOfCall(w) ==
  [key |-> input[w].key, debit |-> input[w].debit, credit |-> input[w].credit,
   enforceCreditLimit |-> input[w].enforceCreditLimit,
   previousBalance |-> previousBalance[w], newBalance |-> newBalance[w]]

LEMMA OnlyCommitPosts ==
  ASSUME [WNext]_walletVars
  PROVE  UNCHANGED <<balance, ledger>> \/ \E w \in Workers : Commit(w)
  BY DEF WNext, Step, walletVars, ledgerVars, GetOrCreateWallet, OpenWallet, Begin,
         ReturnExisting, ReadWallet, Refuse, UpdateWallet, InsertRow, KeyConflict, Rollback

LEMMA CommitEffect ==
  ASSUME TypeInv, NEW w \in Workers, Commit(w)
  PROVE  /\ input[w] \in Requests
         /\ input[w].agency \in Agencies
         /\ RowOfCall(w) \in Row
         /\ balance' = [balance EXCEPT ![input[w].agency] = newBalance[w]]
         /\ ledger' = [ledger EXCEPT ![input[w].agency] = Append(@, RowOfCall(w))]
         /\ UNCHANGED wallets
<1>1. input[w] \in Requests
  BY DEF Commit, TypeInv, BusyHasInput
<1>2. RowOfCall(w) \in Row
  BY <1>1, RequestFields DEF RowOfCall, Row, TypeInv, WTypeOK
<1>3. /\ balance' = [balance EXCEPT ![input[w].agency] = newBalance[w]]
      /\ ledger' = [ledger EXCEPT ![input[w].agency] = Append(@, RowOfCall(w))]
      /\ UNCHANGED wallets
  BY DEF Commit, RowOfCall
<1> QED BY <1>1, <1>2, <1>3, RequestFields

\* After a commit every row is an old one in its old place, or the new last
\* row of the agency that the call names.
LEMMA CommitRows ==
  ASSUME TypeInv, NEW w \in Workers, Commit(w), NEW a \in Agencies,
         NEW i \in DOMAIN ledger'[a]
  PROVE  \/ i \in DOMAIN ledger[a] /\ ledger'[a][i] = ledger[a][i]
         \/ /\ a = input[w].agency
            /\ i = Len(ledger[a]) + 1
            /\ ledger'[a][i] = RowOfCall(w)
<1>1. ledger[a] \in Seq(Row) /\ ledger \in [Agencies -> Seq(Row)]
  BY DEF TypeInv, WTypeOK
<1>2. CASE a = input[w].agency
  <2>1. ledger'[a] = Append(ledger[a], RowOfCall(w))
    BY <1>1, <1>2, CommitEffect
  <2> HIDE DEF RowOfCall
  <2> QED BY <1>1, <1>2, <2>1, CommitEffect
<1>3. CASE a # input[w].agency
  BY <1>1, <1>3, CommitEffect
<1> QED BY <1>2, <1>3

-----------------------------------------------------------------------------
(* One ledger row per idempotency key.                                     *)

\* A call that has inserted its row, and not ended, holds its key alone: no
\* committed row and no other such call has it.
KeyHeldAlone ==
  \A w \in Workers : HoldsKey(w) =>
    /\ ~KeyUsed(input[w].key)
    /\ \A v \in Workers : v # w /\ HoldsKey(v) => input[v].key # input[w].key

LEMMA KeyHeldAloneInvariant == WSpec => []KeyHeldAlone
<1>1. WInit => KeyHeldAlone
  BY DEF WInit, KeyHeldAlone, HoldsKey
<1>2. TypeInv /\ KeyHeldAlone /\ [WNext]_walletVars => KeyHeldAlone'
  <2> SUFFICES ASSUME TypeInv, KeyHeldAlone, [WNext]_walletVars PROVE KeyHeldAlone'
    OBVIOUS
  <2> USE DEF HoldsKey
  <2>1. ASSUME UNCHANGED ledger,
               \A v \in Workers : pc'[v] = "commit" => pc[v] = "commit" /\ input'[v] = input[v]
        PROVE  KeyHeldAlone'
    BY <2>1 DEF KeyHeldAlone, KeyUsed
  <2>2. ASSUME NEW w \in Workers, InsertRow(w) PROVE KeyHeldAlone'
    <3>1. /\ UNCHANGED <<ledger, input>>
          /\ \A v \in Workers : v # w => pc'[v] = pc[v]
          /\ ~KeyUsed(input[w].key)
          /\ \A v \in Workers : pc[v] = "commit" => input[v].key # input[w].key
      BY <2>2 DEF InsertRow, ledgerVars, TypeInv, WTypeOK
    <3> QED BY <3>1 DEF KeyHeldAlone, KeyUsed
  <2>3. ASSUME NEW w \in Workers, Commit(w) PROVE KeyHeldAlone'
    <3>1. /\ pc[w] = "commit"
          /\ pc'[w] = "idle"
          /\ \A v \in Workers : v # w => pc'[v] = pc[v] /\ input'[v] = input[v]
      BY <2>3 DEF Commit, End, TypeInv, WTypeOK
    <3>2. ASSUME NEW v \in Workers, pc'[v] = "commit"
          PROVE  ~KeyUsed(input[v].key)'
      <4>1. v # w /\ pc[v] = "commit"
        BY <3>1, <3>2
      <4>2. ~KeyUsed(input[v].key) /\ input[v].key # input[w].key
        BY <3>1, <4>1 DEF KeyHeldAlone
      <4>3. input'[v] = input[v]
        BY <3>1, <4>1
      <4>4. ~KeyUsed(input[v].key)' <=> \A a \in Agencies : \A i \in DOMAIN ledger'[a] :
                                          ledger'[a][i].key # input[v].key
        BY <4>3 DEF KeyUsed
      <4>5. \A a \in Agencies : \A i \in DOMAIN ledger'[a] :
              ledger'[a][i].key # input[v].key
        <5> SUFFICES ASSUME NEW a \in Agencies, NEW i \in DOMAIN ledger'[a]
                     PROVE  ledger'[a][i].key # input[v].key
          OBVIOUS
        <5>1. CASE i \in DOMAIN ledger[a] /\ ledger'[a][i] = ledger[a][i]
          BY <4>2, <5>1 DEF KeyUsed
        <5>2. CASE ledger'[a][i] = RowOfCall(w)
          BY <4>2, <5>2 DEF RowOfCall
        <5> QED BY <2>3, <5>1, <5>2, CommitRows
      <4> QED BY <4>4, <4>5
    <3>3. ASSUME NEW v \in Workers, NEW u \in Workers, u # v,
                 pc'[v] = "commit", pc'[u] = "commit"
          PROVE  input'[u].key # input'[v].key
      BY <3>1, <3>3 DEF KeyHeldAlone
    <3> QED BY <3>2, <3>3 DEF KeyHeldAlone
  <2>4. CASE \E a \in Agencies : GetOrCreateWallet(a)
    BY <2>1, <2>4 DEF GetOrCreateWallet, OpenWallet, local
  <2>5. ASSUME NEW w \in Workers, NEW e \in Requests, Begin(w, e) \/ ReturnExisting(w, e)
        PROVE  KeyHeldAlone'
    BY <2>1, <2>5 DEF Begin, ReturnExisting, ledgerVars, walletVars, TypeInv, WTypeOK
  <2>6. ASSUME NEW w \in Workers, ReadWallet(w) \/ UpdateWallet(w) PROVE KeyHeldAlone'
    BY <2>1, <2>6 DEF ReadWallet, UpdateWallet, ledgerVars, TypeInv, WTypeOK
  <2>7. ASSUME NEW w \in Workers, Refuse(w) \/ KeyConflict(w) \/ Rollback(w)
        PROVE  KeyHeldAlone'
    BY <2>1, <2>7 DEF Refuse, KeyConflict, Rollback, End, ledgerVars, TypeInv, WTypeOK
  <2>8. CASE UNCHANGED walletVars
    BY <2>1, <2>8 DEF walletVars
  <2> QED BY <2>2, <2>3, <2>4, <2>5, <2>6, <2>7, <2>8 DEF WNext, Step
<1> QED BY <1>1, <1>2, TypeInvariant, PTL DEF WSpec

\* "The unique constraint is what actually prevents a double-debit on retry":
\* whatever calls, retries and rollbacks overlap, and over all wallets, an
\* idempotency key is posted at most once.
THEOREM KeyAppliedOnceAlways == WSpec => []KeyAppliedOnce
<1>1. WInit => KeyAppliedOnce
  BY DEF WInit, Init, KeyAppliedOnce
<1>2. TypeInv /\ KeyHeldAlone /\ KeyAppliedOnce /\ [WNext]_walletVars => KeyAppliedOnce'
  <2> SUFFICES ASSUME TypeInv, KeyHeldAlone, KeyAppliedOnce, [WNext]_walletVars
               PROVE  KeyAppliedOnce'
    OBVIOUS
  <2>1. CASE UNCHANGED <<balance, ledger>>
    BY <2>1 DEF KeyAppliedOnce
  <2>2. ASSUME NEW w \in Workers, Commit(w) PROVE KeyAppliedOnce'
    <3>1. ~KeyUsed(input[w].key)
      BY <2>2 DEF Commit, KeyHeldAlone, HoldsKey
    <3>2. RowOfCall(w).key = input[w].key
      BY DEF RowOfCall
    <3> SUFFICES ASSUME NEW a \in Agencies, NEW b \in Agencies,
                        NEW i \in DOMAIN ledger'[a], NEW j \in DOMAIN ledger'[b],
                        ledger'[a][i].key = ledger'[b][j].key
                 PROVE  a = b /\ i = j
      BY DEF KeyAppliedOnce
    <3> DEFINE Old(c, n) == n \in DOMAIN ledger[c] /\ ledger'[c][n] = ledger[c][n]
               New(c, n) == /\ c = input[w].agency
                            /\ n = Len(ledger[c]) + 1
                            /\ ledger'[c][n] = RowOfCall(w)
    <3>3. /\ Old(a, i) \/ New(a, i)
          /\ Old(b, j) \/ New(b, j)
      BY <2>2, CommitRows
    <3>4. ASSUME Old(a, i), Old(b, j) PROVE a = b /\ i = j
      BY <3>4 DEF KeyAppliedOnce
    <3>5. ASSUME New(a, i), New(b, j) PROVE a = b /\ i = j
      BY <3>5
    <3>6. ~(Old(a, i) /\ New(b, j)) /\ ~(New(a, i) /\ Old(b, j))
      BY <3>1, <3>2 DEF KeyUsed
    <3> QED BY <3>3, <3>4, <3>5, <3>6
  <2> QED BY <2>1, <2>2, OnlyCommitPosts
<1> QED BY <1>1, <1>2, TypeInvariant, KeyHeldAloneInvariant, PTL DEF WSpec

-----------------------------------------------------------------------------
(* The balance column and the newest row.                                  *)

LEMMA LastOfAppend ==
  ASSUME NEW S, NEW s \in Seq(S), NEW r \in S
  PROVE  Append(s, r) # <<>> /\ Append(s, r)[Len(Append(s, r))] = r
<1>1. Len(Append(s, r)) = Len(s) + 1 /\ Len(s) \in Nat
  OBVIOUS
<1>2. Append(s, r)[Len(s) + 1] = r
  OBVIOUS
<1> QED BY <1>1, <1>2

\* The balance column is the new balance of the newest committed row, however
\* calls overlap.
THEOREM BalanceIsLastRowAlways == WSpec => []BalanceIsLastRow
<1>1. WInit => BalanceIsLastRow
  BY DEF WInit, Init, BalanceIsLastRow
<1>2. TypeInv /\ BalanceIsLastRow /\ [WNext]_walletVars => BalanceIsLastRow'
  <2> SUFFICES ASSUME TypeInv, BalanceIsLastRow, [WNext]_walletVars
               PROVE  BalanceIsLastRow'
    OBVIOUS
  <2>1. CASE UNCHANGED <<balance, ledger>>
    BY <2>1 DEF BalanceIsLastRow
  <2>2. ASSUME NEW w \in Workers, Commit(w), NEW a \in Agencies
        PROVE  balance'[a] = IF ledger'[a] = <<>> THEN 0
                             ELSE ledger'[a][Len(ledger'[a])].newBalance
    <3>1. balance \in [Agencies -> Int] /\ ledger \in [Agencies -> Seq(Row)]
      BY DEF TypeInv, WTypeOK
    <3>2. CASE a = input[w].agency
      <4>1. /\ ledger'[a] = Append(ledger[a], RowOfCall(w))
            /\ balance'[a] = newBalance[w]
            /\ RowOfCall(w) \in Row
        BY <2>2, <3>1, <3>2, CommitEffect
      <4>2. RowOfCall(w).newBalance = newBalance[w]
        BY DEF RowOfCall
      <4>3. ledger'[a] # <<>> /\ ledger'[a][Len(ledger'[a])] = RowOfCall(w)
        BY <3>1, <4>1, LastOfAppend
      <4> QED BY <4>1, <4>2, <4>3
    <3>3. CASE a # input[w].agency
      <4>1. ledger'[a] = ledger[a] /\ balance'[a] = balance[a]
        BY <2>2, <3>1, <3>3, CommitEffect
      <4> QED BY <4>1 DEF BalanceIsLastRow
    <3> QED BY <3>2, <3>3
  <2> QED BY <2>1, <2>2, OnlyCommitPosts DEF BalanceIsLastRow
<1> QED BY <1>1, <1>2, TypeInvariant, PTL DEF WSpec

-----------------------------------------------------------------------------
(* The rows themselves.                                                    *)

Computed(w) == pc[w] \in {"update", "insert", "commit"}

\* A call that has read the wallet carries a new balance that adds up and
\* that its terms allow.
PendingSound ==
  \A w \in Workers : Computed(w) =>
    /\ newBalance[w] = BalanceAfter(previousBalance[w], input[w])
    /\ WithinTerms(input[w], newBalance[w])

LEMMA PendingSoundInvariant == WSpec => []PendingSound
<1>1. WInit => PendingSound
  BY DEF WInit, PendingSound, Computed
<1>2. TypeInv /\ PendingSound /\ [WNext]_walletVars => PendingSound'
  <2> SUFFICES ASSUME TypeInv, PendingSound, [WNext]_walletVars PROVE PendingSound'
    OBVIOUS
  <2> USE DEF Computed
  <2>1. ASSUME \A v \in Workers : Computed(v)' =>
                 /\ Computed(v)
                 /\ input'[v] = input[v]
                 /\ previousBalance'[v] = previousBalance[v]
                 /\ newBalance'[v] = newBalance[v]
        PROVE  PendingSound'
    BY <2>1 DEF PendingSound, BalanceAfter, WithinTerms, Floor
  <2>2. ASSUME NEW w \in Workers, ReadWallet(w) PROVE PendingSound'
    <3> DEFINE before == balance[input[w].agency]
    <3>1. /\ WithinTerms(input[w], BalanceAfter(before, input[w]))
          /\ pc' = [pc EXCEPT ![w] = "update"]
          /\ previousBalance' = [previousBalance EXCEPT ![w] = before]
          /\ newBalance' = [newBalance EXCEPT ![w] = BalanceAfter(before, input[w])]
          /\ UNCHANGED input
      BY <2>2 DEF ReadWallet, ledgerVars
    <3> HIDE DEF before
    <3>2. /\ previousBalance'[w] = before
          /\ newBalance'[w] = BalanceAfter(before, input[w])
          /\ \A v \in Workers : v # w =>
               /\ pc'[v] = pc[v]
               /\ previousBalance'[v] = previousBalance[v]
               /\ newBalance'[v] = newBalance[v]
      BY <3>1 DEF TypeInv, WTypeOK
    <3> QED BY <3>1, <3>2 DEF PendingSound, WithinTerms, Floor, BalanceAfter
  <2>3. CASE \E a \in Agencies : GetOrCreateWallet(a)
    BY <2>1, <2>3 DEF GetOrCreateWallet, OpenWallet, local
  <2>4. ASSUME NEW w \in Workers, NEW e \in Requests, Begin(w, e) \/ ReturnExisting(w, e)
        PROVE  PendingSound'
    BY <2>1, <2>4 DEF Begin, ReturnExisting, ledgerVars, walletVars, TypeInv, WTypeOK
  <2>5. ASSUME NEW w \in Workers, UpdateWallet(w) \/ InsertRow(w) PROVE PendingSound'
    BY <2>1, <2>5 DEF UpdateWallet, InsertRow, ledgerVars, TypeInv, WTypeOK
  <2>6. ASSUME NEW w \in Workers, Refuse(w) \/ KeyConflict(w) \/ Commit(w) \/ Rollback(w)
        PROVE  PendingSound'
    BY <2>1, <2>6 DEF Refuse, KeyConflict, Commit, Rollback, End, TypeInv, WTypeOK
  <2>7. CASE UNCHANGED walletVars
    BY <2>1, <2>7 DEF walletVars
  <2> QED BY <2>2, <2>3, <2>4, <2>5, <2>6, <2>7 DEF WNext, Step
<1> QED BY <1>1, <1>2, TypeInvariant, PTL DEF WSpec

\* Every ledger row adds up, and no row of a call that enforces the credit
\* limit records a balance below the agency's floor.
THEOREM RowsAddUpAlways == WSpec => []RowsAddUp
<1> DEFINE SoundRow(a, row) ==
      /\ row.newBalance = row.previousBalance - row.debit + row.credit
      /\ row.enforceCreditLimit => row.newBalance >= Floor(a)
<1>1. WInit => RowsAddUp
  BY DEF WInit, Init, RowsAddUp
<1>2. TypeInv /\ PendingSound /\ RowsAddUp /\ [WNext]_walletVars => RowsAddUp'
  <2> SUFFICES ASSUME TypeInv, PendingSound, RowsAddUp, [WNext]_walletVars
               PROVE  RowsAddUp'
    OBVIOUS
  <2>1. CASE UNCHANGED <<balance, ledger>>
    BY <2>1 DEF RowsAddUp, Floor
  <2>2. ASSUME NEW w \in Workers, Commit(w) PROVE RowsAddUp'
    <3>1. SoundRow(input[w].agency, RowOfCall(w))
      <4>1. /\ newBalance[w] = BalanceAfter(previousBalance[w], input[w])
            /\ WithinTerms(input[w], newBalance[w])
        BY <2>2 DEF Commit, PendingSound, Computed
      <4> QED BY <4>1 DEF RowOfCall, BalanceAfter, WithinTerms
    <3>2. ASSUME NEW a \in Agencies, NEW i \in DOMAIN ledger'[a]
          PROVE  SoundRow(a, ledger'[a][i])
      <4>1. CASE i \in DOMAIN ledger[a] /\ ledger'[a][i] = ledger[a][i]
        BY <4>1 DEF RowsAddUp
      <4>2. CASE a = input[w].agency /\ ledger'[a][i] = RowOfCall(w)
        <5> HIDE DEF SoundRow
        <5> QED BY <3>1, <4>2
      <4> QED BY <2>2, <4>1, <4>2, CommitRows
    <3> QED BY <3>2 DEF RowsAddUp, Floor
  <2> QED BY <2>1, <2>2, OnlyCommitPosts
<1> QED BY <1>1, <1>2, TypeInvariant, PendingSoundInvariant, PTL DEF WSpec

\* Whatever overlaps, is refused by the key's index or rolls back, balance and
\* rows go together, and each row is what its terms allow.
THEOREM RowsSoundAlways == WSpec => []RowsSound
  BY RowsAddUpAlways, BalanceIsLastRowAlways, PTL DEF RowsSound

-----------------------------------------------------------------------------
(* What holds when no two calls on one agency overlap.                     *)

LEMMA SerialImpliesWSpec == SerialSpec => WSpec
  BY PTL DEF SerialSpec, WSpec

LEMMA NeverOverlapping == SerialSpec => []NoOverlap
<1>1. WInit => NoOverlap
  BY DEF WInit, NoOverlap
<1>2. NoOverlap /\ [WNext /\ NoOverlap']_walletVars => NoOverlap'
  BY DEF walletVars, NoOverlap
<1> QED BY <1>1, <1>2, PTL DEF SerialSpec

\* The balance a call has read is the balance its wallet still has.
ReadIsCurrent ==
  \A w \in Workers : Computed(w) =>
    /\ input[w].agency \in wallets
    /\ previousBalance[w] = balance[input[w].agency]

LEMMA ReadIsCurrentInvariant == SerialSpec => []ReadIsCurrent
<1>1. WInit => ReadIsCurrent
  BY DEF WInit, ReadIsCurrent, Computed
<1>2. TypeInv /\ NoOverlap /\ ReadIsCurrent /\ [WNext /\ NoOverlap']_walletVars
      => ReadIsCurrent'
  <2> SUFFICES ASSUME TypeInv, NoOverlap, ReadIsCurrent, [WNext]_walletVars
               PROVE  ReadIsCurrent'
    OBVIOUS
  <2> USE DEF Computed
  <2>1. ASSUME UNCHANGED balance, wallets \subseteq wallets',
               \A v \in Workers : Computed(v)' =>
                 /\ Computed(v)
                 /\ input'[v] = input[v]
                 /\ previousBalance'[v] = previousBalance[v]
        PROVE  ReadIsCurrent'
    BY <2>1 DEF ReadIsCurrent
  <2>2. ASSUME NEW w \in Workers, ReadWallet(w) PROVE ReadIsCurrent'
    <3> DEFINE before == balance[input[w].agency]
    <3>1. /\ input[w].agency \in wallets
          /\ pc' = [pc EXCEPT ![w] = "update"]
          /\ previousBalance' = [previousBalance EXCEPT ![w] = before]
          /\ UNCHANGED <<wallets, balance, input>>
      BY <2>2 DEF ReadWallet, ledgerVars
    <3> QED BY <3>1 DEF ReadIsCurrent, TypeInv, WTypeOK
  <2>3. ASSUME NEW w \in Workers, Commit(w) PROVE ReadIsCurrent'
    <3>1. /\ pc[w] = "commit"
          /\ pc'[w] = "idle"
          /\ \A v \in Workers : v # w => /\ pc'[v] = pc[v]
                                         /\ input'[v] = input[v]
                                         /\ previousBalance'[v] = previousBalance[v]
      BY <2>3 DEF Commit, End, TypeInv, WTypeOK
    <3>2. ASSUME NEW v \in Workers, Computed(v)'
          PROVE  /\ input'[v].agency \in wallets'
                 /\ previousBalance'[v] = balance'[input'[v].agency]
      <4>1. v # w /\ Computed(v) /\ input'[v] = input[v]
        BY <3>1, <3>2
      <4>2. input[v].agency # input[w].agency
        BY <3>1, <4>1 DEF NoOverlap
      <4>3. /\ balance' = [balance EXCEPT ![input[w].agency] = newBalance[w]]
            /\ UNCHANGED wallets
        BY <2>3, CommitEffect
      <4>4. input[v].agency \in Agencies
        BY <4>1, RequestFields DEF TypeInv, BusyHasInput
      <4> QED BY <3>1, <4>1, <4>2, <4>3, <4>4 DEF ReadIsCurrent, TypeInv, WTypeOK
    <3> QED BY <3>2 DEF ReadIsCurrent
  <2>4. CASE \E a \in Agencies : GetOrCreateWallet(a)
    BY <2>1, <2>4 DEF GetOrCreateWallet, OpenWallet, local
  <2>5. ASSUME NEW w \in Workers, NEW e \in Requests, Begin(w, e) \/ ReturnExisting(w, e)
        PROVE  ReadIsCurrent'
    BY <2>1, <2>5 DEF Begin, ReturnExisting, ledgerVars, walletVars, TypeInv, WTypeOK
  <2>6. ASSUME NEW w \in Workers, UpdateWallet(w) \/ InsertRow(w) PROVE ReadIsCurrent'
    BY <2>1, <2>6 DEF UpdateWallet, InsertRow, ledgerVars, TypeInv, WTypeOK
  <2>7. ASSUME NEW w \in Workers, Refuse(w) \/ KeyConflict(w) \/ Rollback(w)
        PROVE  ReadIsCurrent'
    BY <2>1, <2>7 DEF Refuse, KeyConflict, Rollback, End, ledgerVars, TypeInv, WTypeOK
  <2>8. CASE UNCHANGED walletVars
    BY <2>1, <2>8 DEF walletVars
  <2> QED BY <2>2, <2>3, <2>4, <2>5, <2>6, <2>7, <2>8 DEF WNext, Step
<1> QED
  BY <1>1, <1>2, SerialImpliesWSpec, TypeInvariant, NeverOverlapping, PTL DEF SerialSpec

\* The rows of every wallet form one chain of balances, as long as calls on
\* one agency do not overlap.
THEOREM SerialLedgerUnbroken == SerialSpec => []LedgerUnbroken
<1>1. WInit => LedgerUnbroken
  BY DEF WInit, Init, LedgerUnbroken
<1>2. /\ TypeInv /\ BalanceIsLastRow /\ ReadIsCurrent /\ LedgerUnbroken
      /\ [WNext /\ NoOverlap']_walletVars
      => LedgerUnbroken'
  <2> SUFFICES ASSUME TypeInv, BalanceIsLastRow, ReadIsCurrent, LedgerUnbroken,
                      [WNext]_walletVars
               PROVE  LedgerUnbroken'
    OBVIOUS
  <2>1. CASE UNCHANGED <<balance, ledger>>
    BY <2>1 DEF LedgerUnbroken
  <2>2. ASSUME NEW w \in Workers, Commit(w), NEW a \in Agencies, NEW i \in DOMAIN ledger'[a]
        PROVE  ledger'[a][i].previousBalance =
                 IF i = 1 THEN 0 ELSE ledger'[a][i - 1].newBalance
    <3>1. ledger[a] \in Seq(Row) /\ ledger \in [Agencies -> Seq(Row)]
      BY DEF TypeInv, WTypeOK
    <3>2. \A j \in DOMAIN ledger[a] : ledger'[a][j] = ledger[a][j]
      <4>1. CASE a = input[w].agency
        <5>1. ledger'[a] = Append(ledger[a], RowOfCall(w)) /\ RowOfCall(w) \in Row
          BY <2>2, <3>1, <4>1, CommitEffect
        <5> QED BY <3>1, <5>1
      <4>2. CASE a # input[w].agency
        BY <2>2, <3>1, <4>2, CommitEffect
      <4> QED BY <4>1, <4>2
    <3>3. CASE i \in DOMAIN ledger[a]
      <4>1. i # 1 => i - 1 \in DOMAIN ledger[a]
        BY <3>1, <3>3
      <4> QED BY <3>2, <3>3, <4>1 DEF LedgerUnbroken
    <3>4. CASE a = input[w].agency /\ i = Len(ledger[a]) + 1 /\ ledger'[a][i] = RowOfCall(w)
      <4>1. ledger'[a][i].previousBalance = balance[a]
        BY <2>2, <3>4 DEF Commit, Computed, ReadIsCurrent, RowOfCall
      <4>2. CASE ledger[a] = <<>>
        BY <3>4, <4>1, <4>2 DEF BalanceIsLastRow
      <4>3. CASE ledger[a] # <<>>
        <5>1. /\ i # 1
              /\ i - 1 = Len(ledger[a])
              /\ Len(ledger[a]) \in DOMAIN ledger[a]
          BY <3>1, <3>4, <4>3
        <5> QED BY <3>2, <4>1, <4>3, <5>1 DEF BalanceIsLastRow
      <4> QED BY <4>2, <4>3
    <3> QED BY <2>2, <3>3, <3>4, CommitRows
  <2> QED BY <2>1, <2>2, OnlyCommitPosts DEF LedgerUnbroken
<1> QED
  BY <1>1, <1>2, SerialImpliesWSpec, TypeInvariant, BalanceIsLastRowAlways,
     ReadIsCurrentInvariant, PTL
  DEF SerialSpec

\* As long as calls on one agency do not overlap, the statement-level wallet
\* implements the abstract ledger: each of its steps posts one entry within
\* the credit terms and under a fresh key, opens a wallet, or changes nothing
\* that the ledger shows.
THEOREM SerialImplementsLedger == SerialSpec => ImplementsLedger
<1>1. WInit => Init
  BY DEF WInit
<1>2. /\ TypeInv /\ KeyHeldAlone /\ PendingSound /\ ReadIsCurrent
      /\ [WNext /\ NoOverlap']_walletVars
      => [Next]_ledgerVars
  <2> SUFFICES ASSUME TypeInv, KeyHeldAlone, PendingSound, ReadIsCurrent,
                      [WNext]_walletVars
               PROVE  [Next]_ledgerVars
    OBVIOUS
  <2>1. ASSUME NEW a \in Agencies, GetOrCreateWallet(a) PROVE Next
    BY <2>1 DEF GetOrCreateWallet, Next
  <2>2. ASSUME NEW w \in Workers, Commit(w) PROVE Next
    <3> DEFINE e == input[w]
    <3>1. pc[w] = "commit"
      BY <2>2 DEF Commit
    <3>2. /\ e \in Requests
          /\ balance' = [balance EXCEPT ![e.agency] = newBalance[w]]
          /\ ledger' = [ledger EXCEPT ![e.agency] = Append(@, RowOfCall(w))]
          /\ UNCHANGED wallets
      BY <2>2, CommitEffect
    <3>3. /\ e.agency \in wallets
          /\ previousBalance[w] = balance[e.agency]
          /\ newBalance[w] = BalanceAfter(balance[e.agency], e)
          /\ WithinTerms(e, BalanceAfter(balance[e.agency], e))
      BY <3>1 DEF ReadIsCurrent, PendingSound, Computed
    <3>4. ~KeyUsed(e.key)
      BY <3>1 DEF KeyHeldAlone, HoldsKey
    <3>5. RowOfCall(w) = RowOf(e, balance[e.agency])
      BY <3>3 DEF RowOfCall, RowOf
    <3>6. /\ balance' = [balance EXCEPT ![e.agency] = BalanceAfter(@, e)]
          /\ ledger' = [ledger EXCEPT ![e.agency] = Append(@, RowOf(e, balance[e.agency]))]
      <4> HIDE DEF e, RowOfCall, RowOf
      <4>1. e.agency \in Agencies
        BY <3>2, RequestFields
      <4> QED BY <3>2, <3>3, <3>5, <4>1 DEF TypeInv, WTypeOK
    <3>7. Post(e)
      BY <3>2, <3>3, <3>4, <3>6 DEF Post
    <3> QED BY <3>2, <3>7, RequestFields DEF Next
  <2>3. ASSUME NEW w \in Workers, NEW e \in Requests, Begin(w, e) \/ ReturnExisting(w, e)
        PROVE  UNCHANGED ledgerVars
    BY <2>3 DEF Begin, ReturnExisting, ledgerVars, walletVars
  <2>4. ASSUME NEW w \in Workers,
               \/ ReadWallet(w) \/ Refuse(w) \/ UpdateWallet(w) \/ InsertRow(w)
               \/ KeyConflict(w) \/ Rollback(w)
        PROVE  UNCHANGED ledgerVars
    BY <2>4 DEF ReadWallet, Refuse, UpdateWallet, InsertRow, KeyConflict, Rollback
  <2>5. CASE UNCHANGED walletVars
    BY <2>5 DEF walletVars, ledgerVars
  <2> QED BY <2>1, <2>2, <2>3, <2>4, <2>5 DEF WNext, Step
<1> QED
  BY <1>1, <1>2, SerialImpliesWSpec, TypeInvariant, KeyHeldAloneInvariant,
     PendingSoundInvariant, ReadIsCurrentInvariant, PTL
  DEF SerialSpec, ImplementsLedger, Spec

-----------------------------------------------------------------------------
(* The balance is the sum of the ledger.                                   *)

\* Credits and debits of a wallet's rows.
Credits(s) == Total([i \in DOMAIN s |-> s[i].credit], DOMAIN s)
Debits(s) == Total([i \in DOMAIN s |-> s[i].debit], DOMAIN s)

LEMMA SumsOfAppend ==
  ASSUME NEW s \in Seq(Row), NEW r \in Row
  PROVE  /\ Credits(s) \in Nat /\ Debits(s) \in Nat
         /\ Credits(Append(s, r)) = Credits(s) + r.credit
         /\ Debits(Append(s, r)) = Debits(s) + r.debit
<1> DEFINE n == Len(s)
           t == Append(s, r)
<1>1. /\ n \in Nat /\ DOMAIN s = 1..n /\ DOMAIN t = 1..(n + 1)
      /\ \A i \in 1..n : t[i] = s[i] /\ s[i] \in Row
      /\ t[n + 1] = r
  OBVIOUS
<1>2. \A row \in Row : row.credit \in Nat /\ row.debit \in Nat
  <2>1. \A row \in Row : row.credit \in Amounts \cup {0} /\ row.debit \in Amounts \cup {0}
    BY DEF Row
  <2>2. Amounts \cup {0} \subseteq Nat
    BY LedgerAssumption
  <2> QED BY <2>1, <2>2
<1> HIDE DEF n, t
<1>3. PICK fc : fc = [i \in 1..n |-> s[i].credit]
  OBVIOUS
<1>4. PICK gc : gc = [i \in 1..(n + 1) |-> t[i].credit]
  OBVIOUS
<1>5. PICK fd : fd = [i \in 1..n |-> s[i].debit]
  OBVIOUS
<1>6. PICK gd : gd = [i \in 1..(n + 1) |-> t[i].debit]
  OBVIOUS
<1>7. /\ gc[n + 1] \in Nat /\ \A i \in 1..n : fc[i] \in Nat /\ gc[i] = fc[i]
      /\ gc[n + 1] = r.credit
  BY <1>1, <1>2, <1>3, <1>4
<1>8. /\ gd[n + 1] \in Nat /\ \A i \in 1..n : fd[i] \in Nat /\ gd[i] = fd[i]
      /\ gd[n + 1] = r.debit
  BY <1>1, <1>2, <1>5, <1>6
<1>9. /\ Total(fc, 1..n) \in Nat
      /\ Total(gc, 1..(n + 1)) = Total(fc, 1..n) + r.credit
  <2>1. gc[n + 1] \in Nat /\ n \in Nat
    BY <1>1, <1>7
  <2>2. \A i \in 1..n : fc[i] \in Nat /\ gc[i] = fc[i]
    BY <1>7
  <2>3. /\ Total(fc, 1..n) \in Nat
        /\ Total(gc, 1..(n + 1)) = Total(fc, 1..n) + gc[n + 1]
    BY <2>1, <2>2, TotalOfOneMore
  <2> QED BY <1>7, <2>3
<1>10. /\ Total(fd, 1..n) \in Nat
       /\ Total(gd, 1..(n + 1)) = Total(fd, 1..n) + r.debit
  <2>1. gd[n + 1] \in Nat /\ n \in Nat
    BY <1>1, <1>8
  <2>2. \A i \in 1..n : fd[i] \in Nat /\ gd[i] = fd[i]
    BY <1>8
  <2>3. /\ Total(fd, 1..n) \in Nat
        /\ Total(gd, 1..(n + 1)) = Total(fd, 1..n) + gd[n + 1]
    BY <2>1, <2>2, TotalOfOneMore
  <2> QED BY <1>8, <2>3
<1>11. /\ Credits(s) = Total(fc, 1..n) /\ Debits(s) = Total(fd, 1..n)
       /\ Credits(t) = Total(gc, 1..(n + 1)) /\ Debits(t) = Total(gd, 1..(n + 1))
  BY <1>1, <1>3, <1>4, <1>5, <1>6 DEF Credits, Debits
<1> QED BY <1>9, <1>10, <1>11 DEF t

LEMMA NetPostedIs ==
  ASSUME NEW a \in Agencies
  PROVE  NetPosted(a) = Credits(ledger[a]) - Debits(ledger[a])
BY DEF NetPosted, Credits, Debits

\* Every balance is the sum of its ledger, and within the agency's terms.
BalanceSound(b, s, a) == b[a] = Credits(s[a]) - Debits(s[a]) /\ b[a] >= Floor(a)
LedgerInv == \A a \in Agencies : BalanceSound(balance, ledger, a)

LEMMA LedgerInvariant == SerialSpec => []LedgerInv
<1>1. WInit => LedgerInv
  <2> SUFFICES ASSUME WInit, NEW a \in Agencies PROVE BalanceSound(balance, ledger, a)
    BY DEF LedgerInv
  <2>1. balance[a] = 0 /\ ledger[a] = <<>>
    BY DEF WInit, Init
  <2>2. Credits(<<>>) = 0 /\ Debits(<<>>) = 0
    BY TotalEmpty DEF Credits, Debits
  <2>3. 0 >= Floor(a)
    BY LedgerAssumption DEF Floor
  <2> QED BY <2>1, <2>2, <2>3 DEF BalanceSound
<1>2. /\ TypeInv /\ PendingSound /\ ReadIsCurrent /\ LedgerInv
      /\ [WNext /\ NoOverlap']_walletVars
      => LedgerInv'
  <2> SUFFICES ASSUME TypeInv, PendingSound, ReadIsCurrent, LedgerInv, [WNext]_walletVars
               PROVE  LedgerInv'
    OBVIOUS
  <2>1. CASE UNCHANGED <<balance, ledger>>
    BY <2>1 DEF LedgerInv, BalanceSound, Floor
  <2>2. ASSUME NEW w \in Workers, Commit(w), NEW a \in Agencies
        PROVE  BalanceSound(balance', ledger', a)
    <3>1. balance \in [Agencies -> Int] /\ ledger \in [Agencies -> Seq(Row)]
      BY DEF TypeInv, WTypeOK
    <3>2. BalanceSound(balance, ledger, a)
      BY DEF LedgerInv
    <3>3. CASE a = input[w].agency
      <4>1. /\ ledger'[a] = Append(ledger[a], RowOfCall(w))
            /\ balance'[a] = newBalance[w]
            /\ RowOfCall(w) \in Row
            /\ input[w] \in Requests
        BY <2>2, <3>1, <3>3, CommitEffect
      <4>2. /\ RowOfCall(w).credit = input[w].credit
            /\ RowOfCall(w).debit = input[w].debit
        BY DEF RowOfCall
      <4>3. /\ previousBalance[w] = balance[a]
            /\ newBalance[w] = BalanceAfter(previousBalance[w], input[w])
            /\ WithinTerms(input[w], newBalance[w])
        BY <2>2, <3>3 DEF Commit, Computed, ReadIsCurrent, PendingSound
      <4>4. newBalance[w] = balance[a] - input[w].debit + input[w].credit
        BY <4>3 DEF BalanceAfter
      <4>5. input[w].debit \in Nat /\ input[w].credit \in Nat
        BY <4>1, RequestFields, LedgerAssumption
      <4>6. Floor(a) \in Int
        BY LedgerAssumption DEF Floor
      <4>7. balance'[a] >= Floor(a)
        <5>1. CASE input[w].debit > 0
          BY <3>3, <4>1, <4>3, <5>1, DebitsEnforceLimit DEF WithinTerms
        <5>2. CASE input[w].debit = 0
          BY <3>1, <3>2, <4>1, <4>4, <4>5, <4>6, <5>2 DEF BalanceSound
        <5> QED BY <4>5, <5>1, <5>2
      <4>8. /\ Credits(ledger[a]) \in Nat /\ Debits(ledger[a]) \in Nat
            /\ Credits(ledger'[a]) = Credits(ledger[a]) + input[w].credit
            /\ Debits(ledger'[a]) = Debits(ledger[a]) + input[w].debit
        <5> HIDE DEF RowOfCall
        <5>1. ledger[a] \in Seq(Row)
          BY <3>1
        <5> QED BY <5>1, <4>1, <4>2, SumsOfAppend
      <4>9. balance[a] = Credits(ledger[a]) - Debits(ledger[a])
        BY <3>2 DEF BalanceSound
      <4>10. balance'[a] = Credits(ledger'[a]) - Debits(ledger'[a])
        BY <4>1, <4>4, <4>5, <4>8, <4>9
      <4> QED BY <4>7, <4>10 DEF BalanceSound
    <3>4. CASE a # input[w].agency
      <4>1. ledger'[a] = ledger[a] /\ balance'[a] = balance[a]
        BY <2>2, <3>1, <3>4, CommitEffect
      <4> QED BY <3>2, <4>1 DEF BalanceSound
    <3> QED BY <3>3, <3>4
  <2>3. CASE \E w \in Workers : Commit(w)
    BY <2>2, <2>3 DEF LedgerInv, BalanceSound, Floor
  <2> QED BY <2>1, <2>3, OnlyCommitPosts
<1> QED
  BY <1>1, <1>2, SerialImpliesWSpec, TypeInvariant, PendingSoundInvariant,
     ReadIsCurrentInvariant, PTL
  DEF SerialSpec

\* "`balance` is always exactly the sum of transactions and never drifts from
\* its own ledger", and no agency has spent past its credit limit: both hold
\* as long as calls on one agency do not overlap.
THEOREM SerialLedgerAlwaysSound == SerialSpec => []SerialLedgerSound
<1>1. LedgerInv => SerialLedgerSound
  BY NetPostedIs DEF LedgerInv, BalanceSound, SerialLedgerSound, BalanceIsLedgerSum, SpendWithinTerms
<1> QED BY <1>1, LedgerInvariant, PTL
=============================================================================
