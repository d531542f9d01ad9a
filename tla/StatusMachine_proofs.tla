------------------------ MODULE StatusMachine_proofs ------------------------
(***************************************************************************)
(* Proofs about StatusMachine, for any set of concurrent callers.          *)
(***************************************************************************)
EXTENDS StatusMachine, TLAPS

\* Every transition a caller has read for is an edge of the table: it was
\* checked then, and the table never changes.
PendingAllowed ==
  \A c \in Callers : tx[c] # NoTx => IsTransitionAllowed(tx[c].from, tx[c].to)

\* The table names statuses only, and NoBooking is none of them.
LEMMA TableLemma ==
  /\ DOMAIN ALLOWED_BOOKING_TRANSITIONS = Statuses
  /\ \A s \in Statuses : ALLOWED_BOOKING_TRANSITIONS[s] \subseteq Statuses
  /\ NoBooking \notin Statuses
  BY DEF ALLOWED_BOOKING_TRANSITIONS, Statuses, NoBooking

\* An edge of the table never leads to an earlier stage.
LEMMA StageLemma ==
  ASSUME NEW s \in Statuses, NEW t \in Statuses, IsTransitionAllowed(s, t)
  PROVE  Stage[t] >= Stage[s]
  BY DEF IsTransitionAllowed, ALLOWED_BOOKING_TRANSITIONS, Statuses, Stage

-----------------------------------------------------------------------------
\* The state of the machine is always well-formed: the status column holds a
\* status of the enum, the history rows and the open transactions name
\* statuses on both sides.
THEOREM TypeCorrect == Spec => []TypeOK
<1>1. Init => TypeOK
  BY DEF Init, TypeOK
<1>2. TypeOK /\ [Next]_vars => TypeOK'
  <2> SUFFICES ASSUME TypeOK, [Next]_vars PROVE TypeOK'
    OBVIOUS
  <2>1. CASE Create
    BY <2>1 DEF Create, TypeOK, Statuses
  <2>2. ASSUME NEW c \in Callers, NEW to \in Statuses, Read(c, to) PROVE TypeOK'
    <3>1. status \in Statuses
      BY <2>2 DEF TypeOK, Read
    <3>2. [from |-> status, to |-> to] \in HistoryRow
      BY <3>1 DEF HistoryRow
    <3> QED BY <2>2, <3>2 DEF Read, TypeOK
  <2>3. ASSUME NEW c \in Callers, Commit(c) PROVE TypeOK'
    <3>1. tx[c] \in HistoryRow
      BY <2>3 DEF TypeOK, Commit
    <3>2. tx[c].to \in Statuses
      BY <3>1 DEF HistoryRow
    <3> QED BY <2>3, <3>1, <3>2 DEF Commit, TypeOK
  <2>4. ASSUME NEW c \in Callers, Rollback(c) PROVE TypeOK'
    BY <2>4 DEF Rollback, TypeOK
  <2>5. CASE UNCHANGED vars
    BY <2>5 DEF vars, TypeOK
  <2> QED BY <2>1, <2>2, <2>3, <2>4, <2>5 DEF Next
<1> QED BY <1>1, <1>2, PTL DEF Spec

-----------------------------------------------------------------------------
\* "the status column and its audit trail can never drift apart", whatever
\* transitions overlap.
THEOREM StatusRecorded == Spec => []StatusIsLastRecorded
<1>1. Init => StatusIsLastRecorded
  BY DEF Init, StatusIsLastRecorded
<1>2. TypeOK /\ StatusIsLastRecorded /\ [Next]_vars => StatusIsLastRecorded'
  <2> SUFFICES ASSUME TypeOK, StatusIsLastRecorded, [Next]_vars
               PROVE  StatusIsLastRecorded'
    OBVIOUS
  <2>1. CASE Create
    <3>1. history = <<>>
      <4> SUFFICES ASSUME history # <<>> PROVE FALSE
        OBVIOUS
      <4>1. Len(history) \in DOMAIN history
        BY DEF TypeOK
      <4>2. history[Len(history)] \in HistoryRow
        BY <4>1 DEF TypeOK
      <4> QED BY <2>1, <4>2, TableLemma DEF StatusIsLastRecorded, Create, HistoryRow
    <3> QED BY <2>1, <3>1 DEF Create, StatusIsLastRecorded
  <2>2. ASSUME NEW c \in Callers, NEW to \in Statuses, Read(c, to)
        PROVE  StatusIsLastRecorded'
    BY <2>2 DEF Read, StatusIsLastRecorded
  <2>3. ASSUME NEW c \in Callers, Commit(c) PROVE StatusIsLastRecorded'
    <3>1. tx[c] \in HistoryRow
      BY <2>3 DEF TypeOK, Commit
    <3>2. /\ history' # <<>>
          /\ history'[Len(history')] = tx[c]
      BY <2>3, <3>1 DEF Commit, TypeOK
    <3> QED BY <2>3, <3>2 DEF Commit, StatusIsLastRecorded
  <2>4. ASSUME NEW c \in Callers, Rollback(c) PROVE StatusIsLastRecorded'
    BY <2>4 DEF Rollback, StatusIsLastRecorded
  <2>5. CASE UNCHANGED vars
    BY <2>5 DEF vars, StatusIsLastRecorded
  <2> QED BY <2>1, <2>2, <2>3, <2>4, <2>5 DEF Next
<1> QED BY <1>1, <1>2, TypeCorrect, PTL DEF Spec

-----------------------------------------------------------------------------
\* An open transition is an edge of the table at all times.
LEMMA PendingIsAllowed == Spec => []PendingAllowed
<1>1. Init => PendingAllowed
  BY DEF Init, PendingAllowed
<1>2. TypeOK /\ PendingAllowed /\ [Next]_vars => PendingAllowed'
  BY DEF Next, vars, Create, Read, Commit, Rollback, PendingAllowed, TypeOK
<1> QED BY <1>1, <1>2, TypeCorrect, PTL DEF Spec

\* "Every transition is checked against ALLOWED_BOOKING_TRANSITIONS": however
\* many requests move the booking at once, every recorded change is an edge
\* of the table.
THEOREM EdgesAllowed == Spec => []HistoryEdgesAllowed
<1>1. Init => HistoryEdgesAllowed
  BY DEF Init, HistoryEdgesAllowed
<1>2. TypeOK /\ PendingAllowed /\ HistoryEdgesAllowed /\ [Next]_vars
      => HistoryEdgesAllowed'
  <2> SUFFICES ASSUME TypeOK, PendingAllowed, HistoryEdgesAllowed, [Next]_vars
               PROVE  HistoryEdgesAllowed'
    OBVIOUS
  <2>1. CASE UNCHANGED history
    BY <2>1 DEF HistoryEdgesAllowed
  <2>2. ASSUME NEW c \in Callers, Commit(c) PROVE HistoryEdgesAllowed'
    <3>1. /\ tx[c] \in HistoryRow
          /\ IsTransitionAllowed(tx[c].from, tx[c].to)
      BY <2>2 DEF TypeOK, Commit, PendingAllowed
    <3>2. ASSUME NEW i \in DOMAIN history'
          PROVE  IsTransitionAllowed(history'[i].from, history'[i].to)
      <4>1. \/ i \in DOMAIN history /\ history'[i] = history[i]
            \/ history'[i] = tx[c]
        BY <2>2, <3>1 DEF Commit, TypeOK
      <4> QED BY <3>1, <4>1 DEF HistoryEdgesAllowed
    <3> QED BY <3>2 DEF HistoryEdgesAllowed, IsTransitionAllowed
  <2> QED BY <2>1, <2>2 DEF Next, vars, Create, Read, Rollback
<1> QED BY <1>1, <1>2, TypeCorrect, PendingIsAllowed, PTL DEF Spec

-----------------------------------------------------------------------------
(* What holds when no two transitions of the booking overlap.              *)

\* An open transition started from the status the booking still has.
PendingCurrent == \A c \in Callers : tx[c] # NoTx => tx[c].from = status

LEMMA SerialImplementsSpec == SerialSpec => Spec
  BY PTL DEF SerialSpec, Spec

LEMMA NeverOverlapping == SerialSpec => []NoOverlap
<1>1. Init => NoOverlap
  BY DEF Init, NoOverlap
<1>2. NoOverlap /\ [Next /\ NoOverlap']_vars => NoOverlap'
  BY DEF vars, NoOverlap
<1> QED BY <1>1, <1>2, PTL DEF SerialSpec

LEMMA NeverStale == SerialSpec => []PendingCurrent
<1>1. Init => PendingCurrent
  BY DEF Init, PendingCurrent
<1>2. /\ TypeOK /\ NoOverlap /\ PendingCurrent
      /\ [Next /\ NoOverlap']_vars
      => PendingCurrent'
  <2> SUFFICES ASSUME TypeOK, NoOverlap, PendingCurrent, [Next]_vars
               PROVE  PendingCurrent'
    OBVIOUS
  <2>1. CASE Create
    <3>1. ASSUME NEW c \in Callers, tx[c] # NoTx PROVE FALSE
      <4>1. tx[c] \in HistoryRow
        BY <3>1 DEF TypeOK
      <4>2. tx[c].from = NoBooking
        BY <2>1, <3>1 DEF PendingCurrent, Create
      <4> QED BY <4>1, <4>2, TableLemma DEF HistoryRow
    <3> QED BY <2>1, <3>1 DEF Create, PendingCurrent
  <2>2. ASSUME NEW c \in Callers, NEW to \in Statuses, Read(c, to)
        PROVE  PendingCurrent'
    BY <2>2 DEF Read, PendingCurrent, TypeOK
  <2>3. ASSUME NEW c \in Callers, Commit(c) PROVE PendingCurrent'
    <3>1. \A d \in Callers : d # c => tx[d] = NoTx
      BY <2>3 DEF Commit, NoOverlap
    <3> QED BY <2>3, <3>1 DEF Commit, PendingCurrent, TypeOK
  <2>4. ASSUME NEW c \in Callers, Rollback(c) PROVE PendingCurrent'
    BY <2>4 DEF Rollback, PendingCurrent, TypeOK
  <2>5. CASE UNCHANGED vars
    BY <2>5 DEF vars, PendingCurrent
  <2> QED BY <2>1, <2>2, <2>3, <2>4, <2>5 DEF Next
<1> QED
  BY <1>1, <1>2, SerialImplementsSpec, TypeCorrect, NeverOverlapping, PTL DEF SerialSpec

\* The audit trail is one unbroken story of the booking, from SEARCHED on, as
\* long as transitions do not overlap.
THEOREM SerialHistoryUnbroken == SerialSpec => []HistoryUnbroken
<1>1. Init => HistoryUnbroken
  BY DEF Init, HistoryUnbroken
<1>2. /\ TypeOK /\ StatusIsLastRecorded /\ PendingCurrent /\ HistoryUnbroken
      /\ [Next /\ NoOverlap']_vars
      => HistoryUnbroken'
  <2> SUFFICES ASSUME TypeOK, StatusIsLastRecorded, PendingCurrent,
                      HistoryUnbroken, [Next]_vars
               PROVE  HistoryUnbroken'
    OBVIOUS
  <2>1. CASE UNCHANGED history
    BY <2>1 DEF HistoryUnbroken
  <2>2. ASSUME NEW c \in Callers, Commit(c) PROVE HistoryUnbroken'
    <3>1. tx[c] \in HistoryRow /\ tx[c].from = status
      BY <2>2 DEF TypeOK, Commit, PendingCurrent
    <3>2. status # NoBooking
      BY <3>1, TableLemma DEF HistoryRow
    <3>3. ASSUME NEW i \in DOMAIN history'
          PROVE  history'[i].from = IF i = 1 THEN "SEARCHED" ELSE history'[i - 1].to
      <4>1. i \in DOMAIN history \/ i = Len(history) + 1
        BY <2>2, <3>1, <3>3 DEF Commit, TypeOK
      <4>2. CASE i \in DOMAIN history
        <5>1. history'[i] = history[i]
          BY <2>2, <3>1, <4>2 DEF Commit, TypeOK
        <5>2. i # 1 => history'[i - 1] = history[i - 1]
          BY <2>2, <3>1, <4>2 DEF Commit, TypeOK
        <5> QED BY <4>2, <5>1, <5>2 DEF HistoryUnbroken
      <4>3. CASE i = Len(history) + 1
        <5>1. history'[i] = tx[c]
          BY <2>2, <3>1, <4>3 DEF Commit, TypeOK
        <5>2. CASE history = <<>>
          BY <3>1, <3>2, <4>3, <5>1, <5>2 DEF StatusIsLastRecorded
        <5>3. CASE history # <<>>
          <6>1. i # 1 /\ i - 1 = Len(history)
            BY <4>3, <5>3 DEF TypeOK
          <6>2. history'[i - 1] = history[Len(history)]
            BY <2>2, <3>1, <5>3, <6>1 DEF Commit, TypeOK
          <6> QED BY <3>1, <5>1, <5>3, <6>1, <6>2 DEF StatusIsLastRecorded
        <5> QED BY <5>2, <5>3
      <4> QED BY <4>1, <4>2, <4>3
    <3> QED BY <3>3 DEF HistoryUnbroken
  <2> QED BY <2>1, <2>2 DEF Next, vars, Create, Read, Rollback
<1> QED
  BY <1>1, <1>2, SerialImplementsSpec, TypeCorrect, StatusRecorded, NeverStale, PTL
  DEF SerialSpec

\* One step of the machine moves the status along an edge of the table.
LEMMA StepFollowsTable ==
  ASSUME TypeOK, PendingAllowed, PendingCurrent, [Next]_vars
  PROVE  status # NoBooking /\ status' # status => IsTransitionAllowed(status, status')
<1>1. CASE status' = status
  BY <1>1
<1>2. CASE Create
  BY <1>2 DEF Create
<1>3. ASSUME NEW c \in Callers, Commit(c) PROVE IsTransitionAllowed(status, status')
  BY <1>3 DEF Commit, PendingAllowed, PendingCurrent
<1> QED BY <1>1, <1>2, <1>3 DEF Next, vars, Read, Rollback

\* The status column only moves along edges of the table, so a terminal
\* status is final, as long as transitions do not overlap.
THEOREM SerialStatusFollowsTable == SerialSpec => StatusFollowsTable
<1>1. TypeOK /\ PendingAllowed /\ PendingCurrent /\ [Next /\ NoOverlap']_vars
      => [status # NoBooking /\ status' # status => IsTransitionAllowed(status, status')]_vars
  BY StepFollowsTable
<1> QED
  BY <1>1, SerialImplementsSpec, TypeCorrect, PendingIsAllowed, NeverStale, PTL
  DEF SerialSpec, StatusFollowsTable

\* No booking returns to an earlier stage of its life, as long as transitions
\* do not overlap.
THEOREM SerialStageNeverDecreases == SerialSpec => StageNeverDecreases
<1>1. TypeOK /\ TypeOK' /\ PendingAllowed /\ PendingCurrent /\ [Next /\ NoOverlap']_vars
      => [status # NoBooking => Stage[status'] >= Stage[status]]_vars
  <2> SUFFICES ASSUME TypeOK, TypeOK', PendingAllowed, PendingCurrent, [Next]_vars,
                      status # NoBooking
               PROVE  Stage[status'] >= Stage[status]
    OBVIOUS
  <2>1. status \in Statuses
    BY DEF TypeOK
  <2>2. status' = status \/ IsTransitionAllowed(status, status')
    BY StepFollowsTable
  <2>3. Stage[status] \in Nat
    BY <2>1 DEF Stage, Statuses
  <2>4. CASE status' = status
    BY <2>3, <2>4
  <2>5. CASE IsTransitionAllowed(status, status')
    <3>1. status' \in Statuses
      BY <2>1, <2>5, TableLemma DEF IsTransitionAllowed
    <3> QED BY <2>1, <2>5, <3>1, StageLemma
  <2> QED BY <2>2, <2>4, <2>5
<1> QED
  BY <1>1, SerialImplementsSpec, TypeCorrect, PendingIsAllowed, NeverStale, PTL
  DEF SerialSpec, StageNeverDecreases
=============================================================================
