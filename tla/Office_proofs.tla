--------------------------- MODULE Office_proofs ----------------------------
(***************************************************************************)
(* Proofs about the back office: applications, agencies, sessions, the second*)
(* factor and its codes, the login throttle and roles, each for any number of*)
(* requests that overlap or die; then about the run that joins them.       *)
(***************************************************************************)
EXTENDS MC_Office, StatusMachine_proofs, SequenceTheorems, FiniteSetTheorems, TLAPS
-----------------------------------------------------------------------------
(* Visa and job applications (Workflows).                                  *)

StatusesOf(a) == DOMAIN TransitionsOf(a)

\* A change that is under review is one its service allows, of an application
\* that was made; until reviews overlap, of the status it still has, and no
\* other one is under review.
ReviewsAreChecked ==
  \A r \in Reviewers : review[r] # NoReview =>
    LET a == review[r].app IN
      /\ appHistory[a] # <<>>
      /\ review[r].from \in StatusesOf(a) /\ review[r].to \in TransitionsOf(a)[review[r].from]
      /\ a \notin reviewOverlap =>
           /\ review[r].from = appStatus[a]
           /\ \A q \in Reviewers : review[q] # NoReview /\ review[q].app = a => q = r

\* Once selected, a job application has one of these statuses.
AfterSelection == {"SELECTED", "VISA_PROCESSING", "DEPLOYED", "REJECTED"}
SelectionLasts ==
  \A a \in JobApplications \ reviewOverlap :
    (\E i \in DOMAIN appHistory[a] : appHistory[a][i].to = "SELECTED") => appStatus[a] \in AfterSelection

WorkInv ==
  /\ AppTypeOK
  /\ AppStatusIsLastRow
  /\ AppRowsAllowed
  /\ ReviewsAreChecked
  /\ AppHistoryUnbroken
  /\ SelectionLasts
  /\ FilledCountsApplications

LEMMA WorkSets ==
  /\ IsFiniteSet(JobApplications) /\ VisaApplications \cap JobApplications = {}
  /\ ReviewLimit \in Nat
BY WorkflowAssumption

LEMMA TableDomains ==
  /\ DOMAIN VisaTransitions =
       {"SUBMITTED", "UNDER_REVIEW", "ADDITIONAL_INFO_REQUIRED", "APPROVED", "REJECTED"}
  /\ DOMAIN JobTransitions =
       {"SUBMITTED", "UNDER_REVIEW", "SHORTLISTED", "INTERVIEW_SCHEDULED", "SELECTED",
        "VISA_PROCESSING", "DEPLOYED", "REJECTED", "WITHDRAWN"}
BY DEF VisaTransitions, JobTransitions

LEMMA VisaTable ==
  \A from \in DOMAIN VisaTransitions : VisaTransitions[from] \subseteq DOMAIN VisaTransitions
<1>1. /\ VisaTransitions["SUBMITTED"] = {"UNDER_REVIEW", "ADDITIONAL_INFO_REQUIRED", "APPROVED", "REJECTED"}
      /\ VisaTransitions["UNDER_REVIEW"] = {"ADDITIONAL_INFO_REQUIRED", "APPROVED", "REJECTED"}
      /\ VisaTransitions["ADDITIONAL_INFO_REQUIRED"] = {"UNDER_REVIEW", "REJECTED"}
      /\ VisaTransitions["APPROVED"] = {}
      /\ VisaTransitions["REJECTED"] = {}
  BY DEF VisaTransitions
<1> QED BY <1>1, TableDomains

LEMMA JobTable ==
  /\ \A from \in DOMAIN JobTransitions : JobTransitions[from] \subseteq DOMAIN JobTransitions
  /\ \A from \in AfterSelection : JobTransitions[from] \subseteq AfterSelection
<1>1. /\ JobTransitions["SUBMITTED"] = {"UNDER_REVIEW", "SHORTLISTED", "REJECTED", "WITHDRAWN"}
      /\ JobTransitions["UNDER_REVIEW"] = {"SHORTLISTED", "REJECTED", "WITHDRAWN"}
      /\ JobTransitions["SHORTLISTED"] = {"INTERVIEW_SCHEDULED", "REJECTED", "WITHDRAWN"}
      /\ JobTransitions["INTERVIEW_SCHEDULED"] = {"SELECTED", "REJECTED", "WITHDRAWN"}
      /\ JobTransitions["SELECTED"] = {"VISA_PROCESSING", "REJECTED"}
      /\ JobTransitions["VISA_PROCESSING"] = {"DEPLOYED", "REJECTED"}
      /\ JobTransitions["DEPLOYED"] = {}
      /\ JobTransitions["REJECTED"] = {}
      /\ JobTransitions["WITHDRAWN"] = {}
  BY DEF JobTransitions
<1> QED BY <1>1, TableDomains DEF AfterSelection

\* Both tables stay among their statuses.
LEMMA TransitionsStay ==
  ASSUME NEW a \in Applications
  PROVE  /\ StatusesOf(a) \subseteq AppStatuses
         /\ "SUBMITTED" \in StatusesOf(a) /\ "NONE" \notin StatusesOf(a)
         /\ \A from \in StatusesOf(a) : TransitionsOf(a)[from] \subseteq StatusesOf(a)
         /\ a \in JobApplications => TransitionsOf(a) = JobTransitions
<1>1. CASE a \in VisaApplications
  <2>1. TransitionsOf(a) = VisaTransitions /\ a \notin JobApplications
    BY <1>1, WorkSets DEF TransitionsOf
  <2> QED BY <2>1, VisaTable, TableDomains DEF StatusesOf, AppStatuses
<1>2. CASE a \notin VisaApplications
  <2>1. TransitionsOf(a) = JobTransitions
    BY <1>2 DEF TransitionsOf
  <2> QED BY <2>1, JobTable, TableDomains DEF StatusesOf, AppStatuses
<1> QED BY <1>1, <1>2

LEMMA NoneIsNoStatus == "NONE" \notin AppStatuses /\ "SUBMITTED" \in AppStatuses
BY TableDomains DEF AppStatuses

\* An application that was made has a history and a status of its service.
LEMMA StatusOfHistory ==
  ASSUME AppTypeOK, AppStatusIsLastRow, AppRowsAllowed, NEW a \in Applications
  PROVE  /\ appHistory[a] \in Seq(AppRow) /\ Len(appHistory[a]) \in Nat
         /\ DOMAIN appHistory[a] = 1..Len(appHistory[a])
         /\ appHistory[a] = <<>> => appStatus[a] = "NONE" /\ Len(appHistory[a]) = 0
         /\ appHistory[a] # <<>> => /\ appStatus[a] \in StatusesOf(a) /\ appStatus[a] # "NONE"
                                    /\ Len(appHistory[a]) > 0
                                    /\ appStatus[a] = appHistory[a][Len(appHistory[a])].to
<1>1. /\ appHistory[a] \in Seq(AppRow) /\ Len(appHistory[a]) \in Nat
      /\ DOMAIN appHistory[a] = 1..Len(appHistory[a])
  BY LenProperties DEF AppTypeOK
<1>2. appHistory[a] = <<>> => appStatus[a] = "NONE" /\ Len(appHistory[a]) = 0
  BY DEF AppStatusIsLastRow
<1>3. ASSUME appHistory[a] # <<>>
      PROVE  /\ appStatus[a] \in StatusesOf(a) /\ appStatus[a] # "NONE"
             /\ Len(appHistory[a]) > 0
             /\ appStatus[a] = appHistory[a][Len(appHistory[a])].to
  <2> DEFINE n == Len(appHistory[a])
             row == appHistory[a][n]
  <2>1. n > 0 /\ n \in DOMAIN appHistory[a]
    BY <1>1, <1>3, EmptySeq
  <2>2. appStatus[a] = row.to
    BY <1>3 DEF AppStatusIsLastRow
  <2>3. IF n = 1 THEN row = FirstRow
        ELSE row.from \in StatusesOf(a) /\ row.to \in TransitionsOf(a)[row.from]
    BY <2>1 DEF AppRowsAllowed, StatusesOf
  <2>4. FirstRow.to = "SUBMITTED"
    BY DEF FirstRow
  <2> HIDE DEF n, row
  <2>5. row.to \in StatusesOf(a)
    BY <2>3, <2>4, TransitionsStay
  <2> QED BY <2>1, <2>2, <2>5, TransitionsStay DEF n, row
<1> QED BY <1>1, <1>2, <1>3

LEMMA ReviewFields ==
  ASSUME AppTypeOK, NEW r \in Reviewers, review[r] # NoReview
  PROVE  review[r].app \in Applications /\ review[r].from \in AppStatuses /\ review[r].to \in AppStatuses
BY DEF AppTypeOK

LEMMA WorkInitInv == WorkflowInit => WorkInv
<1> SUFFICES ASSUME WorkflowInit PROVE WorkInv
  OBVIOUS
<1>1. AppTypeOK
  <2>1. \A a \in Applications : <<>> \in Seq(AppRow)
    OBVIOUS
  <2> QED BY <2>1 DEF WorkflowInit, AppTypeOK
<1>2. /\ AppStatusIsLastRow /\ AppRowsAllowed /\ ReviewsAreChecked /\ AppHistoryUnbroken /\ SelectionLasts
  <2>1. \A a \in Applications : appHistory[a] = <<>> /\ Len(appHistory[a]) = 0 /\ DOMAIN appHistory[a] = {}
    BY DEF WorkflowInit
  <2>2. JobApplications \subseteq Applications
    BY DEF Applications
  <2> QED BY <2>1, <2>2 DEF WorkflowInit, AppStatusIsLastRow, AppRowsAllowed, ReviewsAreChecked, AppHistoryUnbroken,
                      SelectionLasts
<1>3. FilledCountsApplications
  <2>1. {a \in JobApplications : appStatus[a] # "NONE"} = {}
    BY DEF WorkflowInit, Applications
  <2> QED BY <2>1, FS_EmptySet DEF WorkflowInit, FilledCountsApplications
<1> QED BY <1>1, <1>2, <1>3 DEF WorkInv

\* The applications that count, when one more is made or none.
LEMMA FilledStays ==
  ASSUME FilledCountsApplications, UNCHANGED positionsFilled,
         \A a \in JobApplications : appStatus'[a] = "NONE" <=> appStatus[a] = "NONE"
  PROVE  FilledCountsApplications'
<1>1. {a \in JobApplications : appStatus'[a] # "NONE"} = {a \in JobApplications : appStatus[a] # "NONE"}
  OBVIOUS
<1> QED BY <1>1 DEF FilledCountsApplications

\* An application is made.
LEMMA SubmitInv ==
  ASSUME WorkInv, NEW a \in Applications, Submit(a), applying' \subseteq JobApplications,
         UNCHANGED <<jobActive, review, reviewOverlap>>, positionsFilled' \in Nat,
         FilledCountsApplications'
  PROVE  WorkInv'
<1>1. /\ appStatus[a] = "NONE" /\ appStatus' = [appStatus EXCEPT ![a] = "SUBMITTED"]
      /\ appHistory' = [appHistory EXCEPT ![a] = <<FirstRow>>]
  BY DEF Submit
<1>2. FirstRow \in AppRow /\ FirstRow.to = "SUBMITTED"
  BY NoneIsNoStatus DEF FirstRow, AppRow
<1>3. /\ appStatus'[a] = "SUBMITTED" /\ appHistory'[a] = <<FirstRow>>
      /\ \A b \in Applications \ {a} : appStatus'[b] = appStatus[b] /\ appHistory'[b] = appHistory[b]
  BY <1>1 DEF WorkInv, AppTypeOK
<1>4. /\ <<FirstRow>> \in Seq(AppRow) /\ Len(<<FirstRow>>) = 1 /\ <<FirstRow>>[1] = FirstRow
      /\ DOMAIN <<FirstRow>> = {1} /\ <<FirstRow>> # <<>>
  BY <1>2
<1>5. appHistory[a] = <<>>
  BY <1>1, StatusOfHistory DEF WorkInv
<1>6. AppTypeOK'
  BY <1>1, <1>4, NoneIsNoStatus DEF WorkInv, AppTypeOK
<1>7. AppStatusIsLastRow'
  BY <1>2, <1>3, <1>4 DEF WorkInv, AppStatusIsLastRow
<1>8. AppRowsAllowed'
  BY <1>3, <1>4 DEF WorkInv, AppRowsAllowed
<1>9. ReviewsAreChecked'
  <2>1. \A r \in Reviewers : review[r] # NoReview => review[r].app \in Applications \ {a}
    BY <1>5, ReviewFields DEF WorkInv, ReviewsAreChecked
  <2> QED BY <2>1, <1>3 DEF WorkInv, ReviewsAreChecked
<1>10. AppHistoryUnbroken'
  BY <1>3, <1>4 DEF WorkInv, AppHistoryUnbroken
<1>11. SelectionLasts'
  <2>1. JobApplications \subseteq Applications
    BY DEF Applications
  <2> QED BY <2>1, <1>2, <1>3, <1>4 DEF WorkInv, SelectionLasts
<1> QED BY <1>6, <1>7, <1>8, <1>9, <1>10, <1>11 DEF WorkInv

LEMMA ApplyVisaInv ==
  ASSUME WorkInv, NEW a \in Applications, ApplyVisa(a) PROVE WorkInv'
<1>1. /\ a \in VisaApplications /\ Submit(a)
      /\ UNCHANGED <<applying, jobActive, positionsFilled, review, reviewOverlap>>
  BY DEF ApplyVisa
<1>2. \A b \in JobApplications : appStatus'[b] = appStatus[b]
  <2>1. \A b \in JobApplications : b \in Applications /\ b # a
    BY <1>1, WorkSets DEF Applications
  <2> QED BY <2>1, <1>1 DEF Submit, WorkInv, AppTypeOK
<1>3. FilledCountsApplications'
  BY <1>1, <1>2, FilledStays DEF WorkInv
<1> QED BY <1>1, <1>3, SubmitInv DEF WorkInv, AppTypeOK

LEMMA ApplyJobInv ==
  ASSUME WorkInv, NEW a \in Applications, ApplyJob(a) PROVE WorkInv'
<1>1. /\ a \in JobApplications /\ Submit(a) /\ positionsFilled' = positionsFilled + 1
      /\ applying' = applying \ {a} /\ UNCHANGED <<jobActive, review, reviewOverlap>>
  BY DEF ApplyJob, WorkInv, AppTypeOK
<1> DEFINE made == {b \in JobApplications : appStatus[b] # "NONE"}
<1>2. {b \in JobApplications : appStatus'[b] # "NONE"} = made \cup {a} /\ a \notin made
  <2>1. /\ appStatus[a] = "NONE" /\ appStatus'[a] = "SUBMITTED"
        /\ \A b \in Applications \ {a} : appStatus'[b] = appStatus[b]
    BY <1>1 DEF Submit, WorkInv, AppTypeOK
  <2>2. JobApplications \subseteq Applications
    BY DEF Applications
  <2> QED BY <2>1, <2>2, <1>1
<1>3. IsFiniteSet(made)
  BY WorkSets, FS_Subset
<1> HIDE DEF made
<1>4. Cardinality(made \cup {a}) = Cardinality(made) + 1
  BY <1>2, <1>3, FS_AddElement
<1>5. positionsFilled = Cardinality(made)
  BY DEF WorkInv, FilledCountsApplications, made
<1>6. FilledCountsApplications'
  BY <1>1, <1>2, <1>4, <1>5 DEF FilledCountsApplications
<1>7. positionsFilled' \in Nat
  BY <1>1 DEF WorkInv, AppTypeOK
<1> QED BY <1>1, <1>6, <1>7, SubmitInv DEF WorkInv, AppTypeOK

\* Nothing but requests and the job changes.
LEMMA RowsStay ==
  ASSUME WorkInv, UNCHANGED <<appStatus, appHistory, positionsFilled, reviewOverlap>>,
         applying' \subseteq JobApplications, jobActive' \in BOOLEAN,
         UNCHANGED review \/ \E r \in Reviewers : review' = [review EXCEPT ![r] = NoReview]
  PROVE  WorkInv'
<1>1. AppTypeOK'
  BY DEF WorkInv, AppTypeOK
<1>2. \A q \in Reviewers : review'[q] = review[q] \/ review'[q] = NoReview
  BY DEF WorkInv, AppTypeOK
<1>3. ReviewsAreChecked'
  BY <1>2 DEF WorkInv, ReviewsAreChecked
<1>4. AppStatusIsLastRow' /\ AppRowsAllowed' /\ AppHistoryUnbroken' /\ SelectionLasts' /\ FilledCountsApplications'
  BY DEF WorkInv, AppStatusIsLastRow, AppRowsAllowed, AppHistoryUnbroken, SelectionLasts,
         FilledCountsApplications
<1> QED BY <1>1, <1>3, <1>4 DEF WorkInv

LEMMA ReadApplicationInv ==
  ASSUME WorkInv, NEW r \in Reviewers, NEW a \in Applications, NEW to \in AppStatuses,
         ReadApplication(r, a, to)
  PROVE  WorkInv'
<1> DEFINE read == [app |-> a, from |-> appStatus[a], to |-> to]
<1>1. /\ review[r] = NoReview /\ appStatus[a] # "NONE" /\ to \in TransitionsOf(a)[appStatus[a]]
      /\ review' = [review EXCEPT ![r] = read]
      /\ reviewOverlap' = IF \E q \in Reviewers \ {r} : review[q].app = a
                          THEN reviewOverlap \cup {a} ELSE reviewOverlap
      /\ UNCHANGED <<appStatus, appHistory, applying, jobActive, positionsFilled>>
  BY DEF ReadApplication, NoteReview
<1>2. appHistory[a] # <<>> /\ appStatus[a] \in StatusesOf(a) /\ appStatus[a] \in AppStatuses
  BY <1>1, StatusOfHistory, TransitionsStay DEF WorkInv
<1>3. /\ read.app = a /\ read.from = appStatus[a] /\ read.to = to
      /\ read \in [app : Applications, from : AppStatuses, to : AppStatuses]
      /\ read # NoReview
  BY <1>2, NoneIsNoStatus DEF NoReview
<1> HIDE DEF read
<1>4. review'[r] = read /\ \A q \in Reviewers \ {r} : review'[q] = review[q]
  BY <1>1 DEF WorkInv, AppTypeOK
<1>5. reviewOverlap \subseteq reviewOverlap' /\ reviewOverlap' \subseteq Applications
      /\ \A b \in Applications \ {a} : b \in reviewOverlap' => b \in reviewOverlap
  BY <1>1 DEF WorkInv, AppTypeOK
<1>6. AppTypeOK'
  BY <1>1, <1>3, <1>5 DEF WorkInv, AppTypeOK
<1>7. ReviewsAreChecked'
  <2> SUFFICES ASSUME NEW q \in Reviewers, review'[q] # NoReview
               PROVE  LET b == review'[q].app IN
                        /\ appHistory[b] # <<>>
                        /\ review'[q].from \in StatusesOf(b) /\ review'[q].to \in TransitionsOf(b)[review'[q].from]
                        /\ b \notin reviewOverlap' =>
                             /\ review'[q].from = appStatus[b]
                             /\ \A p \in Reviewers : review'[p] # NoReview /\ review'[p].app = b => p = q
    BY <1>1 DEF ReviewsAreChecked
  <2>1. CASE q = r
    <3>1. ASSUME a \notin reviewOverlap', NEW p \in Reviewers, review'[p].app = a
          PROVE  p = r
      BY <3>1, <1>1, <1>4
    <3> QED BY <2>1, <3>1, <1>1, <1>2, <1>3, <1>4
  <2>2. CASE q # r
    <3> DEFINE b == review[q].app
    <3>1. review'[q] = review[q] /\ review[q] # NoReview
      BY <2>2, <1>4
    <3>2. /\ appHistory[b] # <<>>
          /\ review[q].from \in StatusesOf(b) /\ review[q].to \in TransitionsOf(b)[review[q].from]
      BY <3>1 DEF WorkInv, ReviewsAreChecked
    <3>3. ASSUME b \notin reviewOverlap'
          PROVE  /\ review[q].from = appStatus[b]
                 /\ \A p \in Reviewers : review'[p] # NoReview /\ review'[p].app = b => p = q
      <4>1. b \notin reviewOverlap
        BY <3>3, <1>5
      <4>2. b # a
        BY <3>3, <2>2, <1>1
      <4>3. /\ review[q].from = appStatus[b]
            /\ \A p \in Reviewers : review[p] # NoReview /\ review[p].app = b => p = q
        BY <3>1, <4>1 DEF WorkInv, ReviewsAreChecked
      <4> QED BY <4>2, <4>3, <1>3, <1>4
    <3> QED BY <3>1, <3>2, <3>3
  <2> QED BY <2>1, <2>2
<1>8. AppStatusIsLastRow' /\ AppRowsAllowed' /\ FilledCountsApplications'
  BY <1>1 DEF WorkInv, AppStatusIsLastRow, AppRowsAllowed, FilledCountsApplications
<1>9. AppHistoryUnbroken'
  BY <1>1, <1>5 DEF WorkInv, AppHistoryUnbroken
<1>10. SelectionLasts'
  BY <1>1, <1>5 DEF WorkInv, SelectionLasts
<1> QED BY <1>6, <1>7, <1>8, <1>9, <1>10 DEF WorkInv

LEMMA WriteReviewInv ==
  ASSUME WorkInv, NEW r \in Reviewers, WriteReview(r) PROVE WorkInv'
<1> DEFINE a == review[r].app
           row == [from |-> review[r].from, to |-> review[r].to]
           n == Len(appHistory[a])
<1>1. /\ review[r] # NoReview
      /\ appStatus' = [appStatus EXCEPT ![a] = review[r].to]
      /\ appHistory' = [appHistory EXCEPT ![a] = Append(@, row)]
      /\ review' = [review EXCEPT ![r] = NoReview]
      /\ UNCHANGED <<applying, jobActive, positionsFilled, reviewOverlap>>
  BY DEF WriteReview
<1>2. a \in Applications /\ review[r].from \in AppStatuses /\ review[r].to \in AppStatuses
  BY <1>1, ReviewFields DEF WorkInv
<1>3. /\ appHistory[a] # <<>>
      /\ review[r].from \in StatusesOf(a) /\ review[r].to \in TransitionsOf(a)[review[r].from]
      /\ a \notin reviewOverlap =>
           /\ review[r].from = appStatus[a]
           /\ \A q \in Reviewers : review[q] # NoReview /\ review[q].app = a => q = r
  BY <1>1 DEF WorkInv, ReviewsAreChecked
<1>4. row \in AppRow /\ row.from = review[r].from /\ row.to = review[r].to
  BY <1>2 DEF AppRow
<1> HIDE DEF row
<1>5. /\ appHistory[a] \in Seq(AppRow) /\ n \in Nat /\ n > 0 /\ DOMAIN appHistory[a] = 1..n
      /\ appStatus[a] = appHistory[a][n].to /\ appStatus[a] # "NONE"
  BY <1>2, <1>3, StatusOfHistory DEF WorkInv
<1> HIDE DEF a, n
<1>6. /\ appStatus'[a] = row.to
      /\ appHistory'[a] = Append(appHistory[a], row)
      /\ \A b \in Applications \ {a} : appStatus'[b] = appStatus[b] /\ appHistory'[b] = appHistory[b]
  BY <1>1, <1>2, <1>4 DEF WorkInv, AppTypeOK
<1>7. /\ appHistory'[a] \in Seq(AppRow) /\ Len(appHistory'[a]) = n + 1
      /\ DOMAIN appHistory'[a] = 1..(n + 1) /\ appHistory'[a] # <<>>
      /\ \A i \in 1..n : appHistory'[a][i] = appHistory[a][i]
      /\ appHistory'[a][n + 1] = row
  <2>1. /\ appHistory'[a] \in Seq(AppRow) /\ Len(appHistory'[a]) = n + 1
        /\ \A i \in 1..n : appHistory'[a][i] = appHistory[a][i]
        /\ appHistory'[a][n + 1] = row
    BY <1>4, <1>5, <1>6, AppendProperties DEF n
  <2>2. DOMAIN appHistory'[a] = 1..(n + 1)
    BY <2>1, LenProperties
  <2>3. appHistory'[a] # <<>>
    BY <2>1, <1>5
  <2> QED BY <2>1, <2>2, <2>3
<1>8. \A q \in Reviewers : review'[q] = IF q = r THEN NoReview ELSE review[q]
  BY <1>1 DEF WorkInv, AppTypeOK
<1>9. \A i \in 1..(n + 1) : i \in 1..n \/ i = n + 1
  BY <1>5
<1>10. AppTypeOK'
  <2>1. appStatus' \in [Applications -> AppStatuses \cup {"NONE"}]
    BY <1>1, <1>2 DEF WorkInv, AppTypeOK
  <2>2. appHistory' \in [Applications -> Seq(AppRow)]
    BY <1>1, <1>2, <1>6, <1>7 DEF WorkInv, AppTypeOK
  <2> QED BY <2>1, <2>2, <1>1 DEF WorkInv, AppTypeOK
<1>11. AppStatusIsLastRow'
  <2> SUFFICES ASSUME NEW b \in Applications
               PROVE  appStatus'[b] = IF appHistory'[b] = <<>> THEN "NONE"
                                      ELSE appHistory'[b][Len(appHistory'[b])].to
    BY DEF AppStatusIsLastRow
  <2>1. CASE b = a
    BY <2>1, <1>4, <1>6, <1>7
  <2>2. CASE b # a
    BY <2>2, <1>6 DEF WorkInv, AppStatusIsLastRow
  <2> QED BY <2>1, <2>2
<1>12. AppRowsAllowed'
  <2> SUFFICES ASSUME NEW b \in Applications, NEW i \in DOMAIN appHistory'[b]
               PROVE  LET new == appHistory'[b][i]
                      IN IF i = 1 THEN new = FirstRow
                         ELSE new.from \in DOMAIN TransitionsOf(b) /\ new.to \in TransitionsOf(b)[new.from]
    BY DEF AppRowsAllowed
  <2>1. CASE b = a /\ i \in 1..n
    BY <2>1, <1>2, <1>5, <1>7 DEF WorkInv, AppRowsAllowed
  <2>2. CASE b = a /\ i = n + 1
    BY <2>2, <1>3, <1>4, <1>5, <1>7 DEF StatusesOf, a
  <2>3. CASE b # a
    BY <2>3, <1>6 DEF WorkInv, AppRowsAllowed
  <2> QED BY <2>1, <2>2, <2>3, <1>7, <1>9
<1>13. ReviewsAreChecked'
  <2> SUFFICES ASSUME NEW q \in Reviewers, review'[q] # NoReview
               PROVE  LET b == review'[q].app IN
                        /\ appHistory'[b] # <<>>
                        /\ review'[q].from \in StatusesOf(b) /\ review'[q].to \in TransitionsOf(b)[review'[q].from]
                        /\ b \notin reviewOverlap' =>
                             /\ review'[q].from = appStatus'[b]
                             /\ \A p \in Reviewers : review'[p] # NoReview /\ review'[p].app = b => p = q
    BY DEF ReviewsAreChecked
  <2> DEFINE b == review[q].app
  <2>1. q # r /\ review'[q] = review[q] /\ review[q] # NoReview
    BY <1>8
  <2>2. /\ appHistory[b] # <<>>
        /\ review[q].from \in StatusesOf(b) /\ review[q].to \in TransitionsOf(b)[review[q].from]
        /\ b \notin reviewOverlap =>
             /\ review[q].from = appStatus[b]
             /\ \A p \in Reviewers : review[p] # NoReview /\ review[p].app = b => p = q
    BY <2>1 DEF WorkInv, ReviewsAreChecked
  <2>3. b \in Applications
    BY <2>1, ReviewFields DEF WorkInv
  <2>4. b \notin reviewOverlap => b # a
    BY <2>1, <1>3 DEF a
  <2>5. appHistory'[b] # <<>>
    BY <2>2, <2>3, <1>6, <1>7
  <2>6. \A p \in Reviewers : review'[p] # NoReview /\ review'[p].app = b =>
           review[p] # NoReview /\ review[p].app = b
    BY <1>8
  <2>7. b # a => appStatus'[b] = appStatus[b]
    BY <2>3, <1>6
  <2> HIDE DEF b
  <2>8. /\ appHistory'[b] # <<>>
        /\ review[q].from \in StatusesOf(b) /\ review[q].to \in TransitionsOf(b)[review[q].from]
        /\ b \notin reviewOverlap' =>
             /\ review[q].from = appStatus'[b]
             /\ \A p \in Reviewers : review'[p] # NoReview /\ review'[p].app = b => p = q
    BY <2>2, <2>4, <2>5, <2>6, <2>7, <1>1
  <2> QED BY <2>1, <2>8 DEF b
<1>14. AppHistoryUnbroken'
  <2> SUFFICES ASSUME NEW b \in Applications \ reviewOverlap, NEW i \in 2..Len(appHistory'[b])
               PROVE  appHistory'[b][i].from = appHistory'[b][i - 1].to
    BY <1>1 DEF AppHistoryUnbroken
  <2>1. CASE b = a /\ i \in 1..n
    <3>1. i - 1 \in 1..n /\ i \in 2..n
      BY <2>1, <1>5
    <3> QED BY <2>1, <3>1, <1>7 DEF WorkInv, AppHistoryUnbroken, n
  <2>2. CASE b = a /\ i = n + 1
    <3>1. i - 1 = n /\ n \in 1..n
      BY <2>2, <1>5
    <3>2. row.from = appHistory[a][n].to
      BY <2>2, <1>3, <1>4, <1>5 DEF a
    <3> QED BY <2>2, <3>1, <3>2, <1>7
  <2>3. CASE b # a
    BY <2>3, <1>6 DEF WorkInv, AppHistoryUnbroken
  <2> QED BY <2>1, <2>2, <2>3, <1>7, <1>9
<1>15. SelectionLasts'
  <2> SUFFICES ASSUME NEW b \in JobApplications \ reviewOverlap, NEW i \in DOMAIN appHistory'[b],
                      appHistory'[b][i].to = "SELECTED"
               PROVE  appStatus'[b] \in AfterSelection
    BY <1>1 DEF SelectionLasts
  <2>0. b \in Applications
    BY DEF Applications
  <2>1. CASE b = a /\ i \in 1..n
    <3>1. appStatus[a] \in AfterSelection
      BY <2>1, <1>5, <1>7 DEF WorkInv, SelectionLasts
    <3>2. review[r].from = appStatus[a] /\ review[r].to \in JobTransitions[appStatus[a]]
      BY <2>0, <2>1, <1>3, TransitionsStay DEF a
    <3> QED BY <2>1, <3>1, <3>2, <1>4, <1>6, JobTable
  <2>2. CASE b = a /\ i = n + 1
    BY <2>2, <1>6, <1>7 DEF AfterSelection
  <2>3. CASE b # a
    BY <2>0, <2>3, <1>6 DEF WorkInv, SelectionLasts
  <2> QED BY <2>1, <2>2, <2>3, <1>7, <1>9
<1>16. FilledCountsApplications'
  <2>1. \A b \in JobApplications : appStatus'[b] = "NONE" <=> appStatus[b] = "NONE"
    BY <1>2, <1>4, <1>5, <1>6, NoneIsNoStatus DEF Applications
  <2> QED BY <2>1, <1>1, FilledStays DEF WorkInv
<1> QED BY <1>10, <1>11, <1>12, <1>13, <1>14, <1>15, <1>16 DEF WorkInv

LEMMA WorkStepInv == WorkInv /\ [WorkflowNext]_workflowVars => WorkInv'
<1> SUFFICES ASSUME WorkInv, [WorkflowNext]_workflowVars PROVE WorkInv'
  OBVIOUS
<1>1. ASSUME NEW a \in Applications, ReadJob(a) PROVE WorkInv'
  BY <1>1, RowsStay DEF ReadJob, WorkInv, AppTypeOK
<1>2. CASE UpdateJob
  BY <1>2, RowsStay DEF UpdateJob, WorkInv, AppTypeOK
<1>3. CASE Abandon
  BY <1>3, RowsStay DEF Abandon, WorkInv, AppTypeOK
<1>4. CASE UNCHANGED workflowVars
  BY <1>4, RowsStay DEF workflowVars, WorkInv, AppTypeOK
<1> QED BY <1>1, <1>2, <1>3, <1>4, ApplyVisaInv, ApplyJobInv, ReadApplicationInv, WriteReviewInv
           DEF WorkflowNext

LEMMA WorkInvSound == WorkInv => AppTypeOK /\ ApplicationsSound
<1> SUFFICES ASSUME WorkInv PROVE AppTypeOK /\ ApplicationsSound
  OBVIOUS
<1>1. NoWithdrawalOnceSelected
  BY DEF WorkInv, SelectionLasts, NoWithdrawalOnceSelected, AfterSelection
<1> QED BY <1>1 DEF WorkInv, ApplicationsSound

\* AppTypeOK and ApplicationsSound: for any applications and reviewers, the
\* status of an application is where its history ends, the history is made of
\* allowed steps, unbroken until reviews overlap, no withdrawal follows a
\* selection then, and the count of a job's positions is that of its applications.
THEOREM ApplicationsAlwaysSound == WorkflowSpec => [](AppTypeOK /\ ApplicationsSound)
BY WorkInitInv, WorkStepInv, WorkInvSound, PTL DEF WorkflowSpec
-----------------------------------------------------------------------------
(* The status of an agency (AgencyStatus).                                 *)

Reading(r) == agencyUpdate[r] # NoUpdate

\* Until requests overlap, at most one has read the row, and what it has read
\* is still there.
OneReads ==
  ~agencyOverlap =>
    /\ \A r, q \in AgencyAdmins : Reading(r) /\ Reading(q) => r = q
    /\ \A r \in AgencyAdmins : Reading(r) => agencyUpdate[r].approvedAt = approvedAt

AgencyInv == AgencyTypeOK /\ OneReads

LEMMA UpdateRead ==
  ASSUME AgencyTypeOK, NEW r \in AgencyAdmins, Reading(r)
  PROVE  agencyUpdate[r].to \in AgencyStatuses /\ agencyUpdate[r].approvedAt \in 0..approvals
BY DEF AgencyTypeOK, Reading

LEMMA AgencyInitInv == AgencyInit => AgencyInv
<1> SUFFICES ASSUME AgencyInit PROVE AgencyInv
  OBVIOUS
<1> USE AgencyAssumption DEF AgencyInit
<1>1. AgencyTypeOK
  <2>1. agencyStatus \in AgencyStatuses /\ agencyOverlap \in BOOLEAN
    BY DEF AgencyStatuses
  <2>2. approvedAt \in 0..approvals /\ approvals \in 0..LastApproval
    OBVIOUS
  <2>3. agencyUpdate \in
          [AgencyAdmins -> [to : AgencyStatuses, approvedAt : 0..approvals] \cup {NoUpdate}]
    OBVIOUS
  <2> QED BY <2>1, <2>2, <2>3 DEF AgencyTypeOK
<1>2. OneReads
  BY DEF OneReads, Reading
<1> QED BY <1>1, <1>2 DEF AgencyInv

LEMMA ReadAgencyInv ==
  ASSUME AgencyInv, NEW r \in AgencyAdmins, NEW to \in AgencyStatuses, ReadAgency(r, to)
  PROVE  AgencyInv'
<1> DEFINE read == [to |-> to, approvedAt |-> approvedAt]
<1>1. /\ agencyUpdate' = [agencyUpdate EXCEPT ![r] = read]
      /\ UNCHANGED <<agencyStatus, approvedAt, approvals>>
      /\ agencyOverlap' = (agencyOverlap \/ \E q \in AgencyAdmins \ {r} : agencyUpdate[q] # NoUpdate)
  BY DEF ReadAgency
<1>2. read \in [to : AgencyStatuses, approvedAt : 0..approvals] /\ read.approvedAt = approvedAt
  BY DEF AgencyInv, AgencyTypeOK
<1> HIDE DEF read
<1>3. agencyOverlap' \in BOOLEAN
  BY <1>1
<1>4. AgencyTypeOK'
  BY <1>1, <1>2, <1>3 DEF AgencyInv, AgencyTypeOK
<1>5. /\ agencyUpdate'[r] = read
      /\ \A q \in AgencyAdmins \ {r} : agencyUpdate'[q] = agencyUpdate[q]
  BY <1>1 DEF AgencyInv, AgencyTypeOK
<1>6. OneReads'
  <2> SUFFICES ASSUME ~agencyOverlap'
               PROVE  /\ \A p, q \in AgencyAdmins : Reading(p)' /\ Reading(q)' => p = q
                      /\ \A q \in AgencyAdmins : Reading(q)' => agencyUpdate'[q].approvedAt = approvedAt'
    BY DEF OneReads
  <2>1. \A q \in AgencyAdmins \ {r} : ~Reading(q)'
    BY <1>1, <1>5 DEF Reading
  <2> QED BY <2>1, <1>1, <1>2, <1>5
<1> QED BY <1>4, <1>6 DEF AgencyInv

\* r has written or given up.
LEMMA EndUpdate ==
  ASSUME AgencyInv, NEW r \in AgencyAdmins, Reading(r), UNCHANGED agencyOverlap,
         agencyUpdate' = [agencyUpdate EXCEPT ![r] = NoUpdate],
         approvals' \in Nat, approvals <= approvals'
  PROVE  /\ agencyUpdate' \in
              [AgencyAdmins -> [to : AgencyStatuses, approvedAt : 0..approvals'] \cup {NoUpdate}]
         /\ ~agencyOverlap' => \A q \in AgencyAdmins : ~Reading(q)'
<1>1. /\ agencyUpdate'[r] = NoUpdate
      /\ \A q \in AgencyAdmins \ {r} : agencyUpdate'[q] = agencyUpdate[q]
  BY DEF AgencyInv, AgencyTypeOK
<1>2. \A q \in AgencyAdmins : agencyUpdate[q] \in [to : AgencyStatuses, approvedAt : 0..approvals'] \cup {NoUpdate}
  <2>1. approvals \in Nat
    BY AgencyAssumption DEF AgencyInv, AgencyTypeOK
  <2>2. 0..approvals \subseteq 0..approvals'
    BY <2>1
  <2> QED BY <2>2 DEF AgencyInv, AgencyTypeOK
<1>3. ~agencyOverlap' => \A q \in AgencyAdmins : ~Reading(q)'
  BY <1>1 DEF AgencyInv, OneReads, Reading
<1> QED BY <1>1, <1>2, <1>3 DEF AgencyInv, AgencyTypeOK

\* The write of an approval sets the date, or writes the one it has read.
LEMMA WriteAgencyInv ==
  ASSUME AgencyInv, NEW r \in AgencyAdmins, WriteAgency(r)
  PROVE  AgencyInv' /\ (approvedAt # 0 /\ ~agencyOverlap' => approvedAt' = approvedAt)
<1> DEFINE first == agencyUpdate[r].to = "ACTIVE" /\ agencyUpdate[r].approvedAt = 0
<1>1. /\ Reading(r) /\ agencyStatus' = agencyUpdate[r].to
      /\ first => approvals < LastApproval
      /\ approvals' = IF first THEN approvals + 1 ELSE approvals
      /\ approvedAt' = IF first THEN approvals' ELSE agencyUpdate[r].approvedAt
      /\ agencyUpdate' = [agencyUpdate EXCEPT ![r] = NoUpdate]
      /\ UNCHANGED agencyOverlap
  BY DEF WriteAgency, Reading
<1>2. agencyUpdate[r].to \in AgencyStatuses /\ agencyUpdate[r].approvedAt \in 0..approvals
  BY <1>1, UpdateRead DEF AgencyInv
<1>3. ~agencyOverlap => agencyUpdate[r].approvedAt = approvedAt
  BY <1>1 DEF AgencyInv, OneReads
<1>4. approvals \in 0..LastApproval
  BY DEF AgencyInv, AgencyTypeOK
<1> HIDE DEF first
<1>5. /\ approvals' \in 0..LastApproval /\ approvals <= approvals' /\ approvedAt' \in 0..approvals'
      /\ approvals' \in Nat
  BY <1>1, <1>2, <1>4, AgencyAssumption
<1>6. AgencyTypeOK'
  BY <1>1, <1>2, <1>5, EndUpdate DEF AgencyInv, AgencyTypeOK
<1>7. OneReads'
  BY <1>1, <1>5, EndUpdate DEF OneReads
<1>8. approvedAt # 0 /\ ~agencyOverlap' => approvedAt' = approvedAt
  BY <1>1, <1>3 DEF first
<1> QED BY <1>6, <1>7, <1>8 DEF AgencyInv

LEMMA AbandonUpdateInv ==
  ASSUME AgencyInv, NEW r \in AgencyAdmins, AbandonUpdate(r)
  PROVE  AgencyInv'
<1>1. /\ Reading(r) /\ agencyUpdate' = [agencyUpdate EXCEPT ![r] = NoUpdate]
      /\ UNCHANGED <<agencyStatus, approvedAt, approvals, agencyOverlap>>
  BY DEF AbandonUpdate, Reading
<1>2. approvals' \in Nat /\ approvals <= approvals'
  BY <1>1, AgencyAssumption DEF AgencyInv, AgencyTypeOK
<1>3. AgencyTypeOK'
  BY <1>1, <1>2, EndUpdate DEF AgencyInv, AgencyTypeOK
<1>4. OneReads'
  BY <1>1, <1>2, EndUpdate DEF OneReads
<1> QED BY <1>3, <1>4 DEF AgencyInv

LEMMA AgencyStepInv ==
  AgencyInv /\ [AgencyNext]_agencyVars =>
    AgencyInv' /\ [approvedAt # 0 /\ ~agencyOverlap' => approvedAt' = approvedAt]_agencyVars
<1> SUFFICES ASSUME AgencyInv, [AgencyNext]_agencyVars
             PROVE  AgencyInv' /\ [approvedAt # 0 /\ ~agencyOverlap' => approvedAt' = approvedAt]_agencyVars
  OBVIOUS
<1>1. ASSUME NEW r \in AgencyAdmins, NEW to \in AgencyStatuses, ReadAgency(r, to)
      PROVE  AgencyInv' /\ approvedAt' = approvedAt
  BY <1>1, ReadAgencyInv DEF ReadAgency
<1>2. ASSUME NEW r \in AgencyAdmins, AbandonUpdate(r)
      PROVE  AgencyInv' /\ approvedAt' = approvedAt
  BY <1>2, AbandonUpdateInv DEF AbandonUpdate
<1>3. CASE UNCHANGED agencyVars
  BY <1>3 DEF agencyVars, AgencyInv, AgencyTypeOK, OneReads, Reading
<1> QED BY <1>1, <1>2, <1>3, WriteAgencyInv DEF AgencyNext

\* AgencyTypeOK and FirstApprovalKept: for any number of administrators, an
\* agency's first date of approval is never lost or replaced until two requests
\* overlap, because the one that has read the row has read the date it keeps.
THEOREM FirstApprovalIsKept == AgencySpec => []AgencyTypeOK /\ FirstApprovalKept
<1>1. AgencySpec => []AgencyInv
  BY AgencyInitInv, AgencyStepInv, PTL DEF AgencySpec
<1>2. AgencyInv => AgencyTypeOK
  BY DEF AgencyInv
<1>3. AgencyInv /\ [AgencyNext]_agencyVars =>
        [approvedAt # 0 /\ ~agencyOverlap' => approvedAt' = approvedAt]_agencyVars
  BY AgencyStepInv
<1> QED BY <1>1, <1>2, <1>3, PTL DEF AgencySpec, FirstApprovalKept
-----------------------------------------------------------------------------
(* Sign-in, rotation, sign-out and reset (Sessions).                       *)

\* s has the token of chain l, or is about to issue it.
Holds(s, l) == chain[s] = l /\ (session[s] = "live" \/ sessionPc[s] = "issue")

\* Whose chain a request belongs to and what its session is, by its stage.
Stages ==
  \A t \in SessionRequests :
    /\ wish[t].op # "refresh" \/ sessionPc[t] = "start" => chain[t] = t
    /\ wish[t].op = "refresh" /\ sessionPc[t] # "start" =>
         wish[chain[t]].op \in SignIns /\ session[chain[t]] # "none"
    /\ session[t] # "none" => sessionPc[t] = "done" /\ wish[t].op \in SignIns \cup {"refresh"}
    /\ sessionPc[t] = "rotate" =>
         wish[t].op = "refresh" /\ session[target[t]] # "none" /\ chain[target[t]] = chain[t]
    /\ sessionPc[t] = "spend" => wish[t].op = "answer"
    /\ sessionPc[t] = "issue" => wish[t].op \in SignIns \cup {"refresh"}
    /\ sessionPc[t] = "reset" => wish[t].op = "reset"

\* As long as requests of a chain do not overlap, one session has its token,
\* one refresh rotates it, and that one has read it.
OneHolder ==
  \A l \in SessionRequests \ sessionOverlap :
    /\ \A s, u \in SessionRequests : Holds(s, l) /\ Holds(u, l) => s = u
    /\ \A t, u \in SessionRequests : Rotating(t, l) /\ Rotating(u, l) => t = u
    /\ \A s, u \in SessionRequests :
         Rotating(u, l) /\ sessionPc[u] = "rotate" /\ Holds(s, l) => s = target[u]

\* A chain that was signed out has no token and nobody who is rotating one.
SignedOutStay ==
  \A l \in signedOut :
    /\ session[l] # "none"
    /\ l \notin sessionOverlap =>
         \A s \in SessionRequests : ~Holds(s, l) /\ ~Rotating(s, l)

\* Without crashes, a sign-in nobody ended has a session of its chain, or one
\* is about to be issued.
SignedIn ==
  ~sessionCrashed =>
    \A l \in SessionRequests \ signedOut :
      wish[l].op \in SignIns /\ session[l] # "none" /\ provenBy[l] = password
        => \E s \in SessionRequests :
             chain[s] = l /\ (session[s] \in {"live", "expired"} \/ sessionPc[s] = "issue")

\* Live sessions, requests under way and open challenges were proved with the
\* password of now, unless a reset has overtaken what they come of.
ProvenNow ==
  \A s \in SessionRequests :
    session[s] = "live" \/ sessionPc[s] \in {"spend", "rotate", "issue"} \/ challenge[s] = "open"
      => provenBy[s] = password \/ s \in overtaken

\* Unless two read the codes at once: one request is spending a code, of the
\* codes that are still there, and a code that is there was never used.
CodesSpent ==
  /\ \A t \in SessionRequests : sessionPc[t] = "spend" => wish[t].code \in BackupCodes
  /\ ~codeOverlap =>
       /\ \A t, u \in SessionRequests : sessionPc[t] = "spend" /\ sessionPc[u] = "spend" => t = u
       /\ \A t \in SessionRequests :
            sessionPc[t] = "spend" => codesSeen[t] = backupCodes /\ wish[t].code \in backupCodes
       /\ \A c \in BackupCodes : codeUses[c] <= 1 /\ (c \in backupCodes => codeUses[c] = 0)

\* In the same way for reset links.
LinksSpent ==
  ~linkOverlap =>
    /\ \A t, u \in SessionRequests :
         sessionPc[t] = "reset" /\ sessionPc[u] = "reset" /\ wish[t].link = wish[u].link => t = u
    /\ \A t \in SessionRequests : sessionPc[t] = "reset" => link[wish[t].link] = "sent"
    /\ \A k \in ResetLinks : linkUses[k] <= 1 /\ (link[k] # "used" => linkUses[k] = 0)

SessionInv ==
  /\ SessionTypeOK /\ Stages /\ OneHolder /\ SignedOutStay /\ SignedIn
  /\ ProvenNow /\ CodesSpent /\ LinksSpent

LEMMA WishFields ==
  ASSUME wish \in SessionScenarios, NEW t \in SessionRequests
  PROVE  /\ wish[t].op \in {"login", "answer", "refresh", "signOut", "reset"}
         /\ wish[t].op = "reset" => wish[t].link \in ResetLinks
         /\ wish[t].op = "login" => wish[t].secondFactor \in BOOLEAN
<1>1. wish[t] \in SessionRequest
  BY SessionAssumption
<1> QED BY <1>1 DEF SessionRequest

LEMMA SessionTypes ==
  ASSUME SessionTypeOK
  PROVE  /\ wish \in SessionScenarios
         /\ session \in [SessionRequests -> {"none", "live", "revoked", "expired"}]
         /\ challenge \in [SessionRequests -> {"none", "open", "expired"}]
         /\ chain \in [SessionRequests -> SessionRequests]
         /\ password \in Nat
         /\ provenBy \in [SessionRequests -> 0..password]
         /\ sessionPc \in
              [SessionRequests -> {"start", "spend", "rotate", "issue", "reset", "done"}]
         /\ target \in [SessionRequests -> SessionRequests]
         /\ codesSeen \in [SessionRequests -> SUBSET BackupCodes]
         /\ codeUses \in [BackupCodes -> Nat] /\ linkUses \in [ResetLinks -> Nat]
         /\ link \in [ResetLinks -> {"none", "sent", "used"}]
         /\ codeOverlap \in BOOLEAN /\ linkOverlap \in BOOLEAN /\ sessionCrashed \in BOOLEAN
         /\ overtaken \subseteq SessionRequests
         /\ backupCodes \subseteq BackupCodes
BY DEF SessionTypeOK

LEMMA SessionInitInv == SessionInit => SessionInv
<1> SUFFICES ASSUME SessionInit PROVE SessionInv
  OBVIOUS
<1>1. SessionTypeOK
  <2>1. {codeOverlap, linkOverlap, sessionCrashed} \subseteq BOOLEAN
    BY DEF SessionInit
  <2>2. password \in Nat /\ provenBy \in [SessionRequests -> 0..password]
    BY DEF SessionInit
  <2>3. codeUses \in [BackupCodes -> Nat] /\ linkUses \in [ResetLinks -> Nat]
    BY DEF SessionInit
  <2> QED BY <2>1, <2>2, <2>3 DEF SessionInit, SessionTypeOK
<1>2. \A t \in SessionRequests :
        session[t] = "none" /\ chain[t] = t /\ sessionPc[t] = "start" /\ challenge[t] = "none"
  BY DEF SessionInit
<1>3. signedOut = {}
  BY DEF SessionInit
<1>4. Stages /\ OneHolder /\ SignedOutStay /\ SignedIn /\ ProvenNow
  BY <1>2, <1>3 DEF Stages, OneHolder, SignedOutStay, SignedIn, ProvenNow, Holds, Rotating
<1>5. CodesSpent
  <2>1. \A c \in BackupCodes : codeUses[c] = 0
    BY DEF SessionInit
  <2> QED BY <1>2, <2>1 DEF CodesSpent
<1>6. LinksSpent
  <2>1. \A k \in ResetLinks : linkUses[k] = 0
    BY DEF SessionInit
  <2> QED BY <1>2, <2>1 DEF LinksSpent
<1> QED BY <1>1, <1>4, <1>5, <1>6 DEF SessionInv

\* What t's step does to the stages, and to nobody else's.
LEMMA Goto ==
  ASSUME SessionTypeOK, NEW t \in SessionRequests, NEW next, SessionGoto(t, next),
         next \in {"start", "spend", "rotate", "issue", "reset", "done"}
  PROVE  /\ sessionPc' \in
              [SessionRequests -> {"start", "spend", "rotate", "issue", "reset", "done"}]
         /\ sessionPc'[t] = next
         /\ \A u \in SessionRequests \ {t} : sessionPc'[u] = sessionPc[u]
BY SessionTypes DEF SessionGoto

\* t has proved what another request has, and shares what overtook it.
LEMMA ProvesAsOther ==
  ASSUME SessionTypeOK, NEW t \in SessionRequests, NEW s \in SessionRequests, ProvesAs(t, s),
         password' = password
  PROVE  /\ provenBy' \in [SessionRequests -> 0..password] /\ provenBy'[t] = provenBy[s]
         /\ \A u \in SessionRequests \ {t} : provenBy'[u] = provenBy[u]
         /\ overtaken' \subseteq SessionRequests /\ overtaken \subseteq overtaken'
         /\ s \in overtaken => t \in overtaken'
BY SessionTypes DEF ProvesAs

LEMMA CheckPasswordInv ==
  ASSUME SessionInv, NEW t \in SessionRequests, CheckPassword(t) PROVE SessionInv'
<1>1. /\ wish[t].op = "login" /\ sessionPc[t] = "start"
      /\ provenBy' = [provenBy EXCEPT ![t] = password]
      /\ UNCHANGED <<wish, session, chain, password, backupCodes, link, target, codesSeen,
                     signedOut, codeUses, linkUses, sessionOverlap, codeOverlap, linkOverlap,
                     overtaken, sessionCrashed>>
      /\ challenge' = challenge \/ challenge' = [challenge EXCEPT ![t] = "open"]
  BY DEF CheckPassword, SessionAt, sessionHistory
<1>2. PICK next \in {"issue", "done"} : SessionGoto(t, next)
  BY DEF CheckPassword
<1>3. /\ sessionPc' \in
           [SessionRequests -> {"start", "spend", "rotate", "issue", "reset", "done"}]
      /\ sessionPc'[t] = next
      /\ \A u \in SessionRequests \ {t} : sessionPc'[u] = sessionPc[u]
  BY <1>2, Goto DEF SessionInv
<1>4. /\ provenBy' \in [SessionRequests -> 0..password] /\ provenBy'[t] = password
      /\ \A u \in SessionRequests \ {t} : provenBy'[u] = provenBy[u]
  BY <1>1, SessionTypes DEF SessionInv
<1>5. session[t] = "none" /\ chain[t] = t
  BY <1>1 DEF SessionInv, Stages
<1>15. /\ challenge' \in [SessionRequests -> {"none", "open", "expired"}]
       /\ \A u \in SessionRequests \ {t} : challenge'[u] = challenge[u]
  BY <1>1, SessionTypes DEF SessionInv
<1>6. SessionTypeOK'
  BY <1>1, <1>3, <1>4, <1>15 DEF SessionInv, SessionTypeOK
<1>7. Stages'
  BY <1>1, <1>3, <1>5 DEF SessionInv, Stages, SignIns
<1>8. \A s \in SessionRequests \ {t} : chain[s] # t
  BY <1>1, <1>5 DEF SessionInv, Stages
<1>9. OneHolder'
  BY <1>1, <1>3, <1>5, <1>8 DEF SessionInv, OneHolder, Holds, Rotating
<1>10. SignedOutStay'
  BY <1>1, <1>3, <1>5, <1>8 DEF SessionInv, SignedOutStay, Holds, Rotating
<1>11. SignedIn'
  BY <1>1, <1>3, <1>4, <1>5 DEF SessionInv, SignedIn
<1>12. ProvenNow'
  BY <1>1, <1>3, <1>4, <1>15 DEF SessionInv, ProvenNow
<1>13. CodesSpent'
  BY <1>1, <1>3 DEF SessionInv, CodesSpent
<1>14. LinksSpent'
  BY <1>1, <1>3 DEF SessionInv, LinksSpent
<1> QED BY <1>6, <1>7, <1>9, <1>10, <1>11, <1>12, <1>13, <1>14 DEF SessionInv

LEMMA AnswerChallengeInv ==
  ASSUME SessionInv, NEW t \in SessionRequests, NEW l \in SessionRequests, AnswerChallenge(t, l)
  PROVE  SessionInv'
<1>1. /\ wish[t].op = "answer" /\ sessionPc[t] = "start" /\ challenge[l] = "open"
      /\ ProvesAs(t, l)
      /\ UNCHANGED <<wish, session, challenge, chain, password, backupCodes, link, target,
                     signedOut, codeUses, linkUses, sessionOverlap, linkOverlap, sessionCrashed>>
      /\ codeOverlap' = (codeOverlap \/ \E u \in SessionRequests : sessionPc[u] = "spend")
  BY DEF AnswerChallenge, SessionAt
<1>2. PICK next \in {"issue", "spend", "done"} :
        /\ SessionGoto(t, next)
        /\ next = "spend" =>
             wish[t].code \in backupCodes /\ codesSeen' = [codesSeen EXCEPT ![t] = backupCodes]
        /\ next # "spend" => codesSeen' = codesSeen
  BY DEF AnswerChallenge
<1>3. /\ sessionPc' \in
           [SessionRequests -> {"start", "spend", "rotate", "issue", "reset", "done"}]
      /\ sessionPc'[t] = next
      /\ \A u \in SessionRequests \ {t} : sessionPc'[u] = sessionPc[u]
  BY <1>2, Goto DEF SessionInv
<1>4. /\ codesSeen' \in [SessionRequests -> SUBSET BackupCodes]
      /\ \A u \in SessionRequests \ {t} : codesSeen'[u] = codesSeen[u]
      /\ next = "spend" => codesSeen'[t] = backupCodes
  BY <1>2, SessionTypes DEF SessionInv
<1>5. session[t] = "none" /\ chain[t] = t
  BY <1>1 DEF SessionInv, Stages
<1>15. /\ provenBy' \in [SessionRequests -> 0..password] /\ provenBy'[t] = provenBy[l]
       /\ \A u \in SessionRequests \ {t} : provenBy'[u] = provenBy[u]
       /\ overtaken' \subseteq SessionRequests /\ overtaken \subseteq overtaken'
       /\ l \in overtaken => t \in overtaken'
  BY <1>1, ProvesAsOther DEF SessionInv
<1>16. provenBy[l] = password \/ l \in overtaken
  BY <1>1 DEF SessionInv, ProvenNow
<1>6. SessionTypeOK'
  <2>1. codeOverlap' \in BOOLEAN
    BY <1>1
  <2> QED BY <2>1, <1>1, <1>3, <1>4, <1>15 DEF SessionInv, SessionTypeOK
<1>7. Stages'
  BY <1>1, <1>3, <1>5 DEF SessionInv, Stages, SignIns
<1>8. \A s \in SessionRequests \ {t} : chain[s] # t
  BY <1>1, <1>5 DEF SessionInv, Stages
<1>9. OneHolder'
  BY <1>1, <1>3, <1>5, <1>8 DEF SessionInv, OneHolder, Holds, Rotating
<1>10. SignedOutStay'
  BY <1>1, <1>3, <1>5, <1>8 DEF SessionInv, SignedOutStay, Holds, Rotating
<1>11. SignedIn'
  BY <1>1, <1>3, <1>5, <1>15 DEF SessionInv, SignedIn
<1>12. ProvenNow'
  <2> SUFFICES ASSUME NEW u \in SessionRequests,
                      \/ session[u] = "live" \/ sessionPc'[u] \in {"spend", "rotate", "issue"}
                      \/ challenge[u] = "open"
               PROVE  provenBy'[u] = password \/ u \in overtaken'
    BY <1>1 DEF ProvenNow
  <2>1. CASE u = t
    BY <2>1, <1>15, <1>16
  <2>2. CASE u # t
    BY <2>2, <1>3, <1>15 DEF SessionInv, ProvenNow
  <2> QED BY <2>1, <2>2
<1>13. CodesSpent'
  <2>1. backupCodes \subseteq BackupCodes
    BY SessionTypes DEF SessionInv
  <2>2. \A u \in SessionRequests : sessionPc'[u] = "spend" => wish[u].code \in BackupCodes
    BY <2>1, <1>2, <1>3 DEF SessionInv, CodesSpent
  <2>3. ASSUME ~codeOverlap'
        PROVE  /\ ~codeOverlap /\ \A u \in SessionRequests : sessionPc[u] # "spend"
               /\ \A u \in SessionRequests : sessionPc'[u] = "spend" => u = t /\ next = "spend"
    BY <2>3, <1>1, <1>3
  <2>4. ASSUME ~codeOverlap'
        PROVE  \A u \in SessionRequests :
                 sessionPc'[u] = "spend" => codesSeen'[u] = backupCodes /\ wish[u].code \in backupCodes
    BY <2>3, <2>4, <1>2, <1>4
  <2>5. ASSUME ~codeOverlap'
        PROVE  \A c \in BackupCodes : codeUses[c] <= 1 /\ (c \in backupCodes => codeUses[c] = 0)
    BY <2>3, <2>5 DEF SessionInv, CodesSpent
  <2> QED BY <2>2, <2>3, <2>4, <2>5, <1>1 DEF CodesSpent
<1>14. LinksSpent'
  BY <1>1, <1>3 DEF SessionInv, LinksSpent
<1> QED BY <1>6, <1>7, <1>9, <1>10, <1>11, <1>12, <1>13, <1>14 DEF SessionInv

LEMMA SpendCodeInv ==
  ASSUME SessionInv, NEW t \in SessionRequests, SpendCode(t) PROVE SessionInv'
<1> DEFINE c == wish[t].code
<1>1. /\ wish[t].op = "answer" /\ sessionPc[t] = "spend" /\ SessionGoto(t, "issue")
      /\ backupCodes' = codesSeen[t] \ {c} /\ codeUses' = [codeUses EXCEPT ![c] = @ + 1]
      /\ codesSeen' = [codesSeen EXCEPT ![t] = {}]
      /\ UNCHANGED <<wish, session, challenge, chain, password, provenBy, link, target, signedOut, linkUses,
                     sessionOverlap, codeOverlap, linkOverlap, overtaken, sessionCrashed>>
  BY DEF SpendCode, SessionAt
<1>2. c \in BackupCodes
  BY <1>1 DEF SessionInv, CodesSpent
<1> HIDE DEF c
<1>3. /\ sessionPc' \in
           [SessionRequests -> {"start", "spend", "rotate", "issue", "reset", "done"}]
      /\ sessionPc'[t] = "issue"
      /\ \A u \in SessionRequests \ {t} : sessionPc'[u] = sessionPc[u]
  BY <1>1, Goto DEF SessionInv
<1>4. /\ codesSeen' \in [SessionRequests -> SUBSET BackupCodes]
      /\ backupCodes' \subseteq BackupCodes
  BY <1>1, SessionTypes DEF SessionInv
<1>5. /\ codeUses' \in [BackupCodes -> Nat] /\ codeUses'[c] = codeUses[c] + 1
      /\ \A d \in BackupCodes \ {c} : codeUses'[d] = codeUses[d]
  BY <1>1, <1>2, SessionTypes DEF SessionInv
<1>6. session[t] = "none" /\ chain[t] = t /\ (provenBy[t] = password \/ t \in overtaken)
  BY <1>1 DEF SessionInv, Stages, ProvenNow
<1>7. SessionTypeOK'
  BY <1>1, <1>3, <1>4, <1>5 DEF SessionInv, SessionTypeOK
<1>8. Stages'
  BY <1>1, <1>3, <1>6 DEF SessionInv, Stages, SignIns
<1>9. \A s \in SessionRequests \ {t} : chain[s] # t
  BY <1>1, <1>6 DEF SessionInv, Stages
<1>10. OneHolder'
  BY <1>1, <1>3, <1>6, <1>9 DEF SessionInv, OneHolder, Holds, Rotating
<1>11. SignedOutStay'
  BY <1>1, <1>3, <1>6, <1>9 DEF SessionInv, SignedOutStay, Holds, Rotating
<1>12. SignedIn'
  BY <1>1, <1>3, <1>6 DEF SessionInv, SignedIn
<1>13. ProvenNow'
  BY <1>1, <1>3, <1>6 DEF SessionInv, ProvenNow
<1>14. CodesSpent'
  <2>1. \A u \in SessionRequests : sessionPc'[u] = "spend" => wish[u].code \in BackupCodes
    BY <1>3 DEF SessionInv, CodesSpent
  <2>2. ASSUME ~codeOverlap'
        PROVE  \A u \in SessionRequests : sessionPc'[u] # "spend"
    BY <2>2, <1>1, <1>3 DEF SessionInv, CodesSpent
  <2>3. ASSUME ~codeOverlap'
        PROVE  codesSeen[t] = backupCodes /\ c \in backupCodes
    BY <2>3, <1>1 DEF SessionInv, CodesSpent, c
  <2>4. ASSUME ~codeOverlap', NEW d \in BackupCodes
        PROVE  codeUses'[d] <= 1 /\ (d \in backupCodes' => codeUses'[d] = 0)
    <3>1. codeUses[d] <= 1 /\ (d \in backupCodes => codeUses[d] = 0)
      BY <2>4, <1>1 DEF SessionInv, CodesSpent
    <3>2. CASE d = c
      BY <3>1, <3>2, <2>3, <2>4, <1>1, <1>5
    <3>3. CASE d # c
      BY <3>1, <3>3, <2>3, <2>4, <1>1, <1>5
    <3> QED BY <3>2, <3>3
  <2> QED BY <2>1, <2>2, <2>4, <1>1 DEF CodesSpent
<1>15. LinksSpent'
  BY <1>1, <1>3 DEF SessionInv, LinksSpent
<1> QED BY <1>7, <1>8, <1>10, <1>11, <1>12, <1>13, <1>14, <1>15 DEF SessionInv

LEMMA IssueTokensInv ==
  ASSUME SessionInv, NEW t \in SessionRequests, IssueTokens(t) PROVE SessionInv'
<1>1. /\ sessionPc[t] = "issue" /\ SessionGoto(t, "done")
      /\ session' = [session EXCEPT ![t] = "live"]
      /\ UNCHANGED <<wish, challenge, chain, password, provenBy, backupCodes, link, target, codesSeen,
                     signedOut, codeUses, linkUses, sessionOverlap, codeOverlap, linkOverlap,
                     overtaken, sessionCrashed>>
  BY DEF IssueTokens, sessionHistory
<1>2. /\ sessionPc' \in
           [SessionRequests -> {"start", "spend", "rotate", "issue", "reset", "done"}]
      /\ sessionPc'[t] = "done"
      /\ \A u \in SessionRequests \ {t} : sessionPc'[u] = sessionPc[u]
  BY <1>1, Goto DEF SessionInv
<1>3. /\ session' \in [SessionRequests -> {"none", "live", "revoked", "expired"}]
      /\ session'[t] = "live"
      /\ \A u \in SessionRequests \ {t} : session'[u] = session[u]
  BY <1>1, SessionTypes DEF SessionInv
<1>4. /\ chain \in [SessionRequests -> SessionRequests] /\ target \in [SessionRequests -> SessionRequests]
      /\ session[t] = "none" /\ wish[t].op \in SignIns \cup {"refresh"}
      /\ provenBy[t] = password \/ t \in overtaken
  BY <1>1, SessionTypes DEF SessionInv, Stages, ProvenNow
<1>5. SessionTypeOK'
  BY <1>1, <1>2, <1>3 DEF SessionInv, SessionTypeOK
<1>6. Stages'
  BY <1>1, <1>2, <1>3, <1>4 DEF SessionInv, Stages
<1>7. \A s, l \in SessionRequests : /\ Holds(s, l)' => Holds(s, l)
                                    /\ Rotating(s, l)' => Rotating(s, l)
  BY <1>1, <1>2, <1>3 DEF Holds, Rotating
<1>8. OneHolder'
  BY <1>1, <1>2, <1>7 DEF SessionInv, OneHolder
<1>9. SignedOutStay'
  <2>1. signedOut \subseteq SessionRequests
    BY DEF SessionInv, SessionTypeOK
  <2> QED BY <2>1, <1>1, <1>3, <1>7 DEF SessionInv, SignedOutStay
<1>10. SignedIn'
  <2> SUFFICES ASSUME ~sessionCrashed, NEW l \in SessionRequests \ signedOut,
                      wish[l].op \in SignIns, session'[l] # "none", provenBy[l] = password
               PROVE  \E s \in SessionRequests :
                        chain[s] = l /\ (session'[s] \in {"live", "expired"} \/ sessionPc'[s] = "issue")
    BY <1>1 DEF SignedIn
  <2>1. CASE l = t
    <3>1. chain[t] = t
      BY <2>1 DEF SessionInv, Stages, SignIns
    <3> QED BY <2>1, <3>1, <1>3
  <2>2. CASE l # t
    <3>1. PICK s \in SessionRequests :
            chain[s] = l /\ (session[s] \in {"live", "expired"} \/ sessionPc[s] = "issue")
      BY <2>2, <1>3 DEF SessionInv, SignedIn
    <3> QED BY <3>1, <1>2, <1>3
  <2> QED BY <2>1, <2>2
<1>11. ProvenNow'
  BY <1>1, <1>2, <1>3, <1>4 DEF SessionInv, ProvenNow
<1>12. CodesSpent'
  BY <1>1, <1>2 DEF SessionInv, CodesSpent
<1>13. LinksSpent'
  BY <1>1, <1>2 DEF SessionInv, LinksSpent
<1> QED BY <1>5, <1>6, <1>8, <1>9, <1>10, <1>11, <1>12, <1>13 DEF SessionInv

LEMMA ReadSessionInv ==
  ASSUME SessionInv, NEW t \in SessionRequests, NEW s \in SessionRequests, ReadSession(t, s)
  PROVE  SessionInv'
<1> DEFINE l == chain[s]
<1>1. /\ wish[t].op = "refresh" /\ sessionPc[t] = "start" /\ session[s] = "live"
      /\ target' = [target EXCEPT ![t] = s] /\ chain' = [chain EXCEPT ![t] = l]
      /\ ProvesAs(t, s) /\ SessionGoto(t, "rotate")
      /\ sessionOverlap' = sessionOverlap \cup {m \in {l} : \E u \in SessionRequests : Rotating(u, m)}
      /\ UNCHANGED <<wish, session, challenge, password, backupCodes, link, codesSeen, signedOut, codeUses,
                     linkUses, codeOverlap, linkOverlap, sessionCrashed>>
  BY DEF ReadSession, SessionAt
<1>2. /\ sessionPc' \in
           [SessionRequests -> {"start", "spend", "rotate", "issue", "reset", "done"}]
      /\ sessionPc'[t] = "rotate"
      /\ \A u \in SessionRequests \ {t} : sessionPc'[u] = sessionPc[u]
  BY <1>1, Goto DEF SessionInv
<1>3. /\ l \in SessionRequests /\ wish[l].op \in SignIns /\ session[l] # "none"
      /\ s # t /\ session[t] = "none" /\ chain[t] = t
  <2>1. l \in SessionRequests
    BY SessionTypes DEF SessionInv
  <2>2. session[t] = "none" /\ chain[t] = t
    BY <1>1 DEF SessionInv, Stages
  <2>3. sessionPc[s] = "done" /\ wish[s].op \in SignIns \cup {"refresh"}
    BY <1>1 DEF SessionInv, Stages
  <2>4. wish[l].op \in SignIns /\ session[l] # "none"
    BY <2>3, <1>1 DEF SessionInv, Stages
  <2> QED BY <2>1, <2>2, <2>4, <1>1
<1> HIDE DEF l
<1>4. /\ chain' \in [SessionRequests -> SessionRequests] /\ chain'[t] = l /\ chain'[s] = l
      /\ \A u \in SessionRequests \ {t} : chain'[u] = chain[u]
  BY <1>1, <1>3, SessionTypes DEF SessionInv, l
<1>5. /\ target' \in [SessionRequests -> SessionRequests] /\ target'[t] = s
      /\ \A u \in SessionRequests \ {t} : target'[u] = target[u]
  BY <1>1, SessionTypes DEF SessionInv
<1>6. /\ provenBy' \in [SessionRequests -> 0..password] /\ provenBy'[t] = provenBy[s]
      /\ \A u \in SessionRequests \ {t} : provenBy'[u] = provenBy[u]
      /\ overtaken' \subseteq SessionRequests /\ overtaken \subseteq overtaken'
      /\ s \in overtaken => t \in overtaken'
  BY <1>1, ProvesAsOther DEF SessionInv
<1>7. /\ sessionOverlap \subseteq sessionOverlap' /\ sessionOverlap' \subseteq SessionRequests
      /\ l \notin sessionOverlap' => \A u \in SessionRequests : ~Rotating(u, l)
  <2>1. sessionOverlap \subseteq SessionRequests
    BY DEF SessionInv, SessionTypeOK
  <2> QED BY <2>1, <1>1, <1>3
<1>8. SessionTypeOK'
  BY <1>1, <1>2, <1>4, <1>5, <1>6, <1>7 DEF SessionInv, SessionTypeOK
<1>9. Stages'
  <2> SUFFICES ASSUME NEW u \in SessionRequests
               PROVE  /\ wish[u].op # "refresh" \/ sessionPc'[u] = "start" => chain'[u] = u
                      /\ wish[u].op = "refresh" /\ sessionPc'[u] # "start" =>
                           wish[chain'[u]].op \in SignIns /\ session[chain'[u]] # "none"
                      /\ session[u] # "none" => sessionPc'[u] = "done" /\ wish[u].op \in SignIns \cup {"refresh"}
                      /\ sessionPc'[u] = "rotate" =>
                           wish[u].op = "refresh" /\ session[target'[u]] # "none" /\ chain'[target'[u]] = chain'[u]
                      /\ sessionPc'[u] = "spend" => wish[u].op = "answer"
                      /\ sessionPc'[u] = "issue" => wish[u].op \in SignIns \cup {"refresh"}
                      /\ sessionPc'[u] = "reset" => wish[u].op = "reset"
    BY <1>1 DEF Stages
  <2>1. CASE u = t
    BY <2>1, <1>1, <1>2, <1>3, <1>4, <1>5
  <2>2. CASE u # t
    <3>1. target \in [SessionRequests -> SessionRequests]
      BY SessionTypes DEF SessionInv
    <3>2. sessionPc[u] = "rotate" => target[u] # t
      BY <1>3 DEF SessionInv, Stages
    <3> QED BY <2>2, <3>1, <3>2, <1>2, <1>4, <1>5 DEF SessionInv, Stages
  <2> QED BY <2>1, <2>2
<1>10. \A u, m \in SessionRequests :
         /\ Holds(u, m)' => Holds(u, m)
         /\ Rotating(u, m)' => Rotating(u, m) \/ (u = t /\ m = l)
  BY <1>1, <1>2, <1>3, <1>4 DEF Holds, Rotating
<1>11. Holds(s, l)
  BY <1>1 DEF Holds, l
<1>12. OneHolder'
  <2> SUFFICES ASSUME NEW m \in SessionRequests \ sessionOverlap'
               PROVE  /\ \A u, v \in SessionRequests : Holds(u, m)' /\ Holds(v, m)' => u = v
                      /\ \A u, v \in SessionRequests : Rotating(u, m)' /\ Rotating(v, m)' => u = v
                      /\ \A u, v \in SessionRequests :
                           Rotating(v, m)' /\ sessionPc'[v] = "rotate" /\ Holds(u, m)' => u = target'[v]
    BY DEF OneHolder
  <2>1. /\ \A u, v \in SessionRequests : Holds(u, m) /\ Holds(v, m) => u = v
        /\ \A u, v \in SessionRequests : Rotating(u, m) /\ Rotating(v, m) => u = v
        /\ \A u, v \in SessionRequests :
             Rotating(v, m) /\ sessionPc[v] = "rotate" /\ Holds(u, m) => u = target[v]
    BY <1>7 DEF SessionInv, OneHolder
  <2>2. ~Rotating(t, m)
    BY <1>1 DEF Rotating
  <2> QED BY <2>1, <2>2, <1>2, <1>5, <1>7, <1>10, <1>11
<1>13. SignedOutStay'
  <2>1. signedOut \subseteq SessionRequests
    BY DEF SessionInv, SessionTypeOK
  <2>2. l \in signedOut => l \in sessionOverlap
    BY <1>11 DEF SessionInv, SignedOutStay
  <2> QED BY <2>1, <2>2, <1>1, <1>7, <1>10 DEF SessionInv, SignedOutStay
<1>14. SignedIn'
  <2> SUFFICES ASSUME ~sessionCrashed, NEW m \in SessionRequests \ signedOut,
                      wish[m].op \in SignIns, session[m] # "none", provenBy'[m] = password
               PROVE  \E u \in SessionRequests :
                        chain'[u] = m /\ (session[u] \in {"live", "expired"} \/ sessionPc'[u] = "issue")
    BY <1>1 DEF SignedIn
  <2>1. provenBy[m] = password
    BY <1>3, <1>6
  <2>2. PICK u \in SessionRequests :
          chain[u] = m /\ (session[u] \in {"live", "expired"} \/ sessionPc[u] = "issue")
    BY <2>1 DEF SessionInv, SignedIn
  <2>3. u # t
    BY <2>2, <1>1, <1>3
  <2> QED BY <2>2, <2>3, <1>2, <1>4
<1>15. ProvenNow'
  BY <1>1, <1>2, <1>3, <1>6 DEF SessionInv, ProvenNow
<1>16. CodesSpent'
  BY <1>1, <1>2 DEF SessionInv, CodesSpent
<1>17. LinksSpent'
  BY <1>1, <1>2 DEF SessionInv, LinksSpent
<1> QED BY <1>8, <1>9, <1>12, <1>13, <1>14, <1>15, <1>16, <1>17 DEF SessionInv

LEMMA RotateInv ==
  ASSUME SessionInv, NEW t \in SessionRequests, Rotate(t) PROVE SessionInv'
<1> DEFINE s == target[t]
           l == chain[t]
<1>1. /\ wish[t].op = "refresh" /\ sessionPc[t] = "rotate" /\ SessionGoto(t, "issue")
      /\ session' = [session EXCEPT ![s] = "revoked"]
      /\ UNCHANGED <<wish, challenge, chain, password, provenBy, backupCodes, link, target, codesSeen,
                     signedOut, codeUses, linkUses, sessionOverlap, codeOverlap, linkOverlap,
                     overtaken, sessionCrashed>>
  BY DEF Rotate, SessionAt, sessionHistory
<1>2. /\ sessionPc' \in
           [SessionRequests -> {"start", "spend", "rotate", "issue", "reset", "done"}]
      /\ sessionPc'[t] = "issue"
      /\ \A u \in SessionRequests \ {t} : sessionPc'[u] = sessionPc[u]
  BY <1>1, Goto DEF SessionInv
<1>3. /\ s \in SessionRequests /\ l \in SessionRequests /\ session[s] # "none" /\ chain[s] = l
      /\ session[t] = "none" /\ s # t
  BY <1>1, SessionTypes DEF SessionInv, Stages
<1>4. Rotating(t, l)
  BY <1>1 DEF Rotating
<1> HIDE DEF s
<1>5. /\ session' \in [SessionRequests -> {"none", "live", "revoked", "expired"}]
      /\ session'[s] = "revoked"
      /\ \A u \in SessionRequests \ {s} : session'[u] = session[u]
  BY <1>1, <1>3, SessionTypes DEF SessionInv
<1>6. SessionTypeOK'
  BY <1>1, <1>2, <1>5 DEF SessionInv, SessionTypeOK
<1>7. Stages'
  <2>1. \A u \in SessionRequests : session'[u] = "none" <=> session[u] = "none"
    BY <1>3, <1>5
  <2>2. chain \in [SessionRequests -> SessionRequests] /\ target \in [SessionRequests -> SessionRequests]
    BY SessionTypes DEF SessionInv
  <2>3. sessionPc[s] = "done"
    BY <1>3 DEF SessionInv, Stages
  <2> QED BY <2>1, <2>2, <2>3, <1>1, <1>2, <1>3 DEF SessionInv, Stages
<1> HIDE DEF l
<1>8. \A u, m \in SessionRequests :
        /\ Rotating(u, m)' => Rotating(u, m)
        /\ Holds(u, m)' => (Holds(u, m) /\ u # s) \/ (u = t /\ m = l)
  <2>1. sessionPc[s] = "done"
    BY <1>3 DEF SessionInv, Stages
  <2> QED BY <2>1, <1>1, <1>2, <1>3, <1>5 DEF Holds, Rotating, l
<1>9. OneHolder'
  <2> SUFFICES ASSUME NEW m \in SessionRequests \ sessionOverlap
               PROVE  /\ \A u, v \in SessionRequests : Holds(u, m)' /\ Holds(v, m)' => u = v
                      /\ \A u, v \in SessionRequests : Rotating(u, m)' /\ Rotating(v, m)' => u = v
                      /\ \A u, v \in SessionRequests :
                           Rotating(v, m)' /\ sessionPc'[v] = "rotate" /\ Holds(u, m)' => u = target[v]
    BY <1>1 DEF OneHolder
  <2>1. /\ \A u, v \in SessionRequests : Holds(u, m) /\ Holds(v, m) => u = v
        /\ \A u, v \in SessionRequests : Rotating(u, m) /\ Rotating(v, m) => u = v
        /\ \A u, v \in SessionRequests :
             Rotating(v, m) /\ sessionPc[v] = "rotate" /\ Holds(u, m) => u = target[v]
    BY DEF SessionInv, OneHolder
  <2>2. CASE m = l
    <3>1. \A u \in SessionRequests : Holds(u, m) => u = s
      BY <2>1, <2>2, <1>1, <1>4 DEF s
    <3>2. \A u \in SessionRequests : Holds(u, m)' => u = t
      BY <3>1, <1>8
    <3>3. \A v \in SessionRequests : Rotating(v, m)' => v = t
      BY <2>1, <2>2, <1>4, <1>8
    <3> QED BY <3>2, <3>3, <1>2
  <2>3. CASE m # l
    <3>1. \A u \in SessionRequests : Holds(u, m)' => Holds(u, m)
      BY <2>3, <1>8
    <3>2. ~Rotating(t, m)
      BY <2>3 DEF Rotating, l
    <3> QED BY <2>1, <3>1, <3>2, <1>2, <1>8
  <2> QED BY <2>2, <2>3
<1>10. SignedOutStay'
  <2>1. signedOut \subseteq SessionRequests
    BY DEF SessionInv, SessionTypeOK
  <2>2. l \in signedOut => l \in sessionOverlap
    BY <1>4 DEF SessionInv, SignedOutStay
  <2>3. \A m \in signedOut : session'[m] # "none"
    BY <2>1, <1>5 DEF SessionInv, SignedOutStay
  <2> QED BY <2>1, <2>2, <2>3, <1>1, <1>8 DEF SessionInv, SignedOutStay
<1>11. SignedIn'
  <2> SUFFICES ASSUME ~sessionCrashed, NEW m \in SessionRequests \ signedOut,
                      wish[m].op \in SignIns, session'[m] # "none", provenBy[m] = password
               PROVE  \E u \in SessionRequests :
                        chain[u] = m /\ (session'[u] \in {"live", "expired"} \/ sessionPc'[u] = "issue")
    BY <1>1 DEF SignedIn
  <2>1. session[m] # "none"
    BY <1>3, <1>5
  <2>2. PICK u \in SessionRequests :
          chain[u] = m /\ (session[u] \in {"live", "expired"} \/ sessionPc[u] = "issue")
    BY <2>1 DEF SessionInv, SignedIn
  <2>3. CASE u = s
    BY <2>2, <2>3, <1>2, <1>3 DEF l
  <2>4. CASE u # s
    BY <2>2, <2>4, <1>1, <1>2, <1>5
  <2> QED BY <2>3, <2>4
<1>12. ProvenNow'
  BY <1>1, <1>2, <1>5 DEF SessionInv, ProvenNow
<1>13. CodesSpent'
  BY <1>1, <1>2 DEF SessionInv, CodesSpent
<1>14. LinksSpent'
  BY <1>1, <1>2 DEF SessionInv, LinksSpent
<1> QED BY <1>6, <1>7, <1>9, <1>10, <1>11, <1>12, <1>13, <1>14 DEF SessionInv

LEMMA SignOutInv ==
  ASSUME SessionInv, NEW t \in SessionRequests, NEW s \in SessionRequests, SignOut(t, s)
  PROVE  SessionInv'
<1> DEFINE l == chain[s]
<1>1. /\ wish[t].op = "signOut" /\ sessionPc[t] = "start" /\ session[s] = "live"
      /\ session' = [session EXCEPT ![s] = "revoked"] /\ signedOut' = signedOut \cup {l}
      /\ sessionOverlap' = sessionOverlap \cup {m \in {l} : \E u \in SessionRequests : Rotating(u, m)}
      /\ SessionGoto(t, "done")
      /\ UNCHANGED <<wish, challenge, chain, password, provenBy, backupCodes, link, target, codesSeen, codeUses,
                     linkUses, codeOverlap, linkOverlap, overtaken, sessionCrashed>>
  BY DEF SignOut, SessionAt
<1>2. /\ sessionPc' \in
           [SessionRequests -> {"start", "spend", "rotate", "issue", "reset", "done"}]
      /\ sessionPc'[t] = "done"
      /\ \A u \in SessionRequests \ {t} : sessionPc'[u] = sessionPc[u]
  BY <1>1, Goto DEF SessionInv
<1>3. l \in SessionRequests /\ session[l] # "none"
  BY <1>1, SessionTypes DEF SessionInv, Stages
<1>4. /\ session' \in [SessionRequests -> {"none", "live", "revoked", "expired"}]
      /\ session'[s] = "revoked"
      /\ \A u \in SessionRequests \ {s} : session'[u] = session[u]
  BY <1>1, SessionTypes DEF SessionInv
<1>5. Holds(s, l)
  BY <1>1 DEF Holds
<1>6. sessionPc[s] = "done"
  BY <1>1 DEF SessionInv, Stages
<1>7. \A u, m \in SessionRequests :
        /\ Rotating(u, m)' => Rotating(u, m)
        /\ Holds(u, m)' => Holds(u, m) /\ u # s
  BY <1>1, <1>2, <1>4, <1>6 DEF Holds, Rotating
<1>8. /\ sessionOverlap \subseteq sessionOverlap' /\ sessionOverlap' \subseteq SessionRequests
      /\ l \notin sessionOverlap' => \A u \in SessionRequests : ~Rotating(u, l)
  <2>1. sessionOverlap \subseteq SessionRequests
    BY DEF SessionInv, SessionTypeOK
  <2> QED BY <2>1, <1>1, <1>3
<1>9. signedOut' \subseteq SessionRequests
  BY <1>1, <1>3 DEF SessionInv, SessionTypeOK
<1>10. SessionTypeOK'
  BY <1>1, <1>2, <1>4, <1>8, <1>9 DEF SessionInv, SessionTypeOK
<1>11. Stages'
  <2>1. \A u \in SessionRequests : session'[u] = "none" <=> session[u] = "none"
    BY <1>1, <1>4
  <2>2. chain \in [SessionRequests -> SessionRequests] /\ target \in [SessionRequests -> SessionRequests]
    BY SessionTypes DEF SessionInv
  <2> QED BY <2>1, <2>2, <1>1, <1>2 DEF SessionInv, Stages
<1>12. OneHolder'
  BY <1>1, <1>2, <1>7, <1>8 DEF SessionInv, OneHolder
<1>13. SignedOutStay'
  <2> SUFFICES ASSUME NEW m \in signedOut'
               PROVE  /\ session'[m] # "none"
                      /\ m \notin sessionOverlap' =>
                           \A u \in SessionRequests : ~Holds(u, m)' /\ ~Rotating(u, m)'
    BY DEF SignedOutStay
  <2>1. CASE m = l
    <3>1. m \notin sessionOverlap' => \A u \in SessionRequests : Holds(u, l) => u = s
      BY <2>1, <1>3, <1>5, <1>8 DEF SessionInv, OneHolder
    <3> QED BY <2>1, <3>1, <1>3, <1>4, <1>7, <1>8
  <2>2. CASE m \in signedOut
    <3>1. m \in SessionRequests /\ session[m] # "none"
      BY <2>2 DEF SessionInv, SessionTypeOK, SignedOutStay
    <3> QED BY <2>2, <3>1, <1>4, <1>7, <1>8 DEF SessionInv, SignedOutStay
  <2> QED BY <2>1, <2>2, <1>1
<1>14. SignedIn'
  <2> SUFFICES ASSUME ~sessionCrashed, NEW m \in SessionRequests \ signedOut',
                      wish[m].op \in SignIns, session'[m] # "none", provenBy[m] = password
               PROVE  \E u \in SessionRequests :
                        chain[u] = m /\ (session'[u] \in {"live", "expired"} \/ sessionPc'[u] = "issue")
    BY <1>1 DEF SignedIn
  <2>1. session[m] # "none" /\ m \notin signedOut /\ m # l
    BY <1>1, <1>4
  <2>2. PICK u \in SessionRequests :
          chain[u] = m /\ (session[u] \in {"live", "expired"} \/ sessionPc[u] = "issue")
    BY <2>1 DEF SessionInv, SignedIn
  <2>3. u # s /\ (sessionPc[u] = "issue" => u # t)
    BY <2>1, <2>2, <1>1
  <2> QED BY <2>2, <2>3, <1>2, <1>4
<1>15. ProvenNow'
  BY <1>1, <1>2, <1>4 DEF SessionInv, ProvenNow
<1>16. CodesSpent'
  BY <1>1, <1>2 DEF SessionInv, CodesSpent
<1>17. LinksSpent'
  BY <1>1, <1>2 DEF SessionInv, LinksSpent
<1> QED BY <1>10, <1>11, <1>12, <1>13, <1>14, <1>15, <1>16, <1>17 DEF SessionInv

\* Steps that touch neither sessions nor chains, and end or begin no issue.
LEMMA ChainsStay ==
  ASSUME SessionInv, NEW t \in SessionRequests, NEW next \in {"reset", "done"},
         /\ sessionPc'[t] = next
         /\ \A u \in SessionRequests \ {t} : sessionPc'[u] = sessionPc[u],
         sessionPc[t] \notin {"done"},
         next = "reset" => wish[t].op = "reset" /\ sessionPc[t] = "start",
         wish[t].op = "refresh" => sessionPc[t] # "start",
         UNCHANGED <<wish, session, chain, target, signedOut, sessionOverlap>>
  PROVE  Stages' /\ OneHolder' /\ SignedOutStay'
<1>1. Stages'
  BY DEF SessionInv, Stages
<1>2. \A u, m \in SessionRequests : /\ Holds(u, m)' => Holds(u, m)
                                    /\ Rotating(u, m)' => Rotating(u, m)
  BY DEF Holds, Rotating
<1>3. OneHolder'
  BY <1>2 DEF SessionInv, OneHolder
<1>4. SignedOutStay'
  BY <1>2 DEF SessionInv, SignedOutStay, SessionTypeOK
<1> QED BY <1>1, <1>3, <1>4

LEMMA RequestPasswordResetInv ==
  ASSUME SessionInv, NEW k \in ResetLinks, RequestPasswordReset(k) PROVE SessionInv'
<1>1. /\ link[k] = "none" /\ link' = [link EXCEPT ![k] = "sent"]
      /\ UNCHANGED <<wish, session, challenge, chain, password, provenBy, backupCodes, sessionPc, target,
                     codesSeen, signedOut, codeUses, linkUses, sessionOverlap, codeOverlap,
                     linkOverlap, overtaken, sessionCrashed>>
  BY DEF RequestPasswordReset, sessionHistory
<1>2. /\ link' \in [ResetLinks -> {"none", "sent", "used"}]
      /\ link'[k] = "sent" /\ \A j \in ResetLinks \ {k} : link'[j] = link[j]
  BY <1>1, SessionTypes DEF SessionInv
<1>3. SessionTypeOK'
  BY <1>1, <1>2 DEF SessionInv, SessionTypeOK
<1>4. Stages' /\ OneHolder' /\ SignedOutStay' /\ SignedIn' /\ ProvenNow' /\ CodesSpent'
  BY <1>1 DEF SessionInv, Stages, OneHolder, Holds, Rotating, SignedOutStay, SignedIn, ProvenNow, CodesSpent
<1>5. LinksSpent'
  <2>1. \A t \in SessionRequests : sessionPc[t] = "reset" => wish[t].link \in ResetLinks
    BY WishFields DEF SessionInv, SessionTypeOK, Stages
  <2> QED BY <2>1, <1>1, <1>2 DEF SessionInv, LinksSpent
<1> QED BY <1>3, <1>4, <1>5 DEF SessionInv

LEMMA ReadLinkInv ==
  ASSUME SessionInv, NEW t \in SessionRequests, ReadLink(t) PROVE SessionInv'
<1>1. /\ wish[t].op = "reset" /\ sessionPc[t] = "start" /\ link[wish[t].link] = "sent"
      /\ SessionGoto(t, "reset")
      /\ linkOverlap' = (linkOverlap \/ \E u \in SessionRequests :
                           sessionPc[u] = "reset" /\ wish[u].link = wish[t].link)
      /\ UNCHANGED <<wish, session, challenge, chain, password, provenBy, backupCodes, link, target, codesSeen,
                     signedOut, codeUses, linkUses, sessionOverlap, codeOverlap, overtaken,
                     sessionCrashed>>
  BY DEF ReadLink, SessionAt, sessionRows
<1>2. /\ sessionPc' \in
           [SessionRequests -> {"start", "spend", "rotate", "issue", "reset", "done"}]
      /\ sessionPc'[t] = "reset"
      /\ \A u \in SessionRequests \ {t} : sessionPc'[u] = sessionPc[u]
  BY <1>1, Goto DEF SessionInv
<1>3. SessionTypeOK'
  <2>1. linkOverlap' \in BOOLEAN
    BY <1>1
  <2> QED BY <2>1, <1>1, <1>2 DEF SessionInv, SessionTypeOK
<1>4. Stages' /\ OneHolder' /\ SignedOutStay'
  BY <1>1, <1>2, ChainsStay
<1>5. SignedIn'
  BY <1>1, <1>2 DEF SessionInv, SignedIn
<1>6. ProvenNow'
  BY <1>1, <1>2 DEF SessionInv, ProvenNow
<1>7. CodesSpent'
  BY <1>1, <1>2 DEF SessionInv, CodesSpent
<1>8. LinksSpent'
  <2> SUFFICES ASSUME ~linkOverlap' PROVE LinksSpent'
    BY <1>1 DEF LinksSpent
  <2>1. /\ ~linkOverlap
        /\ \A u \in SessionRequests : sessionPc[u] = "reset" => wish[u].link # wish[t].link
    BY <1>1
  <2>2. /\ \A v, u \in SessionRequests :
             sessionPc[v] = "reset" /\ sessionPc[u] = "reset" /\ wish[v].link = wish[u].link => v = u
        /\ \A u \in SessionRequests : sessionPc[u] = "reset" => link[wish[u].link] = "sent"
        /\ \A k \in ResetLinks : linkUses[k] <= 1 /\ (link[k] # "used" => linkUses[k] = 0)
    BY <2>1 DEF SessionInv, LinksSpent
  <2>3. \A v, u \in SessionRequests :
          sessionPc'[v] = "reset" /\ sessionPc'[u] = "reset" /\ wish[v].link = wish[u].link => v = u
    BY <2>1, <2>2, <1>2
  <2>4. \A u \in SessionRequests : sessionPc'[u] = "reset" => link[wish[u].link] = "sent"
    BY <2>2, <1>1, <1>2
  <2> QED BY <2>2, <2>3, <2>4, <1>1 DEF LinksSpent
<1> QED BY <1>3, <1>4, <1>5, <1>6, <1>7, <1>8 DEF SessionInv

LEMMA ResetPasswordInv ==
  ASSUME SessionInv, NEW t \in SessionRequests, ResetPassword(t) PROVE SessionInv'
<1> DEFINE k == wish[t].link
<1>1. /\ wish[t].op = "reset" /\ sessionPc[t] = "reset" /\ password' = password + 1
      /\ link' = [link EXCEPT ![k] = "used"] /\ linkUses' = [linkUses EXCEPT ![k] = @ + 1]
      /\ session' = [s \in SessionRequests |-> IF session[s] = "none" THEN "none" ELSE "revoked"]
      /\ overtaken' = overtaken \cup
           {u \in SessionRequests :
              sessionPc[u] \in {"spend", "rotate", "issue"} \/ challenge[u] = "open"}
      /\ SessionGoto(t, "done")
      /\ UNCHANGED <<wish, challenge, chain, provenBy, backupCodes, target, codesSeen, signedOut, codeUses,
                     sessionOverlap, codeOverlap, linkOverlap, sessionCrashed>>
  BY DEF ResetPassword, SessionAt, NoteReset
<1>2. /\ sessionPc' \in
           [SessionRequests -> {"start", "spend", "rotate", "issue", "reset", "done"}]
      /\ sessionPc'[t] = "done"
      /\ \A u \in SessionRequests \ {t} : sessionPc'[u] = sessionPc[u]
  BY <1>1, Goto DEF SessionInv
<1>3. k \in ResetLinks
  BY <1>1, WishFields DEF SessionInv, SessionTypeOK
<1> HIDE DEF k
<1>4. /\ link' \in [ResetLinks -> {"none", "sent", "used"}] /\ link'[k] = "used"
      /\ \A j \in ResetLinks \ {k} : link'[j] = link[j]
  BY <1>1, <1>3, SessionTypes DEF SessionInv
<1>5. /\ linkUses' \in [ResetLinks -> Nat] /\ linkUses'[k] = linkUses[k] + 1
      /\ \A j \in ResetLinks \ {k} : linkUses'[j] = linkUses[j]
  BY <1>1, <1>3, SessionTypes DEF SessionInv
<1>6. /\ session' \in [SessionRequests -> {"none", "live", "revoked", "expired"}]
      /\ \A s \in SessionRequests : session'[s] # "live" /\ (session'[s] = "none" <=> session[s] = "none")
  BY <1>1
<1>7. /\ password' \in Nat /\ provenBy \in [SessionRequests -> 0..password']
      /\ \A s \in SessionRequests : provenBy[s] # password'
  <2>1. password \in Nat /\ provenBy \in [SessionRequests -> 0..password]
    BY SessionTypes DEF SessionInv
  <2>2. \A s \in SessionRequests : provenBy[s] \in 0..password' /\ provenBy[s] # password'
    BY <2>1, <1>1
  <2> QED BY <2>1, <2>2, <1>1
<1>8. SessionTypeOK'
  <2>1. overtaken' \subseteq SessionRequests
    BY <1>1, SessionTypes DEF SessionInv
  <2> QED BY <2>1, <1>1, <1>2, <1>4, <1>5, <1>6, <1>7 DEF SessionInv, SessionTypeOK
<1>9. Stages'
  <2>1. chain \in [SessionRequests -> SessionRequests] /\ target \in [SessionRequests -> SessionRequests]
    BY SessionTypes DEF SessionInv
  <2> QED BY <2>1, <1>1, <1>2, <1>6 DEF SessionInv, Stages
<1>10. \A u, m \in SessionRequests : /\ Holds(u, m)' => Holds(u, m)
                                     /\ Rotating(u, m)' => Rotating(u, m)
  BY <1>1, <1>2, <1>6 DEF Holds, Rotating
<1>11. OneHolder'
  BY <1>1, <1>2, <1>10 DEF SessionInv, OneHolder
<1>12. SignedOutStay'
  <2>1. signedOut \subseteq SessionRequests
    BY DEF SessionInv, SessionTypeOK
  <2> QED BY <2>1, <1>1, <1>6, <1>10 DEF SessionInv, SignedOutStay
<1>13. SignedIn'
  BY <1>1, <1>7 DEF SignedIn
<1>14. ProvenNow'
  BY <1>1, <1>2, <1>6 DEF SessionInv, ProvenNow
<1>15. CodesSpent'
  BY <1>1, <1>2 DEF SessionInv, CodesSpent
<1>16. LinksSpent'
  <2> SUFFICES ASSUME ~linkOverlap PROVE LinksSpent'
    BY <1>1 DEF LinksSpent
  <2>1. /\ \A u, v \in SessionRequests :
             sessionPc[u] = "reset" /\ sessionPc[v] = "reset" /\ wish[u].link = wish[v].link => u = v
        /\ \A u \in SessionRequests : sessionPc[u] = "reset" => link[wish[u].link] = "sent"
        /\ \A j \in ResetLinks : linkUses[j] <= 1 /\ (link[j] # "used" => linkUses[j] = 0)
    BY DEF SessionInv, LinksSpent
  <2>2. \A u \in SessionRequests : sessionPc[u] = "reset" => wish[u].link \in ResetLinks
    BY WishFields DEF SessionInv, SessionTypeOK, Stages
  <2>3. linkUses[k] = 0
    BY <2>1, <1>1, <1>3 DEF k
  <2>4. \A j \in ResetLinks : linkUses'[j] <= 1 /\ (link'[j] # "used" => linkUses'[j] = 0)
    BY <2>1, <2>3, <1>4, <1>5
  <2>5. \A u \in SessionRequests : sessionPc'[u] = "reset" =>
          u # t /\ sessionPc[u] = "reset" /\ wish[u].link # k
    BY <2>1, <1>1, <1>2 DEF k
  <2>6. \A u \in SessionRequests : sessionPc'[u] = "reset" => link'[wish[u].link] = "sent"
    BY <2>1, <2>2, <2>5, <1>4
  <2>7. \A u, v \in SessionRequests :
          sessionPc'[u] = "reset" /\ sessionPc'[v] = "reset" /\ wish[u].link = wish[v].link => u = v
    BY <2>1, <2>5
  <2> QED BY <2>4, <2>6, <2>7, <1>1 DEF LinksSpent
<1> QED BY <1>8, <1>9, <1>11, <1>12, <1>13, <1>14, <1>15, <1>16 DEF SessionInv

LEMMA ExpireInv ==
  ASSUME SessionInv, NEW s \in SessionRequests, Expire(s) PROVE SessionInv'
<1>1. /\ session[s] = "live" /\ session' = [session EXCEPT ![s] = "expired"]
      /\ UNCHANGED <<wish, challenge, chain, password, provenBy, backupCodes, link, sessionPc, target,
                     codesSeen, signedOut, codeUses, linkUses, sessionOverlap, codeOverlap,
                     linkOverlap, overtaken, sessionCrashed>>
  BY DEF Expire, sessionHistory
<1>2. /\ session' \in [SessionRequests -> {"none", "live", "revoked", "expired"}]
      /\ session'[s] = "expired"
      /\ \A u \in SessionRequests \ {s} : session'[u] = session[u]
  BY <1>1, SessionTypes DEF SessionInv
<1>3. SessionTypeOK'
  BY <1>1, <1>2 DEF SessionInv, SessionTypeOK
<1>4. \A u \in SessionRequests : session'[u] = "none" <=> session[u] = "none"
  BY <1>1, <1>2
<1>5. Stages'
  <2>1. chain \in [SessionRequests -> SessionRequests] /\ target \in [SessionRequests -> SessionRequests]
    BY SessionTypes DEF SessionInv
  <2> QED BY <2>1, <1>1, <1>4 DEF SessionInv, Stages
<1>6. \A u, m \in SessionRequests : /\ Holds(u, m)' => Holds(u, m)
                                    /\ Rotating(u, m)' => Rotating(u, m)
  BY <1>1, <1>2 DEF Holds, Rotating
<1>7. OneHolder'
  BY <1>1, <1>6 DEF SessionInv, OneHolder
<1>8. SignedOutStay'
  <2>1. signedOut \subseteq SessionRequests
    BY DEF SessionInv, SessionTypeOK
  <2> QED BY <2>1, <1>1, <1>4, <1>6 DEF SessionInv, SignedOutStay
<1>9. SignedIn'
  <2>1. \A u \in SessionRequests : session[u] \in {"live", "expired"} => session'[u] \in {"live", "expired"}
    BY <1>2
  <2> QED BY <2>1, <1>1, <1>4 DEF SessionInv, SignedIn
<1>10. ProvenNow'
  BY <1>1, <1>2 DEF SessionInv, ProvenNow
<1>11. CodesSpent' /\ LinksSpent'
  BY <1>1 DEF SessionInv, CodesSpent, LinksSpent
<1> QED BY <1>3, <1>5, <1>7, <1>8, <1>9, <1>10, <1>11 DEF SessionInv

LEMMA ExpireChallengeInv ==
  ASSUME SessionInv, NEW l \in SessionRequests, ExpireChallenge(l) PROVE SessionInv'
<1>1. /\ challenge' = [challenge EXCEPT ![l] = "expired"]
      /\ UNCHANGED <<wish, session, chain, password, provenBy, backupCodes, link, sessionPc, target,
                     codesSeen, signedOut, codeUses, linkUses, sessionOverlap, codeOverlap,
                     linkOverlap, overtaken, sessionCrashed>>
  BY DEF ExpireChallenge, sessionHistory
<1>2. /\ challenge' \in [SessionRequests -> {"none", "open", "expired"}]
      /\ \A u \in SessionRequests : challenge'[u] = "open" => challenge[u] = "open"
  BY <1>1, SessionTypes DEF SessionInv
<1>3. SessionTypeOK' /\ ProvenNow'
  BY <1>1, <1>2 DEF SessionInv, SessionTypeOK, ProvenNow
<1>4. Stages' /\ OneHolder' /\ SignedOutStay' /\ SignedIn' /\ CodesSpent' /\ LinksSpent'
  BY <1>1 DEF SessionInv, Stages, OneHolder, Holds, Rotating, SignedOutStay, SignedIn, CodesSpent,
             LinksSpent
<1> QED BY <1>3, <1>4 DEF SessionInv

LEMMA SessionCrashInv ==
  ASSUME SessionInv, NEW t \in SessionRequests, SessionCrash(t) PROVE SessionInv'
<1>1. /\ sessionPc[t] \notin {"start", "done"} /\ SessionGoto(t, "done")
      /\ codesSeen' = [codesSeen EXCEPT ![t] = {}] /\ sessionCrashed' = TRUE
      /\ UNCHANGED <<wish, session, challenge, chain, password, provenBy, backupCodes, link, target, signedOut,
                     codeUses, linkUses, sessionOverlap, codeOverlap, linkOverlap, overtaken>>
  BY DEF SessionCrash, sessionRows
<1>2. /\ sessionPc' \in
           [SessionRequests -> {"start", "spend", "rotate", "issue", "reset", "done"}]
      /\ sessionPc'[t] = "done"
      /\ \A u \in SessionRequests \ {t} : sessionPc'[u] = sessionPc[u]
  BY <1>1, Goto DEF SessionInv
<1>3. /\ codesSeen' \in [SessionRequests -> SUBSET BackupCodes]
      /\ \A u \in SessionRequests \ {t} : codesSeen'[u] = codesSeen[u]
  BY <1>1, SessionTypes DEF SessionInv
<1>4. SessionTypeOK'
  <2>1. sessionCrashed' \in BOOLEAN
    BY <1>1
  <2> QED BY <2>1, <1>1, <1>2, <1>3 DEF SessionInv, SessionTypeOK
<1>5. Stages' /\ OneHolder' /\ SignedOutStay'
  BY <1>1, <1>2, ChainsStay
<1>6. SignedIn'
  BY <1>1 DEF SignedIn
<1>7. ProvenNow'
  BY <1>1, <1>2 DEF SessionInv, ProvenNow
<1>8. CodesSpent'
  BY <1>1, <1>2, <1>3 DEF SessionInv, CodesSpent
<1>9. LinksSpent'
  BY <1>1, <1>2 DEF SessionInv, LinksSpent
<1> QED BY <1>4, <1>5, <1>6, <1>7, <1>8, <1>9 DEF SessionInv

LEMMA SessionStepInv == SessionInv /\ [SessionNext]_sessionVars => SessionInv'
<1>1. SessionInv /\ UNCHANGED sessionVars => SessionInv'
  <2> SUFFICES ASSUME SessionInv, UNCHANGED sessionVars PROVE SessionInv'
    OBVIOUS
  <2> USE DEF sessionVars, sessionRows, sessionHistory
  <2>1. SessionTypeOK'
    BY DEF SessionInv, SessionTypeOK
  <2>2. Stages' /\ OneHolder' /\ SignedOutStay'
    BY DEF SessionInv, Stages, OneHolder, SignedOutStay, Holds, Rotating
  <2>3. SignedIn' /\ ProvenNow' /\ CodesSpent' /\ LinksSpent'
    BY DEF SessionInv, SignedIn, ProvenNow, CodesSpent, LinksSpent
  <2> QED BY <2>1, <2>2, <2>3 DEF SessionInv
<1> QED BY <1>1, CheckPasswordInv, AnswerChallengeInv, SpendCodeInv, IssueTokensInv, ReadSessionInv,
           RotateInv, SignOutInv, RequestPasswordResetInv, ReadLinkInv, ResetPasswordInv, ExpireInv,
           ExpireChallengeInv, SessionCrashInv DEF SessionNext

LEMMA SessionInvSound == SessionInv => SessionTypeOK /\ SessionsSound
<1> SUFFICES ASSUME SessionInv PROVE SessionTypeOK /\ SessionsSound
  OBVIOUS
<1>1. OneSessionPerSignIn
  <2> SUFFICES ASSUME NEW l \in SessionRequests \ sessionOverlap PROVE Cardinality(Live(l)) <= 1
    BY DEF OneSessionPerSignIn
  <2>1. \A s, u \in Live(l) : s = u
    BY DEF SessionInv, OneHolder, Holds, Live
  <2>2. CASE Live(l) = {}
    BY <2>2, FS_EmptySet
  <2>3. CASE Live(l) # {}
    <3>1. PICK s : Live(l) = {s}
      BY <2>1, <2>3
    <3>2. Cardinality({s}) = 1
      BY FS_Singleton
    <3> HIDE DEF Live
    <3> QED BY <3>1, <3>2
  <2> QED BY <2>2, <2>3
<1>2. SignOutEndsChain
  BY DEF SessionInv, SignedOutStay, SignOutEndsChain, Holds, Live
<1>3. OthersStaySignedIn
  BY DEF SessionInv, SignedIn, OthersStaySignedIn
<1>4. ResetEndsSessions
  BY DEF SessionInv, ProvenNow, ResetEndsSessions
<1>5. CodesWorkOnce /\ LinksWorkOnce
  BY DEF SessionInv, CodesSpent, LinksSpent, CodesWorkOnce, LinksWorkOnce
<1> QED BY <1>1, <1>2, <1>3, <1>4, <1>5 DEF SessionInv, SessionsSound

\* SessionTypeOK and SessionsSound: for any requests and scenarios, with crashes,
\* and each part until the requests it speaks of overlap: one live session per
\* sign-in, none after its sign-out, none proved by a password from before a
\* reset but what comes of a request or challenge the reset overtook, the others
\* stay signed in, and backup codes and reset links work once.
THEOREM SessionsAlwaysSound == SessionSpec => [](SessionTypeOK /\ SessionsSound)
BY SessionInitInv, SessionStepInv, SessionInvSound, PTL DEF SessionSpec
-----------------------------------------------------------------------------
(* Switching the second factor on and off (SecondFactor).                  *)

\* What a request has read is still in the row until the row changes under it.
StepsAreCurrent ==
  /\ \A r \in FactorRequests : factorStep[r].op = "spend" => factorStep[r].codes \in 0..secretsMade
  /\ ~factorOverlap =>
       \A r \in FactorRequests :
         /\ factorStep[r].op = "confirm" => factorSecret \in proven
         /\ factorStep[r].op = "spend" => factorStep[r].codes = codesOf

FactorInv == FactorTypeOK /\ StepsAreCurrent /\ SecondFactorSound

LEMMA StepFields ==
  ASSUME NEW s \in FactorSteps
  PROVE  /\ s.op \in {"none", "confirm", "spend"}
         /\ s.op = "none" => s = NoFactorStep
         /\ s = NoFactorStep => s.op = "none"
         /\ s.codes \in 0..LastSecret
BY FactorAssumption DEF FactorSteps, NoFactorStep

\* Requests that hold nothing: the others, when the write is no overlap.
LEMMA NobodyElse ==
  ASSUME FactorTypeOK, NEW r \in FactorRequests, NoteFactorWrite(r), ~factorOverlap'
  PROVE  /\ ~factorOverlap
         /\ \A q \in FactorRequests \ {r} : factorStep[q] = NoFactorStep /\ factorStep[q].op = "none"
<1>1. ~factorOverlap /\ \A q \in FactorRequests \ {r} : factorStep[q] = NoFactorStep
  BY DEF NoteFactorWrite
<1> QED BY <1>1 DEF NoFactorStep

LEMMA OverlapIsBoolean ==
  ASSUME NEW r \in FactorRequests, NoteFactorWrite(r) PROVE factorOverlap' \in BOOLEAN
BY DEF NoteFactorWrite

\* A request ends; the others keep what they have read.
LEMMA EndFactorStep ==
  ASSUME FactorTypeOK, NEW r \in FactorRequests,
         factorStep' = [factorStep EXCEPT ![r] = NoFactorStep]
  PROVE  /\ factorStep' \in [FactorRequests -> FactorSteps]
         /\ factorStep'[r] = NoFactorStep /\ factorStep'[r].op = "none"
         /\ \A q \in FactorRequests \ {r} : factorStep'[q] = factorStep[q]
BY DEF FactorTypeOK, FactorSteps, NoFactorStep

LEMMA FactorInitInv == FactorInit => FactorInv
<1> SUFFICES ASSUME FactorInit PROVE FactorInv
  OBVIOUS
<1>1. factorEnabled \in BOOLEAN /\ factorOverlap \in BOOLEAN /\ ~factorEnabled
  BY DEF FactorInit
<1>2. /\ secretsMade \in 0..LastSecret /\ factorSecret \in 0..secretsMade /\ codesOf \in 0..secretsMade
      /\ codesOf = factorSecret /\ proven \subseteq 1..secretsMade
  BY FactorAssumption DEF FactorInit
<1>3. /\ factorStep \in [FactorRequests -> FactorSteps]
      /\ \A r \in FactorRequests : factorStep[r].op = "none"
  BY DEF FactorInit, FactorSteps, NoFactorStep
<1>4. FactorTypeOK
  BY <1>1, <1>2, <1>3 DEF FactorTypeOK
<1>5. StepsAreCurrent
  BY <1>3 DEF StepsAreCurrent
<1>6. SecondFactorSound
  BY <1>1, <1>2 DEF SecondFactorSound
<1> QED BY <1>4, <1>5, <1>6 DEF FactorInv

LEMMA EnableInv ==
  ASSUME FactorInv, NEW r \in FactorRequests, EnableTwoFactor(r) PROVE FactorInv'
<1>1. /\ secretsMade \in Nat /\ secretsMade + 1 <= LastSecret /\ secretsMade' = secretsMade + 1
      /\ factorSecret' = secretsMade' /\ codesOf' = secretsMade' /\ factorEnabled' = FALSE
      /\ UNCHANGED <<factorStep, proven>> /\ factorStep[r] = NoFactorStep
  BY FactorAssumption DEF EnableTwoFactor, FactorInv, FactorTypeOK
<1>2. factorOverlap' \in BOOLEAN
  BY OverlapIsBoolean DEF EnableTwoFactor
<1>3. FactorTypeOK'
  <2>1. /\ secretsMade' \in 0..LastSecret /\ factorSecret' \in 0..secretsMade'
        /\ codesOf' \in 0..secretsMade'
    BY <1>1, FactorAssumption
  <2>2. proven' \subseteq 1..secretsMade'
    BY <1>1 DEF FactorInv, FactorTypeOK
  <2>3. factorEnabled' \in BOOLEAN
    BY <1>1
  <2> QED BY <1>1, <1>2, <2>1, <2>2, <2>3 DEF FactorInv, FactorTypeOK
<1>4. ~factorOverlap' => \A q \in FactorRequests : factorStep[q].op = "none"
  BY <1>1, NobodyElse DEF EnableTwoFactor, FactorInv, NoFactorStep
<1>5. StepsAreCurrent'
  BY <1>1, <1>4 DEF FactorInv, StepsAreCurrent
<1>6. SecondFactorSound'
  BY <1>1 DEF SecondFactorSound
<1> QED BY <1>3, <1>5, <1>6 DEF FactorInv

LEMMA CheckConfirmationInv ==
  ASSUME FactorInv, NEW r \in FactorRequests, CheckConfirmation(r) PROVE FactorInv'
<1> DEFINE step == [op |-> "confirm", codes |-> 0]
<1>1. /\ factorSecret # 0 /\ factorStep' = [factorStep EXCEPT ![r] = step]
      /\ proven' = proven \cup {factorSecret}
      /\ UNCHANGED <<factorEnabled, factorSecret, codesOf, secretsMade, factorOverlap>>
  BY DEF CheckConfirmation, factorRow
<1>2. step \in FactorSteps /\ step.op = "confirm"
  BY DEF FactorSteps
<1> HIDE DEF step
<1>3. /\ factorStep' \in [FactorRequests -> FactorSteps] /\ factorStep'[r] = step
      /\ \A q \in FactorRequests \ {r} : factorStep'[q] = factorStep[q]
  BY <1>1, <1>2 DEF FactorInv, FactorTypeOK
<1>4. proven' \subseteq 1..secretsMade'
  BY <1>1, FactorAssumption DEF FactorInv, FactorTypeOK
<1>5. FactorTypeOK'
  BY <1>1, <1>3, <1>4 DEF FactorInv, FactorTypeOK
<1>6. StepsAreCurrent'
  BY <1>1, <1>2, <1>3 DEF FactorInv, StepsAreCurrent
<1>7. SecondFactorSound'
  BY <1>1 DEF FactorInv, SecondFactorSound
<1> QED BY <1>5, <1>6, <1>7 DEF FactorInv

LEMMA ConfirmInv ==
  ASSUME FactorInv, NEW r \in FactorRequests, ConfirmTwoFactor(r) PROVE FactorInv'
<1>1. /\ factorStep[r].op = "confirm" /\ factorEnabled' = TRUE /\ NoteFactorWrite(r)
      /\ factorStep' = [factorStep EXCEPT ![r] = NoFactorStep]
      /\ UNCHANGED <<factorSecret, codesOf, secretsMade, proven>>
  BY DEF ConfirmTwoFactor
<1>2. FactorTypeOK'
  BY <1>1, EndFactorStep, OverlapIsBoolean DEF FactorInv, FactorTypeOK
<1>3. ~factorOverlap' => ~factorOverlap /\ \A q \in FactorRequests : factorStep'[q].op = "none"
  BY <1>1, EndFactorStep, NobodyElse DEF FactorInv
<1>4. StepsAreCurrent'
  BY <1>1, <1>3, EndFactorStep DEF FactorInv, StepsAreCurrent
<1>5. SecondFactorSound'
  BY <1>1, <1>3 DEF FactorInv, StepsAreCurrent, SecondFactorSound
<1> QED BY <1>2, <1>4, <1>5 DEF FactorInv

LEMMA DisableInv ==
  ASSUME FactorInv, NEW r \in FactorRequests, DisableTwoFactor(r) PROVE FactorInv'
<1>1. /\ factorStep[r] = NoFactorStep /\ factorEnabled' = FALSE /\ NoteFactorWrite(r)
      /\ factorSecret' = 0 /\ codesOf' = 0 /\ UNCHANGED <<secretsMade, factorStep, proven>>
  BY DEF DisableTwoFactor
<1>2. FactorTypeOK'
  <2>1. factorSecret' \in 0..secretsMade' /\ codesOf' \in 0..secretsMade'
    BY <1>1, FactorAssumption DEF FactorInv, FactorTypeOK
  <2>2. factorEnabled' \in BOOLEAN
    BY <1>1
  <2> QED BY <1>1, <2>1, <2>2, OverlapIsBoolean DEF FactorInv, FactorTypeOK
<1>3. ~factorOverlap' => \A q \in FactorRequests : factorStep[q].op = "none"
  BY <1>1, NobodyElse DEF FactorInv, NoFactorStep
<1>4. StepsAreCurrent'
  BY <1>1, <1>3 DEF FactorInv, StepsAreCurrent
<1>5. SecondFactorSound'
  BY <1>1 DEF SecondFactorSound
<1> QED BY <1>2, <1>4, <1>5 DEF FactorInv

LEMMA CheckBackupCodeInv ==
  ASSUME FactorInv, NEW r \in FactorRequests, CheckBackupCode(r) PROVE FactorInv'
<1> DEFINE step == [op |-> "spend", codes |-> codesOf]
<1>1. /\ factorStep' = [factorStep EXCEPT ![r] = step]
      /\ UNCHANGED <<factorEnabled, factorSecret, codesOf, secretsMade, proven, factorOverlap>>
  BY DEF CheckBackupCode, factorRow
<1>2. step \in FactorSteps /\ step.op = "spend" /\ step.codes = codesOf /\ codesOf \in 0..secretsMade
  BY FactorAssumption DEF FactorSteps, FactorInv, FactorTypeOK
<1> HIDE DEF step
<1>3. /\ factorStep' \in [FactorRequests -> FactorSteps] /\ factorStep'[r] = step
      /\ \A q \in FactorRequests \ {r} : factorStep'[q] = factorStep[q]
  BY <1>1, <1>2 DEF FactorInv, FactorTypeOK
<1>5. FactorTypeOK'
  BY <1>1, <1>3 DEF FactorInv, FactorTypeOK
<1>6. StepsAreCurrent'
  BY <1>1, <1>2, <1>3 DEF FactorInv, StepsAreCurrent
<1>7. SecondFactorSound'
  BY <1>1 DEF FactorInv, SecondFactorSound
<1> QED BY <1>5, <1>6, <1>7 DEF FactorInv

LEMMA SpendBackupCodeInv ==
  ASSUME FactorInv, NEW r \in FactorRequests, SpendBackupCode(r) PROVE FactorInv'
<1>1. /\ factorStep[r].op = "spend" /\ codesOf' = factorStep[r].codes /\ NoteFactorWrite(r)
      /\ factorStep' = [factorStep EXCEPT ![r] = NoFactorStep]
      /\ UNCHANGED <<factorEnabled, factorSecret, secretsMade, proven>>
  BY DEF SpendBackupCode
<1>2. codesOf' \in 0..secretsMade /\ (~factorOverlap => codesOf' = codesOf)
  BY <1>1 DEF FactorInv, StepsAreCurrent
<1>3. FactorTypeOK'
  BY <1>1, <1>2, EndFactorStep, OverlapIsBoolean DEF FactorInv, FactorTypeOK
<1>4. ~factorOverlap' => ~factorOverlap /\ \A q \in FactorRequests : factorStep'[q].op = "none"
  BY <1>1, EndFactorStep, NobodyElse DEF FactorInv
<1>5. StepsAreCurrent'
  BY <1>1, <1>4, EndFactorStep DEF FactorInv, StepsAreCurrent
<1>6. SecondFactorSound'
  BY <1>1, <1>2, <1>4 DEF FactorInv, SecondFactorSound
<1> QED BY <1>3, <1>5, <1>6 DEF FactorInv

LEMMA AbandonFactorInv ==
  ASSUME FactorInv, NEW r \in FactorRequests, AbandonFactor(r) PROVE FactorInv'
<1>1. /\ factorStep' = [factorStep EXCEPT ![r] = NoFactorStep]
      /\ UNCHANGED <<factorEnabled, factorSecret, codesOf, secretsMade, proven, factorOverlap>>
  BY DEF AbandonFactor, factorRow
<1>2. FactorTypeOK'
  BY <1>1, EndFactorStep DEF FactorInv, FactorTypeOK
<1>3. StepsAreCurrent'
  BY <1>1, EndFactorStep DEF FactorInv, StepsAreCurrent
<1>4. SecondFactorSound'
  BY <1>1 DEF FactorInv, SecondFactorSound
<1> QED BY <1>2, <1>3, <1>4 DEF FactorInv

LEMMA FactorStepInv == FactorInv /\ [FactorNext]_factorVars => FactorInv'
<1>1. FactorInv /\ UNCHANGED factorVars => FactorInv'
  BY DEF factorVars, factorRow, FactorInv, FactorTypeOK, StepsAreCurrent, SecondFactorSound
<1> QED BY <1>1, EnableInv, CheckConfirmationInv, ConfirmInv, DisableInv, CheckBackupCodeInv,
           SpendBackupCodeInv, AbandonFactorInv DEF FactorNext

\* FactorTypeOK and SecondFactorSound: for any requests and however they overlap
\* or die, and unless a row changed between the read and the write of a request,
\* the factor that is asked for was confirmed and the backup codes are its own.
THEOREM FactorAlwaysSound == FactorSpec => [](FactorTypeOK /\ SecondFactorSound)
<1>1. FactorInv => FactorTypeOK /\ SecondFactorSound
  BY DEF FactorInv
<1> QED BY <1>1, FactorInitInv, FactorStepInv, PTL DEF FactorSpec
-----------------------------------------------------------------------------
(* The codes of the second factor (Totp).                                  *)

\* The code typed is that of the counter of the authenticator when it was shown.
TypedIsShown ==
  typed # NoCode =>
    /\ typed.at + ahead >= 0
    /\ typed.code = Hotp(Base32Decode(secretText), CounterAt(typed.at + ahead))

\* What was said of the code, in steps.
VerdictInSteps ==
  /\ verdict # "none" => typed # NoCode
  /\ verdict = "accepted" => CounterAt(typed.at + ahead) - CounterAt(now) \in -Window..Window
  /\ verdict = "refused" => CounterAt(typed.at + ahead) - CounterAt(now) \notin -Window..Window

TotpInv == TotpTypeOK /\ TypedIsShown /\ VerdictInSteps

LEMMA TotpBounds == TimeStep \in Nat /\ TimeStep > 0 /\ Drift \in Nat /\ LastSecond \in Nat
BY TotpAssumption

\* A clock is in the step it is counted in.
LEMMA StepOfClock ==
  ASSUME NEW clock \in Nat
  PROVE  /\ CounterAt(clock) \in Nat
         /\ TimeStep * CounterAt(clock) <= clock
         /\ clock < TimeStep * CounterAt(clock) + TimeStep
BY TotpBounds DEF CounterAt

\* Clocks in the same step or in neighbouring ones are less than two steps
\* apart; others are more than one apart.
LEMMA StepsApart ==
  ASSUME NEW c \in Nat, NEW d \in Nat
  PROVE  /\ CounterAt(c) - CounterAt(d) \in -1..1 => d - c \in 1 - 2 * TimeStep .. 2 * TimeStep - 1
         /\ CounterAt(c) - CounterAt(d) \notin -1..1 => d - c \notin -TimeStep..TimeStep
<1> DEFINE j == CounterAt(c)
           k == CounterAt(d)
<1>1. j \in Nat /\ TimeStep * j <= c /\ c < TimeStep * j + TimeStep
  BY StepOfClock
<1>2. k \in Nat /\ TimeStep * k <= d /\ d < TimeStep * k + TimeStep
  BY StepOfClock
<1> HIDE DEF j, k
<1> DEFINE jt == TimeStep * j
           kt == TimeStep * k
<1>3. jt \in Nat /\ kt \in Nat
  BY <1>1, <1>2, TotpBounds
<1>4. j = k => jt = kt
  OBVIOUS
<1>5. j = k + 1 => jt = kt + TimeStep
  BY <1>1, <1>2, TotpBounds
<1>6. k = j + 1 => kt = jt + TimeStep
  BY <1>1, <1>2, TotpBounds
<1>7. j >= k + 2 => jt >= kt + 2 * TimeStep
  <2> SUFFICES ASSUME j >= k + 2 PROVE jt >= kt + 2 * TimeStep
    OBVIOUS
  <2>1. j - (k + 2) \in Nat /\ j = (k + 2) + (j - (k + 2))
    BY <1>1, <1>2
  <2>2. TimeStep * (j - (k + 2)) \in Nat
    BY <2>1, TotpBounds
  <2>3. TimeStep * j = TimeStep * k + 2 * TimeStep + TimeStep * (j - (k + 2))
    BY <2>1, <1>1, <1>2, TotpBounds
  <2> QED BY <2>2, <2>3, <1>3, TotpBounds
<1>8. k >= j + 2 => kt >= jt + 2 * TimeStep
  <2> SUFFICES ASSUME k >= j + 2 PROVE kt >= jt + 2 * TimeStep
    OBVIOUS
  <2>1. k - (j + 2) \in Nat /\ k = (j + 2) + (k - (j + 2))
    BY <1>1, <1>2
  <2>2. TimeStep * (k - (j + 2)) \in Nat
    BY <2>1, TotpBounds
  <2>3. TimeStep * k = TimeStep * j + 2 * TimeStep + TimeStep * (k - (j + 2))
    BY <2>1, <1>1, <1>2, TotpBounds
  <2> QED BY <2>2, <2>3, <1>3, TotpBounds
<1>9. jt <= c /\ c < jt + TimeStep /\ kt <= d /\ d < kt + TimeStep
  BY <1>1, <1>2
<1> HIDE DEF jt, kt
<1>10. j - k \in -1..1 => d - c \in 1 - 2 * TimeStep .. 2 * TimeStep - 1
  <2> SUFFICES ASSUME j - k \in -1..1 PROVE d - c \in 1 - 2 * TimeStep .. 2 * TimeStep - 1
    OBVIOUS
  <2>1. j = k \/ j = k + 1 \/ k = j + 1
    BY <1>1, <1>2
  <2> QED BY <2>1, <1>3, <1>4, <1>5, <1>6, <1>9, TotpBounds
<1>11. j - k \notin -1..1 => d - c \notin -TimeStep..TimeStep
  <2> SUFFICES ASSUME j - k \notin -1..1 PROVE d - c \notin -TimeStep..TimeStep
    OBVIOUS
  <2>1. j >= k + 2 \/ k >= j + 2
    BY <1>1, <1>2
  <2> QED BY <2>1, <1>3, <1>7, <1>8, <1>9, TotpBounds
<1> QED BY <1>10, <1>11 DEF j, k

LEMMA SameCode ==
  ASSUME NEW secret, NEW c, NEW d
  PROVE  Hotp(secret, c) = Hotp(secret, d) <=> c = d
BY DEF Hotp

LEMMA TotpInitInv == TotpInit => TotpInv
<1> SUFFICES ASSUME TotpInit PROVE TotpInv
  OBVIOUS
<1>1. TotpTypeOK
  BY TotpBounds DEF TotpInit, TotpTypeOK, NoCode
<1>2. TypedIsShown /\ VerdictInSteps
  BY DEF TotpInit, TypedIsShown, VerdictInSteps
<1> QED BY <1>1, <1>2 DEF TotpInv

LEMMA TickInv == TotpInv /\ Tick => TotpInv'
<1> SUFFICES ASSUME TotpInv, Tick PROVE TotpInv'
  OBVIOUS
<1>1. TotpTypeOK'
  BY TotpBounds DEF TotpInv, TotpTypeOK, Tick
<1>2. TypedIsShown'
  BY DEF TotpInv, TypedIsShown, Tick
<1>3. VerdictInSteps'
  BY DEF VerdictInSteps, Tick
<1> QED BY <1>1, <1>2, <1>3 DEF TotpInv

LEMMA TypeCodeInv == TotpInv /\ TypeCode => TotpInv'
<1> SUFFICES ASSUME TotpInv, TypeCode PROVE TotpInv'
  OBVIOUS
<1> DEFINE shown == Hotp(Base32Decode(secretText), CounterAt(now + ahead))
<1>1. /\ now + ahead >= 0 /\ typed' = [code |-> shown, at |-> now] /\ verdict' = "none"
      /\ UNCHANGED <<secretBytes, secretText, now, ahead>>
  BY DEF TypeCode
<1> HIDE DEF shown
<1>2. typed'.code = shown /\ typed'.at = now
  BY <1>1
<1>3. TotpTypeOK'
  BY <1>1, <1>2 DEF TotpInv, TotpTypeOK
<1>4. TypedIsShown'
  BY <1>1, <1>2 DEF TypedIsShown, shown
<1>5. VerdictInSteps'
  BY <1>1 DEF VerdictInSteps
<1> QED BY <1>3, <1>4, <1>5 DEF TotpInv

LEMMA VerifyTotpInv == TotpInv /\ VerifyTotp => TotpInv'
<1> SUFFICES ASSUME TotpInv, VerifyTotp PROVE TotpInv'
  OBVIOUS
<1> DEFINE shown == CounterAt(typed.at + ahead)
           tried == CounterAt(now)
           hit == \E counter \in Counters : typed.code = Hotp(Base32Decode(secretText), counter)
<1>1. /\ typed # NoCode /\ verdict' = IF hit THEN "accepted" ELSE "refused"
      /\ UNCHANGED <<secretBytes, secretText, now, ahead, typed>>
  BY DEF VerifyTotp
<1>2. typed.at + ahead \in Nat /\ now \in Nat
  BY <1>1, TotpBounds DEF TotpInv, TotpTypeOK, TypedIsShown
<1>3. shown \in Nat /\ tried \in Nat
  BY <1>2, StepOfClock
<1>4. typed.code = Hotp(Base32Decode(secretText), shown)
  BY <1>1 DEF TotpInv, TypedIsShown
<1>5. hit <=> \E counter \in Counters : counter = shown
  <2> HIDE DEF shown
  <2> QED BY <1>4, SameCode
<1>6. hit <=> shown - tried \in -Window..Window
  <2>1. Counters = tried - 1 .. tried + 1
    BY DEF Counters, Window
  <2> HIDE DEF hit, shown, tried
  <2> QED BY <2>1, <1>3, <1>5 DEF Window
<1> HIDE DEF hit
<1>7. TotpTypeOK'
  BY <1>1 DEF TotpInv, TotpTypeOK
<1>8. TypedIsShown'
  BY <1>1 DEF TotpInv, TypedIsShown
<1>9. VerdictInSteps'
  BY <1>1, <1>6 DEF VerdictInSteps
<1> QED BY <1>7, <1>8, <1>9 DEF TotpInv

LEMMA TotpStepInv == TotpInv /\ [TotpNext]_totpVars => TotpInv'
<1>1. TotpInv /\ UNCHANGED totpVars => TotpInv'
  BY DEF totpVars, TotpInv, TotpTypeOK, TypedIsShown, VerdictInSteps
<1> QED BY <1>1, TickInv, TypeCodeInv, VerifyTotpInv DEF TotpNext

LEMMA TotpInvSound == TotpInv => TotpTypeOK /\ CodesLiveOneStep
<1> SUFFICES ASSUME TotpInv PROVE TotpTypeOK /\ CodesLiveOneStep
  OBVIOUS
<1>1. verdict # "none" => typed.at + ahead \in Nat /\ now \in Nat
  BY TotpBounds DEF TotpInv, TotpTypeOK, TypedIsShown, VerdictInSteps
<1>2. AgeOfCode = now - (typed.at + ahead)
  BY DEF AgeOfCode
<1>3. verdict = "accepted" => AgeOfCode \in 1 - 2 * TimeStep .. 2 * TimeStep - 1
  BY <1>1, <1>2, StepsApart DEF TotpInv, VerdictInSteps, Window
<1>4. verdict = "refused" => AgeOfCode \notin -TimeStep..TimeStep
  BY <1>1, <1>2, StepsApart DEF TotpInv, VerdictInSteps, Window
<1> QED BY <1>3, <1>4 DEF TotpInv, CodesLiveOneStep

\* TotpTypeOK and CodesLiveOneStep: for any secret, step and drift, a code is
\* taken while drift and typing together are within a step and refused after two.
\* The argument is about the number of the step a clock is in (StepsApart).
THEOREM CodesAlwaysLiveOneStep == TotpSpec => [](TotpTypeOK /\ CodesLiveOneStep)
BY TotpInitInv, TotpStepInv, TotpInvSound, PTL DEF TotpSpec
-----------------------------------------------------------------------------
(* The login throttle (LoginThrottle).                                     *)

\* Whoever is let through has been counted.
AdmittedAreCounted == admitted <= count

ThrottleInv ==
  /\ ThrottleTypeOK /\ AdmittedAreCounted /\ WindowAdmitsAtMost
  /\ count <= MaxAttempts => admitted = count

LEMMA ThrottleStepInv == ThrottleInv /\ [ThrottleNext]_throttleVars => ThrottleInv'
<1> SUFFICES ASSUME ThrottleInv, [ThrottleNext]_throttleVars PROVE ThrottleInv'
  OBVIOUS
<1> USE ThrottleAssumption DEF ThrottleInv, ThrottleTypeOK, AdmittedAreCounted, WindowAdmitsAtMost
<1>1. ASSUME NEW r \in Attempts, Increment(r) PROVE ThrottleInv'
  <2>1. attempt' \in [Attempts -> {"idle", "expire"}]
    BY <1>1 DEF Increment
  <2> QED BY <1>1, <2>1 DEF Increment, Admits
<1>2. ASSUME NEW r \in Attempts, SetExpiry(r) PROVE ThrottleInv'
  <2>1. expires' \in BOOLEAN
    BY <1>2 DEF SetExpiry
  <2>2. attempt' \in [Attempts -> {"idle", "expire"}] /\ UNCHANGED <<count, admitted, throttleCrashed>>
    BY <1>2 DEF SetExpiry
  <2> QED BY <2>1, <2>2
<1>3. ASSUME NEW r \in Attempts, ThrottleCrash(r) PROVE ThrottleInv'
  BY <1>3 DEF ThrottleCrash
<1>4. CASE WindowEnds
  <2>1. expires' \in BOOLEAN /\ UNCHANGED <<attempt, throttleCrashed>>
    BY <1>4 DEF WindowEnds
  <2>2. count' = 0 /\ admitted' = 0
    BY <1>4 DEF WindowEnds
  <2> QED BY <2>1, <2>2
<1>5. CASE UNCHANGED throttleVars
  BY <1>5 DEF throttleVars
<1> QED BY <1>1, <1>2, <1>3, <1>4, <1>5 DEF ThrottleNext

\* ThrottleTypeOK and WindowAdmitsAtMost: however many attempts increment the
\* counter, die before they set its expiry or meet the end of the window, no
\* more than MAX_ATTEMPTS are let through in one window.
THEOREM ThrottleAdmitsAtMost == ThrottleSpec => [](ThrottleTypeOK /\ WindowAdmitsAtMost)
<1>1. ThrottleInit => ThrottleInv
  <2> SUFFICES ASSUME ThrottleInit PROVE ThrottleInv
    OBVIOUS
  <2>1. count = 0 /\ admitted = 0 /\ MaxAttempts \in Nat /\ CountLimit \in Nat
    BY ThrottleAssumption DEF ThrottleInit
  <2>2. expires \in BOOLEAN /\ throttleCrashed \in BOOLEAN
    BY DEF ThrottleInit
  <2>3. attempt \in [Attempts -> {"idle", "expire"}]
    BY DEF ThrottleInit
  <2>4. count \in 0..CountLimit /\ admitted <= MaxAttempts
    BY <2>1
  <2> QED BY <2>1, <2>2, <2>3, <2>4 DEF ThrottleInv, ThrottleTypeOK, AdmittedAreCounted, WindowAdmitsAtMost
<1>2. ThrottleInv => ThrottleTypeOK /\ WindowAdmitsAtMost
  BY DEF ThrottleInv
<1> QED BY <1>1, <1>2, ThrottleStepInv, PTL DEF ThrottleSpec
-----------------------------------------------------------------------------
(* Roles and permissions (RoleAdministration).                             *)

Pending(r) == roleChange[r] # NoChange

\* Until requests overlap, at most one is authorised and not yet carried out,
\* and its caller may still do what it was authorised for.
OnePending ==
  ~roleOverlap => \A r, q \in RoleRequests : Pending(r) /\ Pending(q) => r = q
PendingMayManage ==
  ~roleOverlap => \A r \in RoleRequests : Pending(r) => MayManage(roleChange[r].actor)

\* Until somebody delegates it, ROLES_MANAGE is SUPER_ADMIN's alone.
NotDelegated == ~delegated => managing = {"SUPER_ADMIN"}

RoleInv ==
  /\ RoleTypeOK
  /\ SuperAdminManages
  /\ NotDelegated
  /\ OnePending
  /\ PendingMayManage
  /\ SomeoneManagesRoles

\* A change under way is one of the four, and not NoChange.
LEMMA PendingChange ==
  ASSUME RoleTypeOK, NEW r \in RoleRequests, Pending(r)
  PROVE  /\ roleChange[r] \in RoleChanges
         /\ roleChange[r].actor \in RoleUsers
         /\ roleChange[r].user \in RoleUsers
         /\ roleChange[r].role \in RoleNames
<1>1. roleChange[r] \in RoleChanges
  BY DEF RoleTypeOK, Pending
<1> QED BY <1>1 DEF RoleChanges

LEMMA RoleInitInv == RoleInit => RoleInv
<1> SUFFICES ASSUME RoleInit PROVE RoleInv
  OBVIOUS
<1> USE RoleAssumption DEF RoleInit
<1>1. RoleTypeOK
  BY DEF RoleTypeOK, RoleNames
<1>2. SuperAdminManages /\ NotDelegated
  BY DEF SuperAdminManages, NotDelegated
<1>3. \A r \in RoleRequests : ~Pending(r)
  BY DEF Pending
<1>4. OnePending /\ PendingMayManage
  BY <1>3 DEF OnePending, PendingMayManage
<1>5. MayManage(FirstAdmin)
  BY DEF MayManage
<1>6. SomeoneManagesRoles
  BY <1>5 DEF SomeoneManagesRoles
<1> QED BY <1>1, <1>2, <1>4, <1>6 DEF RoleInv

\* The end of a request leaves no new request pending.
LEMMA EndPending ==
  ASSUME RoleTypeOK, NEW r \in RoleRequests, EndChange(r)
  PROVE  /\ roleChange' \in [RoleRequests -> RoleChanges \cup {NoChange}]
         /\ roleChange'[r] = NoChange
         /\ \A q \in RoleRequests : Pending(q)' => q # r /\ roleChange'[q] = roleChange[q]
BY DEF RoleTypeOK, EndChange, Pending

\* A request that is carried out alone leaves nobody pending.
LEMMA EndsAlone ==
  ASSUME RoleInv, NEW r \in RoleRequests, Pending(r), EndChange(r), UNCHANGED roleOverlap
  PROVE  OnePending' /\ PendingMayManage'
<1>1. \A q \in RoleRequests : Pending(q)' => q # r /\ Pending(q)
  BY EndPending DEF RoleInv, Pending
<1>2. ~roleOverlap => \A q \in RoleRequests : ~Pending(q)'
  BY <1>1 DEF RoleInv, OnePending
<1> QED BY <1>2 DEF OnePending, PendingMayManage

LEMMA RoleStepInv == RoleInv /\ [RoleNext]_roleVars => RoleInv'
<1> SUFFICES ASSUME RoleInv, [RoleNext]_roleVars PROVE RoleInv'
  OBVIOUS
<1> USE DEF RoleInv
<1>1. ASSUME NEW r \in RoleRequests, NEW change \in RoleChanges, Authorize(r, change)
      PROVE  RoleInv'
  <2>1. /\ UNCHANGED <<userRoles, managing, delegated>>
        /\ roleChange' = [roleChange EXCEPT ![r] = change]
        /\ roleOverlap' = (roleOverlap \/ \E q \in RoleRequests : Pending(q))
        /\ MayManage(change.actor)
    BY <1>1 DEF Authorize, Pending
  <2>2. RoleTypeOK'
    BY <2>1 DEF RoleTypeOK
  <2>3. SuperAdminManages' /\ NotDelegated'
    BY <2>1 DEF SuperAdminManages, NotDelegated
  <2>4. \A u : MayManage(u)' <=> MayManage(u)
    BY <2>1 DEF MayManage
  <2>5. ~roleOverlap' => \A q \in RoleRequests : Pending(q)' => q = r
    BY <2>1 DEF RoleTypeOK, Pending
  <2>6. OnePending'
    BY <2>5 DEF OnePending
  <2>7. roleChange'[r] = change
    BY <2>1 DEF RoleTypeOK
  <2>8. PendingMayManage'
    BY <2>1, <2>4, <2>5, <2>7 DEF PendingMayManage
  <2>9. SomeoneManagesRoles'
    BY <2>1, <2>4 DEF SomeoneManagesRoles
  <2> QED BY <2>2, <2>3, <2>6, <2>8, <2>9
<1>2. ASSUME NEW r \in RoleRequests, AssignRole(r) PROVE RoleInv'
  <2> DEFINE change == roleChange[r]
  <2>1. /\ change.op = "assign"
        /\ userRoles' = [userRoles EXCEPT ![change.user] = @ \cup {change.role}]
        /\ EndChange(r)
        /\ UNCHANGED <<managing, roleOverlap, delegated>>
    BY <1>2 DEF AssignRole
  <2>2. Pending(r)
    BY <2>1 DEF Pending, NoChange
  <2>3. change.user \in RoleUsers /\ change.role \in RoleNames
    BY <2>2, PendingChange
  <2> HIDE DEF change
  <2>4. RoleTypeOK'
    BY <2>1, <2>3, EndPending DEF RoleTypeOK
  <2>5. SuperAdminManages' /\ NotDelegated'
    BY <2>1 DEF SuperAdminManages, NotDelegated
  <2>6. OnePending' /\ PendingMayManage'
    BY <2>1, <2>2, EndsAlone
  <2>7. \A u \in RoleUsers : MayManage(u) => MayManage(u)'
    BY <2>1, <2>3 DEF RoleTypeOK, MayManage
  <2>8. SomeoneManagesRoles'
    BY <2>1, <2>7 DEF SomeoneManagesRoles
  <2> QED BY <2>4, <2>5, <2>6, <2>8
<1>3. ASSUME NEW r \in RoleRequests, RevokeRole(r) PROVE RoleInv'
  <2> DEFINE change == roleChange[r]
  <2>1. /\ change.op = "revoke"
        /\ ~OwnSuperAdmin(change)
        /\ userRoles' = [userRoles EXCEPT ![change.user] = @ \ {change.role}]
        /\ EndChange(r)
        /\ UNCHANGED <<managing, roleOverlap, delegated>>
    BY <1>3 DEF RevokeRole
  <2>2. Pending(r)
    BY <2>1 DEF Pending, NoChange
  <2>3. /\ change.user \in RoleUsers /\ change.role \in RoleNames
        /\ change.actor \in RoleUsers
    BY <2>2, PendingChange
  <2>4. ~roleOverlap => MayManage(change.actor)
    BY <2>2 DEF PendingMayManage
  <2> HIDE DEF change
  <2>5. RoleTypeOK'
    BY <2>1, <2>3, EndPending DEF RoleTypeOK
  <2>6. SuperAdminManages' /\ NotDelegated'
    BY <2>1 DEF SuperAdminManages, NotDelegated
  <2>7. OnePending' /\ PendingMayManage'
    BY <2>1, <2>2, EndsAlone
  <2>8. PICK actor \in RoleUsers : actor = change.actor
    BY <2>3
  <2>9. ASSUME ~roleOverlap, ~delegated PROVE MayManage(actor)'
    \* The caller is a super admin and keeps that role.
    <3>1. managing = {"SUPER_ADMIN"} /\ "SUPER_ADMIN" \in userRoles[actor]
      BY <2>4, <2>8, <2>9 DEF NotDelegated, MayManage
    <3>2. "SUPER_ADMIN" \in userRoles'[actor]
      BY <2>1, <2>3, <2>8, <3>1 DEF RoleTypeOK, OwnSuperAdmin
    <3> QED BY <2>1, <3>1, <3>2 DEF MayManage
  <2>10. SomeoneManagesRoles'
    BY <2>1, <2>9 DEF SomeoneManagesRoles
  <2> QED BY <2>5, <2>6, <2>7, <2>10
<1>4. ASSUME NEW r \in RoleRequests, GrantPermission(r) PROVE RoleInv'
  <2> DEFINE change == roleChange[r]
  <2>1. /\ change.op = "grantPermission"
        /\ managing' = managing \cup {change.role}
        /\ delegated' = (delegated \/ change.role # "SUPER_ADMIN")
        /\ EndChange(r)
        /\ UNCHANGED <<userRoles, roleOverlap>>
    BY <1>4 DEF GrantPermission
  <2>2. Pending(r)
    BY <2>1 DEF Pending, NoChange
  <2>3. change.role \in RoleNames
    BY <2>2, PendingChange
  <2> HIDE DEF change
  <2>4. RoleTypeOK'
    BY <2>1, <2>3, EndPending DEF RoleTypeOK
  <2>5. SuperAdminManages' /\ NotDelegated'
    BY <2>1 DEF SuperAdminManages, NotDelegated, RoleTypeOK
  <2>6. OnePending' /\ PendingMayManage'
    BY <2>1, <2>2, EndsAlone
  <2>7. \A u : MayManage(u) => MayManage(u)'
    BY <2>1 DEF MayManage
  <2>8. SomeoneManagesRoles'
    BY <2>1, <2>7 DEF SomeoneManagesRoles, RoleTypeOK
  <2> QED BY <2>4, <2>5, <2>6, <2>8
<1>5. ASSUME NEW r \in RoleRequests, RevokePermission(r) PROVE RoleInv'
  <2> DEFINE change == roleChange[r]
  <2>1. /\ change.op = "revokePermission"
        /\ change.role # "SUPER_ADMIN"
        /\ managing' = managing \ {change.role}
        /\ EndChange(r)
        /\ UNCHANGED <<userRoles, roleOverlap, delegated>>
    BY <1>5 DEF RevokePermission
  <2>2. Pending(r)
    BY <2>1 DEF Pending, NoChange
  <2> HIDE DEF change
  <2>3. RoleTypeOK'
    BY <2>1, EndPending DEF RoleTypeOK
  <2>4. SuperAdminManages' /\ NotDelegated'
    BY <2>1 DEF SuperAdminManages, NotDelegated
  <2>5. OnePending' /\ PendingMayManage'
    BY <2>1, <2>2, EndsAlone
  <2>6. ~delegated => managing' = managing
    BY <2>1 DEF NotDelegated
  <2>7. SomeoneManagesRoles'
    BY <2>1, <2>6 DEF SomeoneManagesRoles, MayManage
  <2> QED BY <2>3, <2>4, <2>5, <2>7
<1>6. ASSUME NEW r \in RoleRequests, RefuseChange(r) PROVE RoleInv'
  <2>1. /\ Pending(r)
        /\ EndChange(r)
        /\ UNCHANGED <<userRoles, managing, roleOverlap, delegated>>
    BY <1>6 DEF RefuseChange, Pending
  <2>2. RoleTypeOK'
    BY <2>1, EndPending DEF RoleTypeOK
  <2>3. OnePending' /\ PendingMayManage'
    BY <2>1, EndsAlone
  <2>4. SuperAdminManages' /\ NotDelegated' /\ SomeoneManagesRoles'
    BY <2>1 DEF SuperAdminManages, NotDelegated, SomeoneManagesRoles, MayManage
  <2> QED BY <2>2, <2>3, <2>4
<1>7. CASE UNCHANGED roleVars
  BY <1>7 DEF roleVars, RoleTypeOK, SuperAdminManages, NotDelegated, OnePending,
              PendingMayManage, Pending, SomeoneManagesRoles, MayManage
<1> QED
  BY <1>1, <1>2, <1>3, <1>4, <1>5, <1>6, <1>7 DEF RoleNext

\* RoleInv is an invariant of every behaviour.
LEMMA RoleInvariant == RoleSpec => []RoleInv
BY RoleInitInv, RoleStepInv, PTL DEF RoleSpec

-----------------------------------------------------------------------------
(* Theorems.                                                               *)

\* Users, roles and the changes under way are well-formed.
THEOREM RolesTypeCorrect == RoleSpec => []RoleTypeOK
<1>1. RoleInv => RoleTypeOK
  BY DEF RoleInv
<1> QED BY <1>1, RoleInvariant, PTL

\* revokePermission never takes ROLES_MANAGE from SUPER_ADMIN.
THEOREM SuperAdminAlwaysManages == RoleSpec => []SuperAdminManages
<1>1. RoleInv => SuperAdminManages
  BY DEF RoleInv
<1> QED BY <1>1, RoleInvariant, PTL

\* assignRole and revokeRole leave an administrator who can undo any change,
\* for any users and roles, unless requests overlap or the permission has been
\* delegated.
THEOREM SomeoneAlwaysManages == RoleSpec => []SomeoneManagesRoles
<1>1. RoleInv => SomeoneManagesRoles
  BY DEF RoleInv
<1> QED BY <1>1, RoleInvariant, PTL

\* Roles and permissions change only for a request whose caller may manage
\* them at the moment of the change, unless requests overlap.
THEOREM ChangesAlwaysAuthorised == RoleSpec => ChangesAreAuthorised
<1>1. ASSUME RoleInv, [RoleNext]_roleVars, ~roleOverlap',
             <<userRoles, managing>>' # <<userRoles, managing>>
      PROVE  \E r \in RoleRequests :
               roleChange'[r] # roleChange[r] /\ MayManage(roleChange[r].actor)
  <2>1. PICK r \in RoleRequests :
          AssignRole(r) \/ RevokeRole(r) \/ GrantPermission(r) \/ RevokePermission(r)
    BY <1>1 DEF RoleNext, roleVars, Authorize, RefuseChange
  <2>2. Pending(r) /\ EndChange(r) /\ UNCHANGED roleOverlap
    BY <2>1 DEF AssignRole, RevokeRole, GrantPermission, RevokePermission, Pending, NoChange
  <2>3. roleChange'[r] # roleChange[r]
    BY <1>1, <2>2, EndPending DEF RoleInv, Pending
  <2>4. MayManage(roleChange[r].actor)
    BY <1>1, <2>2 DEF RoleInv, PendingMayManage
  <2> QED BY <2>3, <2>4
<1>2. RoleInv /\ [RoleNext]_roleVars
        => [~roleOverlap' /\ <<userRoles, managing>>' # <<userRoles, managing>>
              => \E r \in RoleRequests :
                   roleChange'[r] # roleChange[r] /\ MayManage(roleChange[r].actor)]_roleVars
  BY <1>1
<1> QED BY <1>2, RoleInvariant, PTL DEF RoleSpec, ChangesAreAuthorised
-----------------------------------------------------------------------------
(* The text a secret is kept as (Totp).                                     *)

\* A byte is the sum of its bits.
LEMMA ByteOfBits ==
  ASSUME NEW n \in 0..255
  PROVE  /\ \A i \in 1..8 : Bits(n, 8)[i] \in {0, 1}
         /\ n = 128 * Bits(n, 8)[1] + 64 * Bits(n, 8)[2] + 32 * Bits(n, 8)[3]
                + 16 * Bits(n, 8)[4] + 8 * Bits(n, 8)[5] + 4 * Bits(n, 8)[6]
                + 2 * Bits(n, 8)[7] + Bits(n, 8)[8]
<1> DEFINE b == Bits(n, 8)
<1>1. /\ b[1] = (n \div 128) % 2 /\ b[2] = (n \div 64) % 2
      /\ b[3] = (n \div 32) % 2 /\ b[4] = (n \div 16) % 2
      /\ b[5] = (n \div 8) % 2 /\ b[6] = (n \div 4) % 2
      /\ b[7] = (n \div 2) % 2 /\ b[8] = (n \div 1) % 2
  BY DEF Bits, PowerOfTwo
<1>2. \A i \in 1..8 : i \in {1, 2, 3, 4, 5, 6, 7, 8}
  OBVIOUS
<1> HIDE DEF b
<1>3. \A i \in 1..8 : b[i] \in {0, 1}
  BY <1>1, <1>2
<1>4. n = 128 * b[1] + 64 * b[2] + 32 * b[3] + 16 * b[4] + 8 * b[5] + 4 * b[6] + 2 * b[7] + b[8]
  BY <1>1
<1> QED BY <1>3, <1>4 DEF b

\* parseInt undoes toString(2) of a byte.
LEMMA ValueOfByte ==
  ASSUME NEW n \in 0..255
  PROVE  Value(Bits(n, 8), 8) = n
<1> DEFINE m == Value(Bits(n, 8), 8)
<1>1. m \in 0..255 /\ Bits(m, 8) = Bits(n, 8)
  <2>1. PowerOfTwo[8 + 1] - 1 = 255
    BY DEF PowerOfTwo
  <2>2. \E x \in 0..255 : Bits(x, 8) = Bits(n, 8)
    OBVIOUS
  <2> HIDE DEF Bits
  <2> QED BY <2>1, <2>2 DEF Value
<1> HIDE DEF m
<1>2. m = n
  BY <1>1, ByteOfBits
<1> QED BY <1>2 DEF m

\* Every five bits are a digit of base 32, whose bits they are.
LEMMA DigitOfBits ==
  ASSUME NEW b, b = [i \in 1..5 |-> b[i]], \A i \in 1..5 : b[i] \in {0, 1}
  PROVE  Value(b, 5) \in 0..31 /\ Bits(Value(b, 5), 5) = b
<1>1. PICK n : n = 16 * b[1] + 8 * b[2] + 4 * b[3] + 2 * b[4] + b[5]
  OBVIOUS
<1>2. b[1] \in {0, 1} /\ b[2] \in {0, 1} /\ b[3] \in {0, 1} /\ b[4] \in {0, 1} /\ b[5] \in {0, 1}
  OBVIOUS
<1>3. n \in 0..31
  BY <1>1, <1>2
<1>4. /\ (n \div 16) % 2 = b[1] /\ (n \div 8) % 2 = b[2] /\ (n \div 4) % 2 = b[3]
      /\ (n \div 2) % 2 = b[4] /\ (n \div 1) % 2 = b[5]
  BY <1>1, <1>2
<1>5. /\ Bits(n, 5)[1] = b[1] /\ Bits(n, 5)[2] = b[2] /\ Bits(n, 5)[3] = b[3]
      /\ Bits(n, 5)[4] = b[4] /\ Bits(n, 5)[5] = b[5]
  BY <1>4 DEF Bits, PowerOfTwo
<1>6. \A i \in 1..5 : Bits(n, 5)[i] = b[i]
  <2>1. \A i \in 1..5 : i \in {1, 2, 3, 4, 5}
    OBVIOUS
  <2> QED BY <1>5, <2>1
<1>7. Bits(n, 5) = b
  <2>1. PICK c : c = Bits(n, 5)
    OBVIOUS
  <2>2. c = [i \in 1..5 |-> c[i]]
    BY <2>1 DEF Bits
  <2> QED BY <1>6, <2>1, <2>2
<1>8. PowerOfTwo[5 + 1] - 1 = 31
  BY DEF PowerOfTwo
<1> HIDE DEF Bits
<1> QED BY <1>3, <1>7, <1>8 DEF Value

\* The bits of a text: five, or eight, to a digit.
LEMMA AllBitsOf ==
  ASSUME NEW digits \in Seq(Int), NEW width \in {5, 8}, NEW j \in 1..width * Len(digits)
  PROVE  AllBits(digits, width)[j] = Bits(digits[(j - 1) \div width + 1], width)[((j - 1) % width) + 1]
BY DEF AllBits

LEMMA DecodeEncode ==
  ASSUME NEW bytes \in Seq(0..255)
  PROVE  /\ Base32Decode(Base32Encode(bytes)) = bytes
         /\ \A k \in DOMAIN Base32Encode(bytes) : Base32Encode(bytes)[k] \in 0..31
<1>1. PICK n \in Nat : n = Len(bytes)
  OBVIOUS
<1>2. PICK bits : bits = AllBits(bytes, 8)
  OBVIOUS
<1>3. PICK m \in Nat : m = (8 * n + 4) \div 5
  BY <1>1
<1>4. /\ Len(bits) = 8 * n
      /\ bits = [j \in 1..8 * n |-> Bits(bytes[(j - 1) \div 8 + 1], 8)[((j - 1) % 8) + 1]]
  <2>1. bits = [j \in 1..8 * n |-> Bits(bytes[(j - 1) \div 8 + 1], 8)[((j - 1) % 8) + 1]]
    BY <1>1, <1>2 DEF AllBits
  <2> HIDE DEF Bits
  <2>2. bits \in Seq(UNION {{bits[j]} : j \in 1..8 * n}) /\ DOMAIN bits = 1..8 * n
    BY <2>1
  <2>3. Len(bits) = 8 * n
    BY <2>2
  <2> QED BY <2>1, <2>3
<1>5. \A j \in 1..8 * n : bits[j] \in {0, 1}
  <2> SUFFICES ASSUME NEW j \in 1..8 * n PROVE bits[j] \in {0, 1}
    OBVIOUS
  <2>1. PICK q \in Int : q = (j - 1) \div 8 + 1
    OBVIOUS
  <2>2. PICK r \in Int : r = ((j - 1) % 8) + 1
    OBVIOUS
  <2>3. q \in 1..n /\ r \in 1..8
    BY <2>1, <2>2
  <2>4. bytes[q] \in 0..255
    BY <1>1, <2>3
  <2>5. Bits(bytes[q], 8)[r] \in {0, 1}
    BY <2>3, <2>4, ByteOfBits
  <2> HIDE DEF Bits
  <2> QED BY <1>4, <2>1, <2>2, <2>5
\* The chunks of five, the last one padded.
<1>6. PICK chunk : chunk = [k \in 1..m |-> [i \in 1..5 |->
          IF 5 * (k - 1) + i <= Len(bits) THEN bits[5 * (k - 1) + i] ELSE 0]]
  OBVIOUS
<1>7. PICK text : text = Base32Encode(bytes)
  OBVIOUS
<1>8. text = [k \in 1..m |-> Value(chunk[k], 5)]
  <2>1. text = Regroup(bits, 5, DigitsFor(bits))
    BY <1>2, <1>7 DEF Base32Encode
  <2>2. DigitsFor(bits) = m
    BY <1>3, <1>4 DEF DigitsFor
  <2>3. text = [k \in 1..m |-> Value([i \in 1..5 |->
                  IF 5 * (k - 1) + i <= Len(bits) THEN bits[5 * (k - 1) + i] ELSE 0], 5)]
    <3> HIDE DEF Value
    <3> QED BY <2>1, <2>2 DEF Regroup
  <2>4. ASSUME NEW k \in 1..m
        PROVE  chunk[k] = [i \in 1..5 |->
                  IF 5 * (k - 1) + i <= Len(bits) THEN bits[5 * (k - 1) + i] ELSE 0]
    BY <1>6
  <2> HIDE DEF Value
  <2> QED BY <2>3, <2>4, Zenon
<1>9. ASSUME NEW k \in 1..m
      PROVE  /\ text[k] \in 0..31
             /\ \A i \in 1..5 : Bits(text[k], 5)[i] = chunk[k][i]
  <2>1. PICK b : b = chunk[k]
    OBVIOUS
  <2>2. b = [i \in 1..5 |-> b[i]]
    BY <1>6, <2>1
  <2>3. \A i \in 1..5 : b[i] \in {0, 1}
    <3> SUFFICES ASSUME NEW i \in 1..5 PROVE b[i] \in {0, 1}
      OBVIOUS
    <3>1. PICK j \in Int : j = 5 * (k - 1) + i
      OBVIOUS
    <3>2. b[i] = IF j <= Len(bits) THEN bits[j] ELSE 0
      BY <1>6, <2>1, <3>1
    <3>3. j <= Len(bits) => j \in 1..8 * n
      BY <1>4, <3>1
    <3> QED BY <1>5, <3>2, <3>3
  <2>4. Value(b, 5) \in 0..31 /\ Bits(Value(b, 5), 5) = b
    BY <2>2, <2>3, DigitOfBits
  <2> HIDE DEF Value, Bits
  <2>5. text[k] = Value(b, 5)
    BY <1>8, <2>1
  <2> QED BY <2>1, <2>4, <2>5
<1>10. PICK back : back = AllBits(text, 5)
  OBVIOUS
<1>11. /\ Len(text) = m /\ DOMAIN text = 1..m
       /\ text \in Seq(0..31)
  <2>1. text \in [1..m -> 0..31]
    <3> HIDE DEF Value
    <3> QED BY <1>8, <1>9
  <2> QED BY <2>1
<1>12. /\ Len(back) = 5 * m
       /\ back = [j \in 1..5 * m |-> Bits(text[(j - 1) \div 5 + 1], 5)[((j - 1) % 5) + 1]]
  <2>1. back = [j \in 1..5 * m |-> Bits(text[(j - 1) \div 5 + 1], 5)[((j - 1) % 5) + 1]]
    BY <1>10, <1>11 DEF AllBits
  <2> HIDE DEF Bits
  <2>2. back \in Seq(UNION {{back[j]} : j \in 1..5 * m}) /\ DOMAIN back = 1..5 * m
    BY <2>1
  <2>3. Len(back) = 5 * m
    BY <2>2
  <2> QED BY <2>1, <2>3
<1>13. 8 * n <= 5 * m /\ (5 * m) \div 8 = n
  BY <1>3
<1>14. \A j \in 1..8 * n : back[j] = bits[j]
  <2> SUFFICES ASSUME NEW j \in 1..8 * n PROVE back[j] = bits[j]
    OBVIOUS
  <2>1. PICK q \in Int : q = (j - 1) \div 5 + 1
    OBVIOUS
  <2>2. PICK r \in Int : r = ((j - 1) % 5) + 1
    OBVIOUS
  <2>3. q \in 1..m /\ r \in 1..5 /\ 5 * (q - 1) + r = j /\ j \in 1..5 * m
    BY <1>13, <2>1, <2>2
  <2>4. back[j] = Bits(text[q], 5)[r]
    <3> HIDE DEF Bits
    <3> QED BY <1>12, <2>1, <2>2, <2>3
  <2>5. Bits(text[q], 5)[r] = chunk[q][r]
    BY <1>9, <2>3
  <2>6. chunk[q][r] = bits[j]
    <3>1. chunk[q] = [i \in 1..5 |->
            IF 5 * (q - 1) + i <= Len(bits) THEN bits[5 * (q - 1) + i] ELSE 0]
      BY <1>6, <2>3
    <3>2. chunk[q][r] = IF 5 * (q - 1) + r <= Len(bits) THEN bits[5 * (q - 1) + r] ELSE 0
      BY <2>3, <3>1
    <3>3. j <= Len(bits)
      BY <1>4
    <3> QED BY <2>3, <3>2, <3>3
  <2> QED BY <2>4, <2>5, <2>6
<1>15. PICK again : again = Base32Decode(text)
  OBVIOUS
<1>16. again = [k \in 1..n |-> Value([i \in 1..8 |-> IF 8 * (k - 1) + i <= 5 * m
                                                       THEN back[8 * (k - 1) + i] ELSE 0], 8)]
  <2>1. again = Regroup(back, 8, Len(back) \div 8)
    BY <1>10, <1>15 DEF Base32Decode
  <2>2. Len(back) = 5 * m /\ Len(back) \div 8 = n
    BY <1>12, <1>13
  <2> HIDE DEF Value
  <2> QED BY <2>1, <2>2 DEF Regroup
<1>17. ASSUME NEW k \in 1..n PROVE again[k] = bytes[k]
  <2>1. bytes[k] \in 0..255
    BY <1>1
  <2>2. PICK b : b = [i \in 1..8 |-> IF 8 * (k - 1) + i <= 5 * m
                                       THEN back[8 * (k - 1) + i] ELSE 0]
    OBVIOUS
  <2>3. again[k] = Value(b, 8)
    <3> HIDE DEF Value
    <3> QED BY <1>16, <2>2
  <2>4. \A i \in 1..8 : b[i] = Bits(bytes[k], 8)[i]
    <3> SUFFICES ASSUME NEW i \in 1..8 PROVE b[i] = Bits(bytes[k], 8)[i]
      OBVIOUS
    <3>1. PICK j \in Int : j = 8 * (k - 1) + i
      OBVIOUS
    <3>2. j \in 1..8 * n /\ j <= 5 * m /\ (j - 1) \div 8 + 1 = k /\ ((j - 1) % 8) + 1 = i
      BY <1>13, <3>1
    <3>3. b[i] = back[j]
      BY <2>2, <3>1, <3>2
    <3>4. bits[j] = Bits(bytes[k], 8)[i]
      <4> HIDE DEF Bits
      <4> QED BY <1>4, <3>2
    <3> QED BY <1>14, <3>2, <3>3, <3>4
  <2>5. b = Bits(bytes[k], 8)
    <3>1. PICK c : c = Bits(bytes[k], 8)
      OBVIOUS
    <3>2. c = [i \in 1..8 |-> c[i]]
      BY <3>1 DEF Bits
    <3>3. b = [i \in 1..8 |-> b[i]]
      BY <2>2
    <3> QED BY <2>4, <3>1, <3>2, <3>3
  <2> QED BY <2>1, <2>3, <2>5, ValueOfByte
<1>18. again = bytes
  <2>1. again = [k \in 1..n |-> again[k]]
    BY <1>16
  <2>2. bytes = [k \in 1..n |-> bytes[k]]
    BY <1>1
  <2> QED BY <1>17, <2>1, <2>2
<1> QED BY <1>7, <1>9, <1>11, <1>15, <1>18

\* Whatever bytes are drawn, the text the secret is kept as stands for them
\* and is made of digits of base 32: every authenticator that reads the text
\* counts with the secret of the server.
THEOREM SecretsAlwaysSurvive == TotpSpec => []SecretsSurviveEncoding
<1>1. TotpInit => SecretsSurviveEncoding
  BY DecodeEncode, TotpAssumption DEF TotpInit, SecretsSurviveEncoding
<1>2. SecretsSurviveEncoding /\ [TotpNext]_totpVars => SecretsSurviveEncoding'
  <2> SUFFICES ASSUME SecretsSurviveEncoding, [TotpNext]_totpVars
               PROVE  SecretsSurviveEncoding'
    OBVIOUS
  <2>1. UNCHANGED <<secretBytes, secretText>>
    BY DEF TotpNext, Tick, TypeCode, VerifyTotp, totpVars
  <2> QED BY <2>1 DEF SecretsSurviveEncoding
<1> QED BY <1>1, <1>2, PTL DEF TotpSpec
-----------------------------------------------------------------------------
(* The run of MC_Office: each step of it is a step of every service, or      *)
(* leaves it alone.                                                          *)

LEMMA OfficeInit ==
  MCInit => /\ Init /\ WorkflowInit /\ AgencyInit /\ SessionInit /\ FactorInit
            /\ TotpInit /\ ThrottleInit /\ RoleInit
BY DEF MCInit

LEMMA OfficeStep ==
  [MCNext]_officeVars =>
    /\ [Next /\ NoOverlap']_vars /\ [WorkflowNext]_workflowVars /\ [AgencyNext]_agencyVars
    /\ [SessionNext]_sessionVars /\ [FactorNext]_factorVars /\ [TotpNext]_totpVars
    /\ [ThrottleNext]_throttleVars /\ [RoleNext]_roleVars
<1> SUFFICES ASSUME [MCNext]_officeVars
             PROVE  /\ [Next /\ NoOverlap']_vars /\ [WorkflowNext]_workflowVars
                    /\ [AgencyNext]_agencyVars /\ [SessionNext]_sessionVars
                    /\ [FactorNext]_factorVars /\ [TotpNext]_totpVars
                    /\ [ThrottleNext]_throttleVars /\ [RoleNext]_roleVars
  OBVIOUS
<1>1. CASE Working /\ UNCHANGED accessVars
  BY <1>1 DEF Working, accessVars
<1>2. CASE Accessing /\ UNCHANGED workVars
  BY <1>2 DEF Accessing, workVars
<1>3. CASE UNCHANGED officeVars
  BY <1>3 DEF officeVars, workVars, accessVars
<1> QED BY <1>1, <1>2, <1>3 DEF MCNext

LEMMA OfficeServices ==
  MCSpec => /\ SerialSpec /\ WorkflowSpec /\ AgencySpec /\ SessionSpec /\ FactorSpec
            /\ TotpSpec /\ ThrottleSpec /\ RoleSpec
BY OfficeInit, OfficeStep, PTL
   DEF MCSpec, SerialSpec, WorkflowSpec, AgencySpec, SessionSpec, FactorSpec, TotpSpec,
       ThrottleSpec, RoleSpec

\* OfficeTypeOK: the rows and requests of every service of the back office stay
\* well-formed, for any number of callers, reviewers, administrators and devices.
THEOREM OfficeTypeCorrect == MCSpec => []OfficeTypeOK
BY OfficeServices, SerialImplementsSpec, TypeCorrect, ApplicationsAlwaysSound, FirstApprovalIsKept,
   SessionsAlwaysSound, FactorAlwaysSound, CodesAlwaysLiveOneStep, ThrottleAdmitsAtMost,
   RolesTypeCorrect, PTL DEF OfficeTypeOK

\* HistoriesSound: a booking and an application are where their histories end.
THEOREM HistoriesAlwaysSound == MCSpec => []HistoriesSound
BY OfficeServices, SerialImplementsSpec, StatusRecorded, ApplicationsAlwaysSound, PTL
   DEF HistoriesSound

\* AccountsSound: sessions, the second factor, its codes and the throttle of
\* one account keep what each of them promises.
THEOREM AccountsAlwaysSound == MCSpec => []AccountsSound
BY OfficeServices, SessionsAlwaysSound, FactorAlwaysSound, CodesAlwaysLiveOneStep,
   ThrottleAdmitsAtMost, PTL DEF AccountsSound
=============================================================================
