------------------------------ MODULE Workflows ------------------------------
(***************************************************************************)
(* The reviewed applications: VisasService and ManpowerService.  An        *)
(* application is made with its first history row; after that a reviewer,  *)
(* or the applicant who withdraws, reads the status and checks the change  *)
(* outside the transaction that writes status and history row by id.  A    *)
(* job application also counts in positionsFilled of its job.              *)
(***************************************************************************)
EXTENDS Naturals, Sequences, FiniteSets

CONSTANTS
  VisaApplications,  \* visa applications that may be made
  JobApplications,   \* applications for one manpower job that may be made
  Reviewers,         \* requests that change a status: updateStatus, withdraw
  ReviewLimit        \* bound on the history rows of an application

ASSUME WorkflowAssumption ==
  /\ VisaApplications \cap JobApplications = {}
  /\ IsFiniteSet(JobApplications)
  /\ ReviewLimit \in Nat

VARIABLES
  appStatus,        \* appStatus[a]: the application's status, or "NONE"
  appHistory,       \* appHistory[a]: its history rows, in commit order
  applying,         \* job applications whose apply request has read the job
  jobActive,        \* manpower_jobs.active, with the deadline
  positionsFilled,  \* manpower_jobs.positions_filled
  review,           \* review[r]: the change that reviewer r has checked, or NoReview
  reviewOverlap     \* history: applications whose reviews have overlapped

workflowVars ==
  <<appStatus, appHistory, applying, jobActive, positionsFilled, review, reviewOverlap>>

Applications == VisaApplications \cup JobApplications

VisaTransitions ==
  [SUBMITTED |-> {"UNDER_REVIEW", "ADDITIONAL_INFO_REQUIRED", "APPROVED", "REJECTED"},
   UNDER_REVIEW |-> {"ADDITIONAL_INFO_REQUIRED", "APPROVED", "REJECTED"},
   ADDITIONAL_INFO_REQUIRED |-> {"UNDER_REVIEW", "REJECTED"},
   APPROVED |-> {},
   REJECTED |-> {}]

JobTransitions ==
  [SUBMITTED |-> {"UNDER_REVIEW", "SHORTLISTED", "REJECTED", "WITHDRAWN"},
   UNDER_REVIEW |-> {"SHORTLISTED", "REJECTED", "WITHDRAWN"},
   SHORTLISTED |-> {"INTERVIEW_SCHEDULED", "REJECTED", "WITHDRAWN"},
   INTERVIEW_SCHEDULED |-> {"SELECTED", "REJECTED", "WITHDRAWN"},
   SELECTED |-> {"VISA_PROCESSING", "REJECTED"},
   VISA_PROCESSING |-> {"DEPLOYED", "REJECTED"},
   DEPLOYED |-> {},
   REJECTED |-> {},
   WITHDRAWN |-> {}]

TransitionsOf(a) == IF a \in VisaApplications THEN VisaTransitions ELSE JobTransitions

AppStatuses == DOMAIN VisaTransitions \cup DOMAIN JobTransitions
AppRow == [from : AppStatuses \cup {"NONE"}, to : AppStatuses]
NoReview == [app |-> "none", from |-> "NONE", to |-> "NONE"]

FirstRow == [from |-> "NONE", to |-> "SUBMITTED"]

AppTypeOK ==
  /\ appStatus \in [Applications -> AppStatuses \cup {"NONE"}]
  /\ appHistory \in [Applications -> Seq(AppRow)]
  /\ applying \subseteq JobApplications
  /\ jobActive \in BOOLEAN
  /\ positionsFilled \in Nat
  /\ review \in
       [Reviewers -> [app : Applications, from : AppStatuses, to : AppStatuses] \cup {NoReview}]
  /\ reviewOverlap \subseteq Applications

WorkflowInit ==
  /\ appStatus = [a \in Applications |-> "NONE"]
  /\ appHistory = [a \in Applications |-> <<>>]
  /\ applying = {}
  /\ jobActive = TRUE
  /\ positionsFilled = 0
  /\ review = [r \in Reviewers |-> NoReview]
  /\ reviewOverlap = {}

-----------------------------------------------------------------------------
(* apply                                                                   *)

Submit(a) ==
  /\ appStatus[a] = "NONE"
  /\ appStatus' = [appStatus EXCEPT ![a] = "SUBMITTED"]
  /\ appHistory' = [appHistory EXCEPT ![a] = <<FirstRow>>]

ApplyVisa(a) ==
  /\ a \in VisaApplications
  /\ Submit(a)
  /\ UNCHANGED <<applying, jobActive, positionsFilled, review, reviewOverlap>>

\* The job is read and accepts applications.
ReadJob(a) ==
  /\ a \in JobApplications
  /\ appStatus[a] = "NONE"
  /\ jobActive
  /\ applying' = applying \cup {a}
  /\ UNCHANGED <<appStatus, appHistory, jobActive, positionsFilled, review, reviewOverlap>>

\* One transaction: the application, its first row and the job's counter.
\* Neither positionsAvailable nor the job's state is looked at again.
ApplyJob(a) ==
  /\ a \in applying
  /\ Submit(a)
  /\ positionsFilled' = positionsFilled + 1
  /\ applying' = applying \ {a}
  /\ UNCHANGED <<jobActive, review, reviewOverlap>>

\* updateJob (or the deadline): any value, at any time.
UpdateJob ==
  /\ jobActive' \in BOOLEAN
  /\ UNCHANGED <<appStatus, appHistory, applying, positionsFilled, review, reviewOverlap>>

-----------------------------------------------------------------------------
(* updateStatus and withdraw                                               *)

NoteReview(r, a) ==
  reviewOverlap' = IF \E q \in Reviewers \ {r} : review[q].app = a
                   THEN reviewOverlap \cup {a} ELSE reviewOverlap

\* The application is read and the change checked against the table; a
\* refused request leaves nothing.
ReadApplication(r, a, to) ==
  /\ review[r] = NoReview
  /\ appStatus[a] # "NONE"
  /\ Len(appHistory[a]) < ReviewLimit
  /\ to \in TransitionsOf(a)[appStatus[a]]
  /\ review' = [review EXCEPT ![r] = [app |-> a, from |-> appStatus[a], to |-> to]]
  /\ NoteReview(r, a)
  /\ UNCHANGED <<appStatus, appHistory, applying, jobActive, positionsFilled>>

\* Mutant: the two writes are not one transaction, and the request may die
\* between them.
WriteApart(r) ==
  LET a == review[r].app IN
  /\ review[r] # NoReview
  /\ appStatus' = [appStatus EXCEPT ![a] = review[r].to]
  /\ appHistory' \in
       {appHistory,
        [appHistory EXCEPT ![a] = Append(@, [from |-> review[r].from, to |-> review[r].to])]}
  /\ review' = [review EXCEPT ![r] = NoReview]
  /\ UNCHANGED <<applying, jobActive, positionsFilled, reviewOverlap>>

\* One transaction: the status, by id, and the history row, whose `from` is
\* the status that was read.
WriteReview(r) ==
  LET a == review[r].app IN
  /\ review[r] # NoReview
  /\ appStatus' = [appStatus EXCEPT ![a] = review[r].to]
  /\ appHistory' = [appHistory EXCEPT ![a] =
                      Append(@, [from |-> review[r].from, to |-> review[r].to])]
  /\ review' = [review EXCEPT ![r] = NoReview]
  /\ UNCHANGED <<applying, jobActive, positionsFilled, reviewOverlap>>

\* A request dies before its transaction commits.
Abandon ==
  /\ \/ \E r \in Reviewers :
          /\ review[r] # NoReview
          /\ review' = [review EXCEPT ![r] = NoReview]
          /\ UNCHANGED applying
     \/ \E a \in applying : applying' = applying \ {a} /\ UNCHANGED review
  /\ UNCHANGED <<appStatus, appHistory, jobActive, positionsFilled, reviewOverlap>>

WorkflowNext ==
  \/ \E a \in Applications : ApplyVisa(a) \/ ReadJob(a) \/ ApplyJob(a)
  \/ UpdateJob
  \/ \E r \in Reviewers :
       \/ \E a \in Applications, to \in AppStatuses : ReadApplication(r, a, to)
       \/ WriteReview(r)
  \/ Abandon

WorkflowSpec == WorkflowInit /\ [][WorkflowNext]_workflowVars
-----------------------------------------------------------------------------
(* Properties.                                                             *)

\* Whatever overlaps or dies, the status is what the newest history row says,
\* and every row is a change its service allows ("this table's audit trail").
AppStatusIsLastRow ==
  \A a \in Applications :
    appStatus[a] = IF appHistory[a] = <<>> THEN "NONE"
                   ELSE appHistory[a][Len(appHistory[a])].to

AppRowsAllowed ==
  \A a \in Applications : \A i \in DOMAIN appHistory[a] :
    LET row == appHistory[a][i]
    IN IF i = 1 THEN row = FirstRow
       ELSE row.from \in DOMAIN TransitionsOf(a) /\ row.to \in TransitionsOf(a)[row.from]

\* Unless two reviews of an application overlap, its history is one unbroken
\* path from SUBMITTED to its status.
AppHistoryUnbroken ==
  \A a \in Applications \ reviewOverlap : \A i \in 2..Len(appHistory[a]) :
    appHistory[a][i].from = appHistory[a][i - 1].to

\* withdraw: "Not available once SELECTED/VISA_PROCESSING/DEPLOYED" - unless
\* the withdrawal overlaps the selection.
NoWithdrawalOnceSelected ==
  \A a \in JobApplications \ reviewOverlap :
    appStatus[a] = "WITHDRAWN" =>
      \A i \in DOMAIN appHistory[a] : appHistory[a][i].to # "SELECTED"

\* The counter of a job and its applications are written together: it is the
\* number of applications ever made, whatever dies or overlaps.
FilledCountsApplications ==
  positionsFilled = Cardinality({a \in JobApplications : appStatus[a] # "NONE"})

\* schema.prisma, ManpowerJob.positionsFilled: "Denormalized running count of
\* non-withdrawn/non-rejected applications against this job".  The code never
\* takes a withdrawn or rejected application off it.
FilledCountsOpenApplications ==
  positionsFilled =
    Cardinality({a \in JobApplications : appStatus[a] \notin {"NONE", "WITHDRAWN", "REJECTED"}})

\* Status, audit trail and job counter tell one story of every application.
ApplicationsSound ==
  /\ AppStatusIsLastRow
  /\ AppRowsAllowed
  /\ AppHistoryUnbroken
  /\ NoWithdrawalOnceSelected
  /\ FilledCountsApplications
=============================================================================
