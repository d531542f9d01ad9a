----------------------------- MODULE MC_Office -----------------------------
(***************************************************************************)
(* The status workflows and the accounts that work on them, checked in one *)
(* run.  They share no state, so a behaviour is one of a booking whose     *)
(* transitions do not overlap (StatusMachine), of visa applications, of    *)
(* applications for one job, of an agency's status, of one user's          *)
(* sessions, second factor or its codes, of the login throttle or of role  *)
(* administration: `service` is chosen in the initial state.               *)
(***************************************************************************)
EXTENDS StatusMachine, Workflows, AgencyStatus, Sessions, SecondFactor, Totp,
        LoginThrottle, RoleAdministration, SequencesExt

CONSTANTS
  MaxHistory,  \* longest booking history explored
  MaxRows,     \* most history rows explored over all applications
  s1, s2, s3, s4, k1, d1, d2

\* Session scenarios: two devices, one rotating and one signing out; two
\* refreshes racing a sign-out; a challenge answered, rotated and signed out,
\* or answered twice around a reset; two resets with one link; a challenge
\* answered with one code twice and with two codes.
Login == [op |-> "login", secondFactor |-> FALSE]
Challenged == [op |-> "login", secondFactor |-> TRUE]
Answer(code) == [op |-> "answer", code |-> code]
Refresh == [op |-> "refresh"]
SignOff == [op |-> "signOut"]
ResetWith(k) == [op |-> "reset", link |-> k]
MCRequests(a, b, c, d) == s1 :> a @@ s2 :> b @@ s3 :> c @@ s4 :> d
MCDevices == MCRequests(Login, Login, Refresh, SignOff)
MCSessionScenarios ==
  { MCDevices,
    MCRequests(Login, Refresh, Refresh, SignOff),
    MCRequests(Challenged, Answer("totp"), Refresh, SignOff),
    MCRequests(Challenged, Answer("totp"), Answer(d1), ResetWith(k1)),
    MCRequests(Login, Refresh, ResetWith(k1), ResetWith(k1)),
    MCRequests(Challenged, Answer(d1), Answer(d1), Answer(d2)) }

\* Secrets of one to five bytes: every remainder a chunk of base32 can have.
MCSecrets ==
  UNION {[1..n -> {1, 128, 255}] : n \in 1..2}
    \cup {<<1, 2, 3>>, <<255, 0, 0, 1>>, <<7, 0, 200, 33, 1>>}

VARIABLE service

workVars == <<vars, workflowVars, agencyVars>>
accessVars == <<sessionVars, factorVars, totpVars, throttleVars, roleVars>>
officeVars == <<service, workVars, accessVars>>

\* The applications of the other product are not made, and histories are cut.
MCApplicationsOf(product) ==
  /\ \A a \in Applications \ product : appStatus'[a] = "NONE" /\ a \notin applying'
  /\ SumFunction([a \in Applications |-> Len(appHistory'[a])]) <= MaxRows

MCInit ==
  /\ service \in {"bookings", "visas", "jobs", "agencies", "sessions", "factor", "codes",
                   "throttle", "roles"}
  /\ Init /\ WorkflowInit /\ AgencyInit
  /\ SessionInit /\ FactorInit /\ TotpInit /\ ThrottleInit /\ RoleInit
  /\ service # "sessions" => wish = MCDevices
  /\ service # "codes" => secretBytes = <<1>> /\ ahead = 0

Working ==
  \/ /\ service = "bookings"
     /\ Next /\ NoOverlap' /\ Len(history') <= MaxHistory
     /\ UNCHANGED <<workflowVars, agencyVars>>
  \/ /\ \/ service = "visas" /\ WorkflowNext /\ MCApplicationsOf(VisaApplications)
        \/ service = "jobs" /\ WorkflowNext /\ MCApplicationsOf(JobApplications)
     /\ UNCHANGED <<vars, agencyVars>>
  \/ service = "agencies" /\ AgencyNext /\ UNCHANGED <<vars, workflowVars>>
Accessing ==
  \/ service = "sessions" /\ SessionNext /\ UNCHANGED <<factorVars, totpVars, throttleVars, roleVars>>
  \/ service = "factor" /\ FactorNext /\ UNCHANGED <<sessionVars, totpVars, throttleVars, roleVars>>
  \/ service = "codes" /\ TotpNext /\ UNCHANGED <<sessionVars, factorVars, throttleVars, roleVars>>
  \/ service = "throttle" /\ ThrottleNext /\ UNCHANGED <<sessionVars, factorVars, totpVars, roleVars>>
  \/ service = "roles" /\ RoleNext /\ UNCHANGED <<sessionVars, factorVars, totpVars, throttleVars>>

MCNext ==
  /\ \/ Working /\ UNCHANGED accessVars
     \/ Accessing /\ UNCHANGED workVars
  /\ UNCHANGED service

MCFairness ==
  /\ WF_throttleVars(service = "throttle" /\ WindowEnds)
  /\ \A r \in Attempts : WF_throttleVars(service = "throttle" /\ SetExpiry(r))

MCSpec == MCInit /\ [][MCNext]_officeVars /\ MCFairness

\* The rows and requests of the services are well-formed.
OfficeTypeOK ==
  /\ TypeOK /\ AppTypeOK /\ AgencyTypeOK
  /\ SessionTypeOK /\ FactorTypeOK /\ TotpTypeOK /\ ThrottleTypeOK /\ RoleTypeOK

\* What has a history of its status is where that history ends: a booking, visa
\* and job applications (Workflows).
HistoriesSound == StatusIsLastRecorded /\ ApplicationsSound

\* An account's sessions are worth one sign-in each and end when they are ended
\* (Sessions), a sign-in asks for no second factor that its owner never had
\* (SecondFactor), its codes are good for as long as they should (Totp), and a
\* window of the throttle lets no more attempts through than its limit
\* (LoginThrottle).
AccountsSound ==
  SessionsSound /\ SecondFactorSound /\ CodesLiveOneStep /\ WindowAdmitsAtMost
=============================================================================
