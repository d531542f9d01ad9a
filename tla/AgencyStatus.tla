---------------------------- MODULE AgencyStatus ----------------------------
(***************************************************************************)
(* AgenciesAdminService.updateStatus on one agency: the row is read, the   *)
(* status it already has is refused, and status and approval date are      *)
(* written back by id.  approvedAt is set by the first approval only, from *)
(* the value that was read.                                                *)
(***************************************************************************)
EXTENDS Naturals

CONSTANTS
  AgencyAdmins,   \* updateStatus requests, repeated any number of times
  LastApproval    \* bound on the approvals that set a date

ASSUME AgencyAssumption == LastApproval \in Nat

VARIABLES
  agencyStatus,   \* b2b_agencies.status
  approvedAt,     \* the approval that set approved_at, or 0
  approvals,      \* how many approvals have set a date: the clock
  agencyUpdate,   \* agencyUpdate[r]: [to, approvedAt] as r has read it, or NoUpdate
  agencyOverlap   \* history: two requests were under way at a time

agencyVars == <<agencyStatus, approvedAt, approvals, agencyUpdate, agencyOverlap>>

AgencyStatuses == {"PENDING_APPROVAL", "ACTIVE", "SUSPENDED"}
NoUpdate == [to |-> "none", approvedAt |-> 0]

AgencyTypeOK ==
  /\ agencyStatus \in AgencyStatuses
  /\ approvedAt \in 0..approvals
  /\ approvals \in 0..LastApproval
  /\ agencyUpdate \in
       [AgencyAdmins -> [to : AgencyStatuses, approvedAt : 0..approvals] \cup {NoUpdate}]
  /\ agencyOverlap \in BOOLEAN

AgencyInit ==
  /\ agencyStatus = "PENDING_APPROVAL"
  /\ approvedAt = 0
  /\ approvals = 0
  /\ agencyUpdate = [r \in AgencyAdmins |-> NoUpdate]
  /\ agencyOverlap = FALSE

\* The row is read; the status it already has is refused.
ReadAgency(r, to) ==
  /\ agencyUpdate[r] = NoUpdate
  /\ agencyStatus # to
  /\ agencyUpdate' = [agencyUpdate EXCEPT ![r] = [to |-> to, approvedAt |-> approvedAt]]
  /\ agencyOverlap' = (agencyOverlap \/ \E q \in AgencyAdmins \ {r} : agencyUpdate[q] # NoUpdate)
  /\ UNCHANGED <<agencyStatus, approvedAt, approvals>>

\* Mutant: every approval sets the date anew.
WriteAgencyAnew(r) ==
  LET update == agencyUpdate[r]
      firstApproval == update.to = "ACTIVE"
  IN /\ update # NoUpdate
     /\ agencyStatus' = update.to
     /\ firstApproval => approvals < LastApproval
     /\ approvals' = IF firstApproval THEN approvals + 1 ELSE approvals
     /\ approvedAt' = IF firstApproval THEN approvals' ELSE update.approvedAt
     /\ agencyUpdate' = [agencyUpdate EXCEPT ![r] = NoUpdate]
     /\ UNCHANGED agencyOverlap

\* The UPDATE writes both columns, the date also when it does not change.
WriteAgency(r) ==
  LET update == agencyUpdate[r]
      firstApproval == update.to = "ACTIVE" /\ update.approvedAt = 0
  IN /\ update # NoUpdate
     /\ agencyStatus' = update.to
     /\ firstApproval => approvals < LastApproval
     /\ approvals' = IF firstApproval THEN approvals + 1 ELSE approvals
     /\ approvedAt' = IF firstApproval THEN approvals' ELSE update.approvedAt
     /\ agencyUpdate' = [agencyUpdate EXCEPT ![r] = NoUpdate]
     /\ UNCHANGED agencyOverlap

\* The request dies between the read and the write.
AbandonUpdate(r) ==
  /\ agencyUpdate[r] # NoUpdate
  /\ agencyUpdate' = [agencyUpdate EXCEPT ![r] = NoUpdate]
  /\ UNCHANGED <<agencyStatus, approvedAt, approvals, agencyOverlap>>

AgencyNext ==
  \E r \in AgencyAdmins :
    \/ \E to \in AgencyStatuses : ReadAgency(r, to)
    \/ WriteAgency(r)
    \/ AbandonUpdate(r)

AgencySpec == AgencyInit /\ [][AgencyNext]_agencyVars
-----------------------------------------------------------------------------
(* Properties.                                                             *)

\* Unless two requests overlap, the date of the first approval is never lost
\* or replaced, however often the agency is suspended and taken back.
FirstApprovalKept ==
  [][approvedAt # 0 /\ ~agencyOverlap' => approvedAt' = approvedAt]_agencyVars
=============================================================================
