---------------------------- MODULE SecondFactor ----------------------------
(***************************************************************************)
(* Switching the second factor of one account on and off: AuthService      *)
(* (enableTwoFactor, confirmTwoFactor, disableTwoFactor), beside sign-ins  *)
(* that spend a backup code.  All of them write columns of the user row by *)
(* its id; what a confirmation or a spent code writes was decided on a row *)
(* read before.                                                            *)
(*                                                                         *)
(* A secret is the number of the enableTwoFactor that made it, 0 is none.  *)
(***************************************************************************)
EXTENDS Naturals

CONSTANTS
  FactorRequests,  \* requests of the account's owner, repeated any number of times
  LastSecret       \* bound on the secrets made

ASSUME FactorAssumption == LastSecret \in Nat

VARIABLES
  factorEnabled,  \* users.two_factor_enabled
  factorSecret,   \* users.two_factor_secret
  codesOf,        \* the secret whose backup codes the row holds, or what is left of them
  secretsMade,
  factorStep,     \* factorStep[r]: what r has read and will write, or NoFactorStep
  \* History.
  proven,         \* secrets the owner's authenticator has shown a code of
  factorOverlap   \* the row changed between a request's read and its write

factorRow == <<factorEnabled, factorSecret, codesOf>>
factorVars == <<factorRow, secretsMade, factorStep, proven, factorOverlap>>

NoFactorStep == [op |-> "none", codes |-> 0]
FactorSteps == {NoFactorStep, [op |-> "confirm", codes |-> 0]}
                 \cup [op : {"spend"}, codes : 0..LastSecret]

FactorTypeOK ==
  /\ factorEnabled \in BOOLEAN
  /\ secretsMade \in 0..LastSecret
  /\ factorSecret \in 0..secretsMade
  /\ codesOf \in 0..secretsMade
  /\ factorStep \in [FactorRequests -> FactorSteps]
  /\ proven \subseteq 1..secretsMade
  /\ factorOverlap \in BOOLEAN

FactorInit ==
  /\ factorEnabled = FALSE
  /\ factorSecret = 0
  /\ codesOf = 0
  /\ secretsMade = 0
  /\ factorStep = [r \in FactorRequests |-> NoFactorStep]
  /\ proven = {}
  /\ factorOverlap = FALSE

\* r writes the row while other requests hold what they have read of it.
NoteFactorWrite(r) ==
  factorOverlap' =
    (factorOverlap \/ \E q \in FactorRequests \ {r} : factorStep[q] # NoFactorStep)

\* Mutant: the flag keeps its value until the new secret is confirmed.
EnableKeepsFlag(r) ==
  /\ factorStep[r] = NoFactorStep
  /\ secretsMade < LastSecret
  /\ secretsMade' = secretsMade + 1
  /\ factorSecret' = secretsMade'
  /\ codesOf' = secretsMade'
  /\ NoteFactorWrite(r)
  /\ UNCHANGED <<factorEnabled, factorStep, proven>>

\* A new secret and new backup codes, not in force before they are confirmed -
\* also when the old ones were.
EnableTwoFactor(r) ==
  /\ factorStep[r] = NoFactorStep
  /\ secretsMade < LastSecret
  /\ secretsMade' = secretsMade + 1
  /\ factorSecret' = secretsMade'
  /\ codesOf' = secretsMade'
  /\ factorEnabled' = FALSE
  /\ NoteFactorWrite(r)
  /\ UNCHANGED <<factorStep, proven>>

\* The secret is read and the code is right.  (A wrong one ends the request.)
CheckConfirmation(r) ==
  /\ factorStep[r] = NoFactorStep
  /\ factorSecret # 0
  /\ factorStep' = [factorStep EXCEPT ![r] = [op |-> "confirm", codes |-> 0]]
  /\ proven' = proven \cup {factorSecret}
  /\ UNCHANGED <<factorRow, secretsMade, factorOverlap>>

ConfirmTwoFactor(r) ==
  /\ factorStep[r].op = "confirm"
  /\ factorEnabled' = TRUE
  /\ factorStep' = [factorStep EXCEPT ![r] = NoFactorStep]
  /\ NoteFactorWrite(r)
  /\ UNCHANGED <<factorSecret, codesOf, secretsMade, proven>>

\* The password is right.
DisableTwoFactor(r) ==
  /\ factorStep[r] = NoFactorStep
  /\ factorEnabled' = FALSE
  /\ factorSecret' = 0
  /\ codesOf' = 0
  /\ NoteFactorWrite(r)
  /\ UNCHANGED <<secretsMade, factorStep, proven>>

\* A sign-in answers the challenge with a backup code of the row it reads ...
CheckBackupCode(r) ==
  /\ factorStep[r] = NoFactorStep
  /\ factorEnabled
  /\ factorSecret # 0
  /\ codesOf # 0
  /\ factorStep' = [factorStep EXCEPT ![r] = [op |-> "spend", codes |-> codesOf]]
  /\ UNCHANGED <<factorRow, secretsMade, proven, factorOverlap>>

\* ... and writes back the other codes that it read.
SpendBackupCode(r) ==
  /\ factorStep[r].op = "spend"
  /\ codesOf' = factorStep[r].codes
  /\ factorStep' = [factorStep EXCEPT ![r] = NoFactorStep]
  /\ NoteFactorWrite(r)
  /\ UNCHANGED <<factorEnabled, factorSecret, secretsMade, proven>>

\* The request dies between its read and its write.
AbandonFactor(r) ==
  /\ factorStep[r] # NoFactorStep
  /\ factorStep' = [factorStep EXCEPT ![r] = NoFactorStep]
  /\ UNCHANGED <<factorRow, secretsMade, proven, factorOverlap>>

FactorNext ==
  \E r \in FactorRequests :
    \/ EnableTwoFactor(r) \/ CheckConfirmation(r) \/ ConfirmTwoFactor(r)
    \/ DisableTwoFactor(r)
    \/ CheckBackupCode(r) \/ SpendBackupCode(r)
    \/ AbandonFactor(r)

FactorSpec == FactorInit /\ [][FactorNext]_factorVars
-----------------------------------------------------------------------------
(* Properties.                                                             *)

\* enableTwoFactor: "leaves twoFactorEnabled false until confirmTwoFactor()
\* proves the operator's authenticator app actually has it".  An account that
\* asks for a second factor has one its owner can give and backup codes made
\* with it, however often it is switched on and off, unless the row changed
\* between the read and the write of a confirmation or a sign-in: then it may
\* ask for a secret nobody has, or for none (and refuse every answer).
SecondFactorSound ==
  ~factorOverlap =>
    /\ factorEnabled => factorSecret \in proven
    /\ codesOf = factorSecret
=============================================================================
