------------------------------ MODULE Sessions ------------------------------
(***************************************************************************)
(* The sessions of one account: AuthService (login with an optional second *)
(* factor, refresh, logout and revokeSession, password reset).  A refresh  *)
(* token is rotated: the row that was read is revoked by id and a new one  *)
(* is issued, in two statements and no transaction.  Where the second      *)
(* factor is on, a login ends with a signed challenge, and another request *)
(* answers it: the challenge is good until it expires, answered or not.    *)
(*                                                                         *)
(* Every request issues at most one session, which is named after it.  A   *)
(* session's chain is the request that completed the sign-in it goes back  *)
(* to: a login without a second factor, or the answer to a challenge.      *)
(***************************************************************************)
EXTENDS Naturals, FiniteSets

CONSTANTS
  SessionRequests,    \* requests
  SessionScenarios,   \* what they ask for: functions of the requests
  BackupCodes,        \* the account's backup codes
  ResetLinks,         \* password reset links that may be sent
  SessionCrashAllowed

SessionRequest ==
  [op : {"login"}, secondFactor : BOOLEAN]
    \cup [op : {"answer"}, code : BackupCodes \cup {"totp"}]
    \cup [op : {"refresh", "signOut"}]
    \cup [op : {"reset"}, link : ResetLinks]

ASSUME SessionAssumption ==
  /\ IsFiniteSet(SessionRequests)
  /\ \A scenario \in SessionScenarios : \A t \in SessionRequests : scenario[t] \in SessionRequest
  /\ "totp" \notin BackupCodes
  /\ SessionCrashAllowed \in BOOLEAN

VARIABLES
  wish,        \* wish[t]: what request t asks for, fixed by the scenario
  session,     \* session[t]: the refresh token issued by t
  challenge,   \* challenge[l]: "none", or whether the challenge of login l is good
  chain,       \* chain[t]: the sign-in that t's session goes back to
  password,    \* how often the password has been changed
  provenBy,    \* provenBy[t]: the password that the chain of t was proved with
  backupCodes, \* users.two_factor_backup_codes
  link,        \* link[k]: "none", "sent" or "used"
  sessionPc,
  target,      \* target[t]: the session that refresh t has read
  codesSeen,   \* codesSeen[t]: the backup codes as answer t has read them
  \* History.
  signedOut,      \* chains that a sign-out has ended
  codeUses, linkUses,
  sessionOverlap, \* chains of which two requests overlapped
  codeOverlap, linkOverlap,
  overtaken,      \* requests and challenges a reset found under way, and what came of them
  sessionCrashed

sessionRows == <<wish, session, challenge, chain, password, provenBy, backupCodes, link>>
sessionHistory ==
  <<signedOut, codeUses, linkUses, sessionOverlap, codeOverlap, linkOverlap, overtaken,
    sessionCrashed>>
sessionVars == <<sessionRows, sessionPc, target, codesSeen, sessionHistory>>

SessionTypeOK ==
  /\ wish \in SessionScenarios
  /\ session \in [SessionRequests -> {"none", "live", "revoked", "expired"}]
  /\ challenge \in [SessionRequests -> {"none", "open", "expired"}]
  /\ chain \in [SessionRequests -> SessionRequests]
  /\ password \in Nat
  /\ provenBy \in [SessionRequests -> 0..password]
  /\ backupCodes \subseteq BackupCodes
  /\ link \in [ResetLinks -> {"none", "sent", "used"}]
  /\ sessionPc \in [SessionRequests -> {"start", "spend", "rotate", "issue", "reset", "done"}]
  /\ target \in [SessionRequests -> SessionRequests]
  /\ codesSeen \in [SessionRequests -> SUBSET BackupCodes]
  /\ signedOut \subseteq SessionRequests /\ sessionOverlap \subseteq SessionRequests
  /\ overtaken \subseteq SessionRequests
  /\ codeUses \in [BackupCodes -> Nat] /\ linkUses \in [ResetLinks -> Nat]
  /\ {codeOverlap, linkOverlap, sessionCrashed} \subseteq BOOLEAN

SessionInit ==
  /\ wish \in SessionScenarios
  /\ session = [t \in SessionRequests |-> "none"]
  /\ challenge = [t \in SessionRequests |-> "none"]
  /\ chain = [t \in SessionRequests |-> t]
  /\ password = 0
  /\ provenBy = [t \in SessionRequests |-> 0]
  /\ backupCodes = BackupCodes
  /\ link = [k \in ResetLinks |-> "none"]
  /\ sessionPc = [t \in SessionRequests |-> "start"]
  /\ target = [t \in SessionRequests |-> t]
  /\ codesSeen = [t \in SessionRequests |-> {}]
  /\ signedOut = {} /\ sessionOverlap = {} /\ overtaken = {}
  /\ codeUses = [c \in BackupCodes |-> 0]
  /\ linkUses = [k \in ResetLinks |-> 0]
  /\ codeOverlap = FALSE /\ linkOverlap = FALSE
  /\ sessionCrashed = FALSE

SessionAt(t, op, step) == wish[t].op = op /\ sessionPc[t] = step
SessionGoto(t, next) == sessionPc' = [sessionPc EXCEPT ![t] = next]

\* The requests that complete a sign-in.
SignIns == {"login", "answer"}

-----------------------------------------------------------------------------
(* validateCredentials, beginLogin and verifyTwoFactorAndIssueTokens       *)

\* The password is right.  (A wrong one ends the request here.)  Tokens are
\* issued, or the request ends with a challenge.
CheckPassword(t) ==
  /\ SessionAt(t, "login", "start")
  /\ provenBy' = [provenBy EXCEPT ![t] = password]
  /\ IF wish[t].secondFactor
     THEN SessionGoto(t, "done") /\ challenge' = [challenge EXCEPT ![t] = "open"]
     ELSE SessionGoto(t, "issue") /\ UNCHANGED challenge
  /\ UNCHANGED <<wish, session, chain, password, backupCodes, link, target, codesSeen,
                 sessionHistory>>

\* t goes on from what `from` has proved.
ProvesAs(t, from) ==
  /\ provenBy' = [provenBy EXCEPT ![t] = provenBy[from]]
  /\ overtaken' = IF from \in overtaken THEN overtaken \cup {t} ELSE overtaken

\* The challenge of login l is verified, the account read and the code compared:
\* a TOTP, or a backup code that has to be spent.  Nothing marks the challenge.
AnswerChallenge(t, l) ==
  /\ SessionAt(t, "answer", "start")
  /\ challenge[l] = "open"
  /\ ProvesAs(t, l)
  /\ IF wish[t].code = "totp" THEN SessionGoto(t, "issue") /\ UNCHANGED codesSeen
     ELSE IF wish[t].code \in backupCodes
          THEN SessionGoto(t, "spend") /\ codesSeen' = [codesSeen EXCEPT ![t] = backupCodes]
          ELSE SessionGoto(t, "done") /\ UNCHANGED codesSeen
  /\ codeOverlap' = (codeOverlap \/ \E u \in SessionRequests : sessionPc[u] = "spend")
  /\ UNCHANGED <<wish, session, challenge, chain, password, backupCodes, link, target, signedOut,
                 codeUses, linkUses, sessionOverlap, linkOverlap, sessionCrashed>>

\* The codes that were read, without this one, are written back.
SpendCode(t) ==
  /\ SessionAt(t, "answer", "spend")
  /\ backupCodes' = codesSeen[t] \ {wish[t].code}
  /\ codeUses' = [codeUses EXCEPT ![wish[t].code] = @ + 1]
  /\ codesSeen' = [codesSeen EXCEPT ![t] = {}]
  /\ SessionGoto(t, "issue")
  /\ UNCHANGED <<wish, session, challenge, chain, password, provenBy, link, target, signedOut,
                 linkUses, sessionOverlap, codeOverlap, linkOverlap, overtaken, sessionCrashed>>

\* issueTokens: the row of a new refresh token.
IssueTokens(t) ==
  /\ sessionPc[t] = "issue"
  /\ session' = [session EXCEPT ![t] = "live"]
  /\ SessionGoto(t, "done")
  /\ UNCHANGED <<wish, challenge, chain, password, provenBy, backupCodes, link, target, codesSeen,
                 sessionHistory>>

-----------------------------------------------------------------------------
(* refresh                                                                 *)

\* u is rotating a token of chain l.
Rotating(u, l) ==
  wish[u].op = "refresh" /\ sessionPc[u] \in {"rotate", "issue"} /\ chain[u] = l

\* Mutant: a revoked token is still found.
ReadAnySession(t, s) ==
  /\ SessionAt(t, "refresh", "start")
  /\ session[s] \in {"live", "revoked"}
  /\ target' = [target EXCEPT ![t] = s]
  /\ chain' = [chain EXCEPT ![t] = chain[s]]
  /\ ProvesAs(t, s)
  /\ SessionGoto(t, "rotate")
  /\ sessionOverlap' = sessionOverlap \cup
       {l \in {chain[s]} : \E u \in SessionRequests : Rotating(u, l)}
  /\ UNCHANGED <<wish, session, challenge, password, backupCodes, link, codesSeen, signedOut,
                 codeUses, linkUses, codeOverlap, linkOverlap, sessionCrashed>>

\* The token is found: it is neither revoked nor expired.
ReadSession(t, s) ==
  /\ SessionAt(t, "refresh", "start")
  /\ session[s] = "live"
  /\ target' = [target EXCEPT ![t] = s]
  /\ chain' = [chain EXCEPT ![t] = chain[s]]
  /\ ProvesAs(t, s)
  /\ SessionGoto(t, "rotate")
  /\ sessionOverlap' = sessionOverlap \cup
       {l \in {chain[s]} : \E u \in SessionRequests : Rotating(u, l)}
  /\ UNCHANGED <<wish, session, challenge, password, backupCodes, link, codesSeen, signedOut,
                 codeUses, linkUses, codeOverlap, linkOverlap, sessionCrashed>>

\* Mutant: the presented token is marked in a way nobody knows.
RotateMarks(t) ==
  /\ SessionAt(t, "refresh", "rotate")
  /\ session' = [session EXCEPT ![target[t]] = "rotated"]
  /\ SessionGoto(t, "issue")
  /\ UNCHANGED <<wish, challenge, chain, password, provenBy, backupCodes, link, target, codesSeen,
                 sessionHistory>>

\* The row is revoked by id, whatever has become of it.
Rotate(t) ==
  /\ SessionAt(t, "refresh", "rotate")
  /\ session' = [session EXCEPT ![target[t]] = "revoked"]
  /\ SessionGoto(t, "issue")
  /\ UNCHANGED <<wish, challenge, chain, password, provenBy, backupCodes, link, target, codesSeen,
                 sessionHistory>>

-----------------------------------------------------------------------------
(* logout and revokeSession, resetPassword                                 *)

\* One statement revokes the session if it is not revoked yet.
SignOut(t, s) ==
  /\ SessionAt(t, "signOut", "start")
  /\ session[s] = "live"
  /\ session' = [session EXCEPT ![s] = "revoked"]
  /\ signedOut' = signedOut \cup {chain[s]}
  /\ sessionOverlap' = sessionOverlap \cup
       {l \in {chain[s]} : \E u \in SessionRequests : Rotating(u, l)}
  /\ SessionGoto(t, "done")
  /\ UNCHANGED <<wish, challenge, chain, password, provenBy, backupCodes, link, target, codesSeen,
                 codeUses, linkUses, codeOverlap, linkOverlap, overtaken, sessionCrashed>>

RequestPasswordReset(k) ==
  /\ link[k] = "none"
  /\ link' = [link EXCEPT ![k] = "sent"]
  /\ UNCHANGED <<wish, session, challenge, chain, password, provenBy, backupCodes, sessionPc,
                 target, codesSeen, sessionHistory>>

\* The link is found: it is neither used nor expired.
ReadLink(t) ==
  /\ SessionAt(t, "reset", "start")
  /\ link[wish[t].link] = "sent"
  /\ SessionGoto(t, "reset")
  /\ linkOverlap' =
       (linkOverlap \/ \E u \in SessionRequests :
                         sessionPc[u] = "reset" /\ wish[u].link = wish[t].link)
  /\ UNCHANGED <<sessionRows, target, codesSeen, signedOut, codeUses, linkUses, sessionOverlap,
                 codeOverlap, overtaken, sessionCrashed>>

NoteReset ==
  overtaken' = overtaken \cup
    {u \in SessionRequests : sessionPc[u] \in {"spend", "rotate", "issue"} \/ challenge[u] = "open"}

\* One transaction: the password, the link and every session.
ResetPassword(t) ==
  /\ SessionAt(t, "reset", "reset")
  /\ password' = password + 1
  /\ link' = [link EXCEPT ![wish[t].link] = "used"]
  /\ linkUses' = [linkUses EXCEPT ![wish[t].link] = @ + 1]
  /\ session' = [s \in SessionRequests |-> IF session[s] = "none" THEN "none" ELSE "revoked"]
  /\ NoteReset
  /\ SessionGoto(t, "done")
  /\ UNCHANGED <<wish, challenge, chain, provenBy, backupCodes, target, codesSeen, signedOut,
                 codeUses, sessionOverlap, codeOverlap, linkOverlap, sessionCrashed>>

-----------------------------------------------------------------------------
\* A refresh token reaches its expiry date.
Expire(s) ==
  /\ session[s] = "live"
  /\ session' = [session EXCEPT ![s] = "expired"]
  /\ UNCHANGED <<wish, challenge, chain, password, provenBy, backupCodes, link, sessionPc, target,
                 codesSeen, sessionHistory>>

\* The five minutes of a challenge are over.
ExpireChallenge(l) ==
  /\ challenge[l] = "open"
  /\ challenge' = [challenge EXCEPT ![l] = "expired"]
  /\ UNCHANGED <<wish, session, chain, password, provenBy, backupCodes, link, sessionPc, target,
                 codesSeen, sessionHistory>>

\* The process dies, or the user row is gone.
SessionCrash(t) ==
  /\ SessionCrashAllowed
  /\ sessionPc[t] \notin {"start", "done"}
  /\ SessionGoto(t, "done")
  /\ codesSeen' = [codesSeen EXCEPT ![t] = {}]
  /\ sessionCrashed' = TRUE
  /\ UNCHANGED <<sessionRows, target, signedOut, codeUses, linkUses, sessionOverlap, codeOverlap,
                 linkOverlap, overtaken>>

SessionNext ==
  \/ \E t \in SessionRequests :
       \/ CheckPassword(t) \/ SpendCode(t) \/ IssueTokens(t)
       \/ \E s \in SessionRequests : AnswerChallenge(t, s) \/ ReadSession(t, s) \/ SignOut(t, s)
       \/ Rotate(t)
       \/ ReadLink(t) \/ ResetPassword(t)
       \/ Expire(t) \/ ExpireChallenge(t)
       \/ SessionCrash(t)
  \/ \E k \in ResetLinks : RequestPasswordReset(k)

SessionSpec == SessionInit /\ [][SessionNext]_sessionVars
-----------------------------------------------------------------------------
(* Properties.                                                             *)

Live(l) == {s \in SessionRequests : session[s] = "live" /\ chain[s] = l}

\* Rotation replaces a session: unless two refreshes of a chain overlap, a
\* sign-in never stands for more than one live refresh token.  (A challenge that
\* is answered twice, with a TOTP or two backup codes, makes two sign-ins.)
OneSessionPerSignIn ==
  \A l \in SessionRequests \ sessionOverlap : Cardinality(Live(l)) <= 1

\* A signed-out session does not come back through a refresh, unless one was
\* under way.
SignOutEndsChain ==
  \A l \in signedOut \ sessionOverlap : Live(l) = {}

\* Nobody else loses a session by it: a sign-in that was neither signed out,
\* expired, reset nor cut short by a crash has a live token, or a request
\* about to issue it, whatever other sign-ins and refreshes do.
OthersStaySignedIn ==
  ~sessionCrashed =>
    \A l \in SessionRequests \ signedOut :
      wish[l].op \in SignIns /\ session[l] # "none" /\ provenBy[l] = password
        => \E s \in SessionRequests :
             /\ chain[s] = l
             /\ session[s] \in {"live", "expired"} \/ sessionPc[s] = "issue"

\* resetPassword: "a reset password should end every session it didn't come
\* from, not just future ones".  Every live session was proved with the current
\* password, but those that come of a request that was under way when the reset
\* committed, or of a challenge that was still open, which a reset leaves alone.
ResetEndsSessions ==
  \A s \in SessionRequests \ overtaken : session[s] = "live" => provenBy[s] = password

\* "One-time use": unless two requests with codes of the account (or with one
\* link) overlap, a backup code opens one session and a link resets once.
CodesWorkOnce == ~codeOverlap => \A c \in BackupCodes : codeUses[c] <= 1
LinksWorkOnce == ~linkOverlap => \A k \in ResetLinks : linkUses[k] <= 1

\* A session is worth one sign-in: it ends with its sign-out or a reset and with
\* nobody else's, and no code or link opens a second one.
SessionsSound ==
  /\ OneSessionPerSignIn /\ SignOutEndsChain /\ OthersStaySignedIn
  /\ ResetEndsSessions /\ CodesWorkOnce /\ LinksWorkOnce
=============================================================================
