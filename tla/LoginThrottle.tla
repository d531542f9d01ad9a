---------------------------- MODULE LoginThrottle ----------------------------
(***************************************************************************)
(* One counter of RedisService.incrementWithExpiry as LoginThrottleGuard   *)
(* uses it (TwoFactorThrottleGuard is the same with another limit): INCR,  *)
(* and after the first INCR of a window a separate EXPIRE.                 *)
(***************************************************************************)
EXTENDS Integers

CONSTANTS
  Attempts,       \* concurrent login attempts with one key, repeated forever
  MaxAttempts,    \* MAX_ATTEMPTS
  CountLimit,     \* bound on the counter
  ThrottleCrashAllowed

ASSUME ThrottleAssumption ==
  MaxAttempts \in Nat /\ CountLimit \in Nat /\ CountLimit > MaxAttempts /\ ThrottleCrashAllowed \in BOOLEAN

VARIABLES
  count,      \* the Redis counter; 0 while the key does not exist
  expires,    \* whether the key has a time to live
  attempt,    \* attempt[r]: "idle", or "expire" when r will set it
  admitted,   \* history: attempts let through since the window began
  throttleCrashed

throttleVars == <<count, expires, attempt, admitted, throttleCrashed>>

ThrottleTypeOK ==
  /\ count \in 0..CountLimit
  /\ expires \in BOOLEAN
  /\ attempt \in [Attempts -> {"idle", "expire"}]
  /\ admitted \in 0..CountLimit
  /\ throttleCrashed \in BOOLEAN

ThrottleInit ==
  /\ count = 0
  /\ expires = FALSE
  /\ attempt = [r \in Attempts |-> "idle"]
  /\ admitted = 0
  /\ throttleCrashed = FALSE

Admits(attempts) == attempts <= MaxAttempts

\* Mutant: the expiry is set by the attempt that was answered 0.
IncrementFromZero(r) ==
  /\ attempt[r] = "idle"
  /\ count < CountLimit
  /\ count' = count + 1
  /\ admitted' = IF Admits(count') THEN admitted + 1 ELSE admitted
  /\ attempt' = [attempt EXCEPT ![r] = IF count' = 0 THEN "expire" ELSE "idle"]
  /\ UNCHANGED <<expires, throttleCrashed>>

\* INCR: the guard lets the attempt through or answers 429.
Increment(r) ==
  /\ attempt[r] = "idle"
  /\ count < CountLimit
  /\ count' = count + 1
  /\ admitted' = IF Admits(count') THEN admitted + 1 ELSE admitted
  /\ attempt' = [attempt EXCEPT ![r] = IF count' = 1 THEN "expire" ELSE "idle"]
  /\ UNCHANGED <<expires, throttleCrashed>>

SetExpiry(r) ==
  /\ attempt[r] = "expire"
  /\ expires' = (count > 0)
  /\ attempt' = [attempt EXCEPT ![r] = "idle"]
  /\ UNCHANGED <<count, admitted, throttleCrashed>>

\* Redis drops a key whose time has come.
WindowEnds ==
  /\ expires
  /\ count' = 0
  /\ expires' = FALSE
  /\ admitted' = 0
  /\ UNCHANGED <<attempt, throttleCrashed>>

\* The API process or its connection to Redis fails between the two commands.
ThrottleCrash(r) ==
  /\ ThrottleCrashAllowed
  /\ attempt[r] = "expire"
  /\ attempt' = [attempt EXCEPT ![r] = "idle"]
  /\ throttleCrashed' = TRUE
  /\ UNCHANGED <<count, expires, admitted>>

ThrottleNext ==
  \/ \E r \in Attempts : Increment(r) \/ SetExpiry(r) \/ ThrottleCrash(r)
  \/ WindowEnds

ThrottleSpec == ThrottleInit /\ [][ThrottleNext]_throttleVars
-----------------------------------------------------------------------------
(* Properties.                                                             *)

\* One window lets at most MAX_ATTEMPTS through, however they interleave.
WindowAdmitsAtMost == admitted <= MaxAttempts

\* "a soft, time-boxed limit": a key that has been counted up to the limit is
\* dropped again, unless a process died between INCR and EXPIRE - then it has
\* no time to live and stays for good.
LockoutEnds == count > MaxAttempts ~> count = 0 \/ throttleCrashed
=============================================================================
