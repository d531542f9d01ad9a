-------------------------------- MODULE Totp --------------------------------
(***************************************************************************)
(* The codes of the second factor: totp.util.ts.  A secret is made of      *)
(* random bytes and kept in base32; the owner's authenticator decodes the  *)
(* same text, counts time steps by its own clock, and the code it shows is *)
(* typed in some time later and verified by the clock of the server.       *)
(*                                                                         *)
(* The truncated HMAC of a counter is the pair of secret and counter: that *)
(* two counters have the same six digits by chance is left out.            *)
(***************************************************************************)
EXTENDS Integers, Sequences

CONSTANTS
  SecretBytes,  \* the secrets that may be drawn, sequences of bytes
  TimeStep,     \* timeStepSeconds
  Drift,        \* how far the authenticator's clock may be off
  LastSecond    \* bound on the clock

ASSUME TotpAssumption ==
  /\ SecretBytes \subseteq Seq(0..255)
  /\ TimeStep \in Nat \ {0} /\ Drift \in Nat /\ LastSecond \in Nat

Window == 1

VARIABLES
  secretBytes,  \* randomBytes
  secretText,   \* users.two_factor_secret, a sequence of digits of base 32
  now,          \* the server's clock
  ahead,        \* how far the authenticator's clock is ahead
  typed,        \* [code, at]: the code typed, and when it was shown, or NoCode
  verdict       \* "none", "accepted" or "refused": of the code by now

totpVars == <<secretBytes, secretText, now, ahead, typed, verdict>>

-----------------------------------------------------------------------------
(* base32Encode and base32Decode.                                          *)

PowerOfTwo == <<1, 2, 4, 8, 16, 32, 64, 128, 256>>
\* toString(2), padded, and parseInt(.., 2).
Bits(n, width) == [i \in 1..width |-> (n \div PowerOfTwo[width - i + 1]) % 2]
Value(bits, width) ==
  CHOOSE n \in 0..PowerOfTwo[width + 1] - 1 : Bits(n, width) = bits
AllBits(digits, width) ==
  [j \in 1..width * Len(digits) |->
     Bits(digits[(j - 1) \div width + 1], width)[((j - 1) % width) + 1]]
\* The first n digits of the given width; bits that are missing are 0.
Regroup(bits, width, n) ==
  [k \in 1..n |->
     Value([i \in 1..width |->
       LET at == width * (k - 1) + i IN IF at <= Len(bits) THEN bits[at] ELSE 0], width)]

\* Mutant: the bits that do not fill a digit are dropped.
FullDigits(bits) == Len(bits) \div 5
\* The last chunk is padded.
DigitsFor(bits) == (Len(bits) + 4) \div 5

Base32Encode(bytes) == LET bits == AllBits(bytes, 8) IN Regroup(bits, 5, DigitsFor(bits))
Base32Decode(text) == LET bits == AllBits(text, 5) IN Regroup(bits, 8, Len(bits) \div 8)

-----------------------------------------------------------------------------
Hotp(secret, counter) == [secret |-> secret, counter |-> counter]
CounterAt(clock) == clock \div TimeStep
NoCode == [code |-> Hotp(<<>>, 0), at |-> 0]

TotpTypeOK ==
  /\ secretBytes \in SecretBytes
  /\ now \in 0..LastSecond
  /\ ahead \in -Drift..Drift
  /\ typed.at \in 0..LastSecond
  /\ verdict \in {"none", "accepted", "refused"}

\* enableTwoFactor has shown the secret; the clock is past the first steps.
TotpInit ==
  /\ secretBytes \in SecretBytes
  /\ secretText = Base32Encode(secretBytes)
  /\ now = 0 /\ ahead \in -Drift..Drift
  /\ typed = NoCode /\ verdict = "none"

Tick ==
  /\ now < LastSecond
  /\ now' = now + 1 /\ verdict' = "none"
  /\ UNCHANGED <<secretBytes, secretText, ahead, typed>>

\* The authenticator is not part of the code; it follows the same standard.
TypeCode ==
  /\ now + ahead >= 0
  /\ typed' = [code |-> Hotp(Base32Decode(secretText), CounterAt(now + ahead)), at |-> now]
  /\ verdict' = "none"
  /\ UNCHANGED <<secretBytes, secretText, now, ahead>>

\* Mutant: only the steps up to the current one are tried.
PastCounters == CounterAt(now) - Window .. CounterAt(now)
Counters == CounterAt(now) - Window .. CounterAt(now) + Window

VerifyTotp ==
  /\ typed # NoCode
  /\ verdict' = IF \E counter \in Counters : typed.code = Hotp(Base32Decode(secretText), counter)
                THEN "accepted" ELSE "refused"
  /\ UNCHANGED <<secretBytes, secretText, now, ahead, typed>>

TotpNext == Tick \/ TypeCode \/ VerifyTotp
TotpSpec == TotpInit /\ [][TotpNext]_totpVars
-----------------------------------------------------------------------------
(* Properties.                                                             *)

\* The text a secret is kept as stands for its bytes, however many they are,
\* and has digits of base 32 only.
SecretsSurviveEncoding ==
  /\ Base32Decode(secretText) = secretBytes
  /\ \A k \in DOMAIN secretText : secretText[k] \in 0..31

\* How old a code is by the server's clock; negative when the authenticator is
\* ahead.
AgeOfCode == now - (typed.at + ahead)

\* "Accepts the current time step and one step of clock drift on either side":
\* a code is accepted while drift and the time it took to type together are at
\* most a step, wherever in a step either clock is; and whoever finds one two
\* steps later has nothing.
CodesLiveOneStep ==
  /\ verdict = "refused" => AgeOfCode \notin -TimeStep..TimeStep
  /\ verdict = "accepted" => AgeOfCode \in 1 - 2 * TimeStep .. 2 * TimeStep - 1
=============================================================================
