-------------------------------- MODULE Otp --------------------------------
(***************************************************************************)
(* The one-time codes of one phone and purpose (auth-service,              *)
(* src/auth/services/otp.service.ts): no statement reads those of another. *)
(* save() of an entity is a SELECT of its row and an UPDATE of the columns *)
(* that differ from it, without a lock.                                    *)
(***************************************************************************)
EXTENDS Service, Attempts

CONSTANTS
  MaxOtps,        \* bound: the codes generated
  MaxOtpAttempts  \* MAX_OTP_ATTEMPTS

ASSUME OtpAssumption == MaxOtps \in Nat /\ MaxOtpAttempts \in Nat \ {0}

VARIABLE otp  \* table otps, in the order of createdAt

otpVars == <<job, otp>>

\* fresh: within the cooldown; valid: before expiresAt.  `tries` counts the
\* verifications that were answered.
OtpRow == [age : {"absent", "fresh", "valid", "expired"}, attempts : 0..MaxOtpAttempts,
           verified : BOOLEAN, tries : Nat]
NoOtp == [age |-> "absent", attempts |-> 0, verified |-> FALSE, tries |-> 0]

Otps == 1..MaxOtps

OtpJob ==
  [step : {"generate"}]
    \cup [step : {"select"}, otp : Otps, attempts : 1..MaxOtpAttempts, verified : BOOLEAN]
    \cup [step : {"update"}, otp : Otps, columns : SUBSET {"attempts", "verified"},
          attempts : 1..MaxOtpAttempts, verified : BOOLEAN]

OtpInit ==
  /\ AllIdle
  /\ otp = [o \in Otps |-> NoOtp]

-----------------------------------------------------------------------------
\* generate(): no code was created within the cooldown.
CheckCooldown(s) ==
  /\ IsIdle(s)
  /\ \A o \in Otps : otp[o].age # "fresh"
  /\ Goto(s, [step |-> "generate"])
  /\ UNCHANGED otp

\* generate(): save() of a new code.
GenerateOtp(s) ==
  /\ At(s, "generate")
  /\ \E o \in Otps :
       /\ otp[o].age = "absent"
       /\ \A p \in 1..(o - 1) : otp[p].age # "absent"
       /\ otp' = [otp EXCEPT ![o].age = "fresh"]
  /\ Return(s)

\* The newest code that is neither verified nor expired: what findOne() returns.
IsCurrent(o) ==
  LET usable(p) == otp[p].age \in {"fresh", "valid"} /\ ~otp[p].verified
  IN usable(o) /\ \A p \in Otps : p > o => ~usable(p)

\* Mutant: a code can be tried any number of times.
VerifyUnlimited(s, right) ==
  /\ IsIdle(s)
  /\ \E o \in Otps :
       /\ IsCurrent(o)
       /\ Goto(s, [step |-> "select", otp |-> o, verified |-> right,
                   attempts |-> otp[o].attempts + 1])
  /\ UNCHANGED otp

\* verify(): the current code, whose attempts are counted in memory.
VerifyOtp(s, right) ==
  /\ IsIdle(s)
  /\ \E o \in Otps :
       /\ IsCurrent(o) /\ otp[o].attempts < MaxOtpAttempts
       /\ Goto(s, [step |-> "select", otp |-> o, verified |-> right,
                   attempts |-> otp[o].attempts + 1])
  /\ UNCHANGED otp

\* save(): which columns differ from the row as it is now?
SelectOtp(s) ==
  /\ At(s, "select")
  /\ LET j == job[s]
         row == otp[j.otp]
     IN Goto(s, [step |-> "update", otp |-> j.otp, attempts |-> j.attempts,
                 verified |-> j.verified,
                 columns |-> {c \in {"attempts", "verified"} : j[c] # row[c]}])
  /\ UNCHANGED otp

\* save(): they are overwritten with the values in memory, a `verified` that
\* another verification has set in between included.
UpdateOtp(s) ==
  /\ At(s, "update")
  /\ LET j == job[s]
     IN otp' = [otp EXCEPT
          ![j.otp].attempts = IF "attempts" \in j.columns THEN j.attempts ELSE @,
          ![j.otp].verified = IF "verified" \in j.columns THEN j.verified ELSE @,
          ![j.otp].tries = @ + 1]
  /\ Return(s)

-----------------------------------------------------------------------------
\* Time passes the cooldown, then expiresAt.
AgeOtp(o) ==
  /\ otp[o].age \in {"fresh", "valid"}
  /\ otp' = [otp EXCEPT ![o].age = IF @ = "fresh" THEN "valid" ELSE "expired"]
  /\ UNCHANGED job

\* A query throws or the process stops.
AbandonOtp(s) ==
  /\ ~IsIdle(s)
  /\ Return(s)
  /\ UNCHANGED otp

OtpNext ==
  \/ \E o \in Otps : AgeOtp(o)
  \/ \E s \in Slots :
       \/ CheckCooldown(s) \/ GenerateOtp(s) \/ SelectOtp(s) \/ UpdateOtp(s) \/ AbandonOtp(s)
       \/ \E right \in BOOLEAN : VerifyOtp(s, right)

OtpSpec == OtpInit /\ [][OtpNext]_otpVars

-----------------------------------------------------------------------------
(* Properties.                                                             *)

\* The table and the locals of the handlers have their types.
OtpTypeOK ==
  /\ otp \in [Otps -> OtpRow]
  /\ job \in [Slots -> OtpJob \cup {Idle}]

\* Overlapping verifications overwrite each other's count of the attempts, but
\* they do not make a code one that can be tried forever: an attempt more than
\* the limit would let through as many answers.
TriesBounded ==
  \A o \in Otps : otp[o].tries < most[<<Cardinality(Slots), MaxOtpAttempts + 1>>]
=============================================================================
