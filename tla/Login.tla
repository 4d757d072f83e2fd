------------------------------- MODULE Login -------------------------------
(***************************************************************************)
(* Sign-in with a password and the lock of an account (auth-service,       *)
(* src/auth/auth.service.ts), for one user.  The handlers go on to Otp and *)
(* RefreshTokens, whose tables they share no column with.  Whether a       *)
(* password or code is right is a choice of the environment.               *)
(***************************************************************************)
EXTENDS Service, Attempts

CONSTANT MaxFailedAttempts  \* MAX_FAILED_ATTEMPTS

ASSUME LoginAssumption == MaxFailedAttempts \in Nat \ {0}

VARIABLE account  \* the user's row of table users

loginVars == <<job, account>>

\* `locked`: lockedUntil is in the future; `tries` counts the wrong passwords
\* that were answered since the account was last locked or its count cleared.
Statuses == {"absent", "PENDING_VERIFICATION", "ACTIVE", "SUSPENDED"}
Account == [status : Statuses, failed : 0..MaxFailedAttempts, locked : BOOLEAN, tries : Nat]
NoAccount == [status |-> "absent", failed |-> 0, locked |-> FALSE, tries |-> 0]

LoginJob ==
  [step : {"create", "find", "activate", "reset"}]
    \cup [step : {"compare"}, failed : 0..MaxFailedAttempts]
    \cup [step : {"status"}, pending : BOOLEAN]

LoginInit ==
  /\ AllIdle
  /\ account = NoAccount

-----------------------------------------------------------------------------
\* register(): neither the email nor the phone is known; then bcrypt.
Register(s) ==
  /\ IsIdle(s)
  /\ account.status = "absent"
  /\ Goto(s, [step |-> "create"])
  /\ UNCHANGED account

\* register(): save(); the unique columns refuse a second row.
CreateAccount(s) ==
  /\ At(s, "create")
  /\ account' = IF account.status = "absent"
                THEN [account EXCEPT !.status = "PENDING_VERIFICATION"] ELSE account
  /\ Return(s)

\* login(): checkAccountLock() reads the row once ...
CheckAccountLock(s) ==
  /\ IsIdle(s)
  /\ account.status # "absent" /\ ~account.locked
  /\ Goto(s, [step |-> "find"])
  /\ UNCHANGED account

\* ... and login() again, for the comparison and the count.
FindAccount(s) ==
  /\ At(s, "find")
  /\ IF account.status = "SUSPENDED" THEN Return(s)
     ELSE Goto(s, [step |-> "compare", failed |-> account.failed])
  /\ UNCHANGED account

\* Bound: counts from the limit on make no difference.
Capped(n) == IF n < MaxFailedAttempts THEN n ELSE MaxFailedAttempts

\* Mutant: the account is locked one attempt late.
HandleFailedLoginLate(s) ==
  /\ At(s, "compare")
  /\ LET n == job[s].failed + 1
         lock == n > MaxFailedAttempts
     IN account' = [account EXCEPT !.failed = Capped(n), !.locked = @ \/ lock,
                                   !.tries = IF lock THEN 0 ELSE @ + 1]
  /\ Return(s)

\* A wrong password: handleFailedLogin() counts from the row that was read.
HandleFailedLogin(s) ==
  /\ At(s, "compare")
  /\ LET n == job[s].failed + 1
         lock == n >= MaxFailedAttempts
     IN account' = [account EXCEPT !.failed = Capped(n), !.locked = @ \/ lock,
                                   !.tries = IF lock THEN 0 ELSE @ + 1]
  /\ Return(s)

\* The right password: the count is cleared if it was read as positive;
\* `lockedUntil: undefined` is not a column of the UPDATE.
LoginSucceeds(s) ==
  /\ At(s, "compare")
  /\ account' = IF job[s].failed > 0 THEN [account EXCEPT !.failed = 0, !.tries = 0]
                ELSE account
  /\ Return(s)

\* verifyPhone(): the code is verified; the row is found ...
VerifyPhone(s) ==
  /\ IsIdle(s)
  /\ account.status # "absent"
  /\ Goto(s, [step |-> "activate"])
  /\ UNCHANGED account

\* ... and becomes ACTIVE whatever it was.
Activate(s) ==
  /\ At(s, "activate")
  /\ account' = [account EXCEPT !.status = "ACTIVE"]
  /\ Return(s)

\* verifyPhoneLogin(): the row found after the code was verified ...
VerifyPhoneLogin(s) ==
  /\ IsIdle(s)
  /\ account.status # "absent"
  /\ Goto(s, [step |-> "status", pending |-> account.status = "PENDING_VERIFICATION"])
  /\ UNCHANGED account

\* ... becomes ACTIVE if it was pending.
SavePhoneLogin(s) ==
  /\ At(s, "status")
  /\ account' = IF job[s].pending THEN [account EXCEPT !.status = "ACTIVE"] ELSE account
  /\ Return(s)

\* confirmPasswordReset(): the code is verified, the row found; then bcrypt.
ConfirmPasswordReset(s) ==
  /\ IsIdle(s)
  /\ account.status # "absent"
  /\ Goto(s, [step |-> "reset"])
  /\ UNCHANGED account

\* The password and the count are written, not the lock.
SavePassword(s) ==
  /\ At(s, "reset")
  /\ account' = [account EXCEPT !.failed = 0, !.tries = 0]
  /\ Return(s)

-----------------------------------------------------------------------------
\* LOCK_DURATION_MINUTES have passed; the count stays.
LockExpires ==
  /\ account.locked
  /\ account' = [account EXCEPT !.locked = FALSE]
  /\ UNCHANGED job

\* The code never writes SUSPENDED: an operator does, in the database.
Suspend ==
  /\ account.status # "absent"
  /\ account' = [account EXCEPT !.status = "SUSPENDED"]
  /\ UNCHANGED job

\* A query throws or the process stops.
AbandonLogin(s) ==
  /\ ~IsIdle(s)
  /\ Return(s)
  /\ UNCHANGED account

LoginNext ==
  \/ LockExpires \/ Suspend
  \/ \E s \in Slots :
       \/ Register(s) \/ CreateAccount(s) \/ AbandonLogin(s)
       \/ CheckAccountLock(s) \/ FindAccount(s) \/ HandleFailedLogin(s) \/ LoginSucceeds(s)
       \/ VerifyPhone(s) \/ Activate(s) \/ VerifyPhoneLogin(s) \/ SavePhoneLogin(s)
       \/ ConfirmPasswordReset(s) \/ SavePassword(s)

LoginSpec == LoginInit /\ [][LoginNext]_loginVars

-----------------------------------------------------------------------------
(* Properties.                                                             *)

\* The row and the locals of the handlers have their types.
LoginTypeOK ==
  /\ account \in Account
  /\ job \in [Slots -> LoginJob \cup {Idle}]

\* Logins that overlap lose failed attempts, but however often they do the
\* account is locked before passwords can be tried without end.
LockoutHolds == account.tries < most[<<Cardinality(Slots), MaxFailedAttempts>>]
=============================================================================
