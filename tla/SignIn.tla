------------------------------- MODULE SignIn --------------------------------
(***************************************************************************)
(* One account: sign-in attempts and the lock screen                       *)
(* (app/services/auth_service.py), the lockout after too many of them,     *)
(* and what an administrator does to the account                           *)
(* (app/services/user_service.py).  The paths of the sign-in requests name *)
(* no record, so on the Main PC two of them work side by side, each with   *)
(* the row it read; a commit stores the columns it changed.                *)
(***************************************************************************)
EXTENDS Desks, Integers, Sequences, FiniteSets

CONSTANTS MaxFailedLoginAttempts,
          MaxLocks,        \* bound: lockouts
          MaxResetCodes,   \* bound: one-time codes given out
          MaxPasswords     \* bound: passwords set, the first included

ASSUME SignInAssumption ==
    /\ MaxFailedLoginAttempts \in Nat \ {0}
    /\ {MaxLocks, MaxResetCodes} \subseteq Nat
    /\ MaxPasswords \in Nat \ {0}

VARIABLES account,   \* the User row
          locks,     \* lockouts so far; lockout k has the time stamp k
          lapsed,    \* stamps older than LOCKOUT_DURATION_MINUTES
          given,     \* one-time codes given out so far
          codeUses,  \* how often each has set a password
          guesses,   \* wrong attempts since one was right or a lock was lifted
          chooser    \* history: who chose the password, by its number

attemptVars == <<locks, lapsed, guesses>>
signInVars == <<account, attemptVars, given, codeUses, chooser>>

NoStamp == 0
NoResetCode == 0

\* SQLAlchemy stores the columns whose value is not the one it loaded.
StoredRow(old, new) ==
    [f \in DOMAIN account |-> IF new[f] = old[f] THEN account[f] ELSE new[f]]

Lapsed(row) == row.locked /\ row.at \in lapsed

-----------------------------------------------------------------------------
(* Signing in, and unlocking the screen.                                   *)

\* The row is read; was the password or PIN right?
AttemptRead(s) ==
    /\ \E right \in BOOLEAN, purpose \in {"sign in", "unlock screen"} :
           Begin(s, [kind |-> purpose, key |-> NoRecord, right |-> right, row |-> account])
    /\ UNCHANGED signInVars

Attempts(s) == Runs(s, "sign in") \/ Runs(s, "unlock screen")

\* Bug: the lockout is lifted before its time.
MayLiftAlways(row) == row.locked

MayLift(row) == Lapsed(row)

\* Bug: the account stays locked, without a stamp.
LiftedStillLocked(row) == [row EXCEPT !.at = NoStamp, !.failed = 0]

Lifted(row) == [row EXCEPT !.locked = FALSE, !.at = NoStamp, !.failed = 0]

\* _clear_lockout, a commit of its own; the row is read again after it.
LiftLapsed(s) ==
    /\ Attempts(s)
    /\ LET row == job[s].row IN
           /\ MayLift(row)
           /\ account' = StoredRow(row, Lifted(row))
           /\ job' = [job EXCEPT ![s].row = account']
    /\ guesses' = 0
    /\ UNCHANGED <<mainPC, locks, lapsed, given, codeUses, chooser>>

\* Locked and not lapsed, or (when signing in) switched off: refused.
AttemptBlocked(s) ==
    /\ Attempts(s)
    /\ \/ job[s].row.locked /\ ~MayLift(job[s].row)
       \/ Runs(s, "sign in") /\ ~job[s].row.active
    /\ End(s)
    /\ UNCHANGED signInVars

Admitted(s) ==
    /\ Attempts(s)
    /\ ~job[s].row.locked
    /\ Runs(s, "sign in") => job[s].row.active

\* Bug: one attempt too many before the lockout.
LocksLate(n) == n > MaxFailedLoginAttempts

Locks(n) == n >= MaxFailedLoginAttempts

\* _record_failed_login.
AttemptFails(s) ==
    /\ Admitted(s) /\ ~job[s].right
    /\ LET row == job[s].row
           n == row.failed + 1
       IN  /\ Locks(n) => locks < MaxLocks
           /\ locks' = IF Locks(n) THEN locks + 1 ELSE locks
           /\ account' = StoredRow(row, [row EXCEPT !.failed = n,
                                         !.locked = Locks(n),
                                         !.at = IF Locks(n) THEN locks' ELSE @])
    /\ guesses' = guesses + 1
    /\ End(s)
    /\ UNCHANGED <<lapsed, given, codeUses, chooser>>

\* _record_successful_login; unlocking the screen resets the count only.
AttemptSucceeds(s) ==
    /\ Admitted(s) /\ job[s].right
    /\ LET row == job[s].row IN
           account' = StoredRow(row,
               IF Runs(s, "sign in")
               THEN [row EXCEPT !.failed = 0, !.locked = FALSE, !.at = NoStamp]
               ELSE [row EXCEPT !.failed = 0])
    /\ guesses' = 0
    /\ End(s)
    /\ UNCHANGED <<locks, lapsed, given, codeUses, chooser>>

\* LOCKOUT_DURATION_MINUTES pass.
Lapse ==
    /\ \E k \in (1 .. locks) \ lapsed : lapsed' = lapsed \cup {k}
    /\ UNCHANGED <<deskVars, account, locks, given, codeUses, guesses, chooser>>

-----------------------------------------------------------------------------
(* The administrator.                                                      *)

SetUserActive ==
    /\ AtOnce
    /\ account' = [account EXCEPT !.active = ~@]
    /\ UNCHANGED <<attemptVars, given, codeUses, chooser>>

\* unlock_user: the path names the account, the time stamp stays.
UnlockRead(s) ==
    /\ account.locked
    /\ Begin(s, [kind |-> "unlock", key |-> "account", row |-> account])
    /\ UNCHANGED signInVars

UnlockWrite(s) ==
    /\ Runs(s, "unlock")
    /\ LET row == job[s].row IN
           account' = StoredRow(row, [row EXCEPT !.locked = FALSE, !.failed = 0])
    /\ guesses' = 0
    /\ End(s)
    /\ UNCHANGED <<locks, lapsed, given, codeUses, chooser>>

\* A new code takes the place of the one before.
GenerateResetCode ==
    /\ AtOnce
    /\ given < MaxResetCodes
    /\ given' = given + 1
    /\ account' = [account EXCEPT !.code = given + 1]
    /\ UNCHANGED <<attemptVars, codeUses, chooser>>

\* reset_password_with_code, with the right code before its time is over.
UseCodeRead(s) ==
    /\ account.code # NoResetCode
    /\ Begin(s, [kind |-> "use code", key |-> NoRecord, row |-> account])
    /\ UNCHANGED signInVars

\* Bug: the code stays after it has worked.
CodeAfterUseKept(row) == row.code

CodeAfterUse(row) == NoResetCode

UseCodeWrite(s) ==
    /\ Runs(s, "use code")
    /\ LET row == job[s].row IN
           /\ codeUses[row.code] < Cardinality(Session)
           /\ Len(chooser) < MaxPasswords
           /\ account' = StoredRow(row, [row EXCEPT !.code = CodeAfterUse(row), !.must = FALSE,
                                         !.password = Len(chooser) + 1])
           /\ codeUses' = [codeUses EXCEPT ![row.code] = @ + 1]
    /\ chooser' = Append(chooser, "user")
    /\ End(s)
    /\ UNCHANGED <<attemptVars, given>>

-----------------------------------------------------------------------------
(* Passwords.                                                              *)

\* Bug: the administrator's password is as good as the user's own.
MustAfterResetKept(row) == row.must

MustAfterReset(row) == TRUE

\* reset_password, by an administrator: the path names the account.
ResetRead(s) ==
    /\ Len(chooser) < MaxPasswords
    /\ Begin(s, [kind |-> "reset", key |-> "account", row |-> account])
    /\ UNCHANGED signInVars

ResetWrite(s) ==
    /\ Runs(s, "reset") /\ Len(chooser) < MaxPasswords
    /\ LET row == job[s].row IN
           account' = StoredRow(row, [row EXCEPT !.password = Len(chooser) + 1,
                                      !.must = MustAfterReset(row)])
    /\ chooser' = Append(chooser, "administrator")
    /\ End(s)
    /\ UNCHANGED <<attemptVars, given, codeUses>>

\* change_own_password, with the current one: it names no record.
ChangeRead(s) ==
    /\ Len(chooser) < MaxPasswords
    /\ Begin(s, [kind |-> "change", key |-> NoRecord, row |-> account])
    /\ UNCHANGED signInVars

ChangeWrite(s) ==
    /\ Runs(s, "change") /\ Len(chooser) < MaxPasswords
    /\ LET row == job[s].row IN
           account' = StoredRow(row, [row EXCEPT !.password = Len(chooser) + 1, !.must = FALSE])
    /\ chooser' = Append(chooser, "user")
    /\ End(s)
    /\ UNCHANGED <<attemptVars, given, codeUses>>

SignInInit ==
    /\ account = [active |-> TRUE, locked |-> FALSE, at |-> NoStamp, failed |-> 0,
                  code |-> NoResetCode, password |-> 1, must |-> TRUE]
    /\ locks = 0 /\ lapsed = {}
    /\ given = 0 /\ codeUses = [k \in 1 .. MaxResetCodes |-> 0]
    /\ guesses = 0
    /\ chooser = <<"administrator">>

SignInNext ==
    \/ Lapse \/ SetUserActive \/ GenerateResetCode
    \/ \E s \in Session :
           \/ AttemptRead(s) \/ LiftLapsed(s) \/ AttemptBlocked(s)
           \/ AttemptFails(s) \/ AttemptSucceeds(s)
           \/ UnlockRead(s) \/ UnlockWrite(s)
           \/ UseCodeRead(s) \/ UseCodeWrite(s)
           \/ GiveUp(s) /\ UNCHANGED signInVars

\* The requests that set passwords, followed on their own.
PasswordNext ==
    \/ GenerateResetCode
    \/ \E s \in Session :
           \/ UseCodeRead(s) \/ UseCodeWrite(s)
           \/ ResetRead(s) \/ ResetWrite(s)
           \/ ChangeRead(s) \/ ChangeWrite(s)
           \/ GiveUp(s) /\ UNCHANGED signInVars

SignInSpec == DesksInit /\ SignInInit /\ [][SignInNext \/ PasswordNext]_<<deskVars, signInVars>>

-----------------------------------------------------------------------------
(* Properties.                                                             *)

\* The row has the values its columns allow.
SignInTypeOK ==
    /\ account \in [active : BOOLEAN, locked : BOOLEAN, at : 0 .. MaxLocks,
                    failed : 0 .. MaxFailedLoginAttempts, code : 0 .. MaxResetCodes,
                    password : DOMAIN chooser, must : BOOLEAN]
    /\ locks \in 0 .. MaxLocks /\ lapsed \subseteq 1 .. MaxLocks
    /\ given \in 0 .. MaxResetCodes

\* In the Qt window, MAX_FAILED_LOGIN_ATTEMPTS wrong attempts in a row lock the
\* account and no more than that are made, whatever passwords, PINs and
\* screen unlocks they were and whatever expired or was lifted between.
GuessesAreBounded ==
    ~mainPC => /\ guesses <= MaxFailedLoginAttempts
               /\ guesses = MaxFailedLoginAttempts => account.locked

\* In the Qt window an account that is locked stays so until 15 minutes are
\* over or an administrator unlocks it.
LockHolds ==
    [][~mainPC /\ account.locked /\ ~account'.locked =>
           account.at \in lapsed \/ \E s \in Session : Runs(s, "unlock")]_<<deskVars, signInVars>>

\* In the Qt window a one-time code sets one password.
ResetCodeOnce == ~mainPC => \A k \in DOMAIN codeUses : codeUses[k] <= 1

\* In the Qt window a password that an administrator chose is always to be
\* changed (TemporaryIsReplaced, below).
TemporaryInOneWindow ==
    ~mainPC /\ chooser[account.password] = "administrator" => account.must

\* In the Qt window every lockout runs out (LockCanExpire, below).
LockCanExpireInOneWindow == ~mainPC /\ account.locked => account.at # NoStamp

\* What the sign-in is trusted with: guessing ends in a lockout that holds and
\* runs out, a one-time code is used once, and a temporary password is not kept.
GuessingIsHeldOff ==
    /\ []GuessesAreBounded
    /\ []LockCanExpireInOneWindow
    /\ []ResetCodeOnce
    /\ []TemporaryInOneWindow
    /\ LockHolds

\* constants.py:628: a lockout "must EXPIRE".  An unlocked account keeps its
\* old time stamp; on the Main PC a right sign-in that read it then clears
\* the stamp that a wrong one, read beside it, has just set with the lock.
LockCanExpire == account.locked => account.at # NoStamp

\* user_service.py:164: "so the temporary password an admin just typed doesn't
\* become permanent by default".  On the Main PC a second reset that read the
\* account before its user changed the first temporary password stores a new
\* password and leaves must_change_password as the user has set it.
TemporaryIsReplaced == chooser[account.password] = "administrator" => account.must

=============================================================================
