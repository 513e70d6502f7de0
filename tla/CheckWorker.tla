----------------------------- MODULE CheckWorker -----------------------------
(***************************************************************************)
(* The background checks (api/check_worker.py, api/check_hook.py).  A save *)
(* answers at once and asks for a run; one worker thread waits for a quiet *)
(* moment, takes the newest request and recomputes the verdicts day by     *)
(* day, each day's written together (CheckService.batch).  Requests live   *)
(* in memory, the run is made in the name of whoever asked last, and a     *)
(* save whose answer is cut off or an error asks for none.                 *)
(***************************************************************************)
EXTENDS Integers

CONSTANTS Saver,       \* signed-in sessions that save data
          Check,       \* the checks of one day
          LastDay,     \* bound: days_to_check returns days 1 .. LastDay
          MaxSaves,    \* bound: saves
          MaxStops,    \* bound: stops of the program
          NoToken, NoRun

ASSUME CheckWorkerAssumption ==
    /\ LastDay \in Nat \ {0}
    /\ {MaxSaves, MaxStops} \subseteq Nat
    /\ NoToken \notin Saver

VARIABLES saved,      \* how many saves are committed
          post,      \* the save of each saver whose answer has not passed the hook, or 0
          signedIn,  \* savers whose session has not ended
          token,     \* CheckWorker._token
          quiet,     \* has _due passed?
          run,       \* the run going on, or NoRun
          verdict,   \* the save each stored verdict takes into account
          missed,    \* the newest save no run was made for, until a later run ends; or 0
          stops      \* how often the program stopped

checkVars == <<saved, post, signedIn, token, quiet, run, verdict, missed, stops>>

Day == 1 .. LastDay

RunRow == [token : Saver, valid : BOOLEAN, since : 0 .. MaxSaves, day : Day,
           got : SUBSET [check : Check, seen : 0 .. MaxSaves]]

ASSUME RunAssumption == NoRun \notin RunRow

NoPost == [u \in Saver |-> 0]

\* A commit; the answer is still to pass the middleware.
Save(u) ==
    /\ u \in signedIn /\ post[u] = 0
    /\ saved < MaxSaves
    /\ saved' = saved + 1
    /\ post' = [post EXCEPT ![u] = saved']
    /\ UNCHANGED <<signedIn, token, quiet, run, verdict, missed, stops>>

\* Bug: a request that comes during a run is taken for part of it.
RequestedWhenIdle(u) == IF run = NoRun THEN u ELSE token

\* The newest request replaces the one before.
Requested(u) == u

\* RunChecksAfterWrites.dispatch, CheckWorker.request.
Request(u) ==
    /\ post[u] # 0
    /\ post' = [post EXCEPT ![u] = 0]
    /\ token' = Requested(u)
    /\ quiet' = FALSE
    /\ UNCHANGED <<saved, signedIn, run, verdict, missed, stops>>

MissedUpTo(n) == missed' = IF n > missed THEN n ELSE missed

\* The request limit cancels the hook while the handler's thread goes on to
\* commit (LanGuard.__call__), or an error comes after a part is committed.
Dropped(u) ==
    /\ post[u] # 0
    /\ post' = [post EXCEPT ![u] = 0]
    /\ MissedUpTo(post[u])
    /\ UNCHANGED <<saved, signedIn, token, quiet, run, verdict, stops>>

\* Bug: the half second starts again when it is over.
QuietOverStartsAnew ==
    /\ token # NoToken /\ ~quiet
    /\ UNCHANGED checkVars

\* Half a second without a request.
QuietOver ==
    /\ token # NoToken /\ ~quiet
    /\ quiet' = TRUE
    /\ UNCHANGED <<saved, post, signedIn, token, run, verdict, missed, stops>>

\* The session ends: signed out, or run out of time.
SignOut(u) ==
    /\ u \in signedIn /\ post[u] = 0
    /\ signedIn' = signedIn \ {u}
    /\ UNCHANGED <<saved, post, token, quiet, run, verdict, missed, stops>>

\* The worker takes the request; since is the data it is sure to see.
TakeRequest ==
    /\ run = NoRun /\ token # NoToken /\ quiet
    /\ run' = [token |-> token, valid |-> FALSE, since |-> saved, day |-> 1, got |-> {}]
    /\ token' = NoToken
    /\ UNCHANGED <<saved, post, signedIn, quiet, verdict, missed, stops>>

\* validate_session raises for a session that has ended: no run.
Refused ==
    /\ run # NoRun /\ ~run.valid
    /\ run.token \notin signedIn
    /\ run' = NoRun
    /\ MissedUpTo(run.since)
    /\ UNCHANGED <<saved, post, signedIn, token, quiet, verdict, stops>>

Validated ==
    /\ run # NoRun /\ ~run.valid
    /\ run.token \in signedIn
    /\ run' = [run EXCEPT !.valid = TRUE]
    /\ UNCHANGED <<saved, post, signedIn, token, quiet, verdict, missed, stops>>

ReadSoFar == {r.check : r \in run.got}

\* Bug: verdicts are computed from what was read before the request.
FirstSeenBefore == 0

\* The session is opened for the run: nothing it reads is older than it.
FirstSeen == run.since

\* One check is computed.  Rows the session holds are not read again.
Compute(c) ==
    /\ run # NoRun /\ run.valid
    /\ c \notin ReadSoFar
    /\ \E v \in FirstSeen .. saved :
           run' = [run EXCEPT !.got = @ \cup {[check |-> c, seen |-> v]}]
    /\ UNCHANGED <<saved, post, signedIn, token, quiet, verdict, missed, stops>>

\* The verdicts collected for the day, written in one transaction.
Stored(d) ==
    [verdict EXCEPT ![d] = [c \in Check |->
        IF c \in ReadSoFar THEN (CHOOSE r \in run.got : r.check = c).seen ELSE @[c]]]

\* Bug: what is pending when the run ends is dropped with it.
TokenAfterRunNone == NoToken

TokenAfterRun == token

\* Bug: one day too many.
MoreDaysOneMore == run.day <= LastDay

MoreDays == run.day < LastDay

EndDay ==
    /\ run # NoRun /\ run.valid /\ ReadSoFar = Check
    /\ verdict' = Stored(run.day)
    /\ IF MoreDays
       THEN /\ run' = [run EXCEPT !.day = @ + 1, !.got = {}]
            /\ UNCHANGED <<token, missed>>
       ELSE /\ run' = NoRun
            /\ token' = TokenAfterRun
            /\ missed' = IF missed <= run.since THEN 0 ELSE missed
    /\ UNCHANGED <<saved, post, signedIn, quiet, stops>>

\* A check raises: what the day has collected is still written (the finally
\* of batch), or that write fails too; the rest of the run is dropped.
RunFails ==
    /\ run # NoRun /\ run.valid
    /\ verdict' \in {verdict, Stored(run.day)}
    /\ run' = NoRun
    /\ MissedUpTo(run.since)
    /\ UNCHANGED <<saved, post, signedIn, token, quiet, stops>>

\* The program stops and is started again: requests are kept nowhere.
Restart ==
    /\ stops < MaxStops
    /\ stops' = stops + 1
    /\ missed' = IF post # NoPost \/ token # NoToken \/ run # NoRun THEN saved ELSE missed
    /\ post' = NoPost /\ token' = NoToken /\ run' = NoRun
    /\ UNCHANGED <<saved, signedIn, quiet, verdict>>

CheckWorkerInit ==
    /\ saved = 0 /\ stops = 0
    /\ post = NoPost /\ signedIn = Saver
    /\ token = NoToken /\ quiet = FALSE
    /\ run = NoRun
    /\ verdict = [d \in Day |-> [c \in Check |-> 0]]
    /\ missed = 0

CheckWorkerStep ==
    TakeRequest \/ Refused \/ Validated \/ EndDay \/ \E c \in Check : Compute(c)

CheckWorkerNext ==
    \/ \E u \in Saver : Save(u) \/ Request(u) \/ Dropped(u) \/ SignOut(u)
    \/ QuietOver \/ RunFails \/ Restart
    \/ CheckWorkerStep

\* An answer that is not cut off reaches the hook, time passes, and the thread is never held up
\* for good.
CheckWorkerFairness ==
    /\ WF_checkVars(\E u \in Saver : Request(u))
    /\ WF_checkVars(QuietOver)
    /\ WF_checkVars(CheckWorkerStep)

CheckWorkerSpec ==
    CheckWorkerInit /\ [][CheckWorkerNext]_checkVars /\ CheckWorkerFairness

-----------------------------------------------------------------------------
(* Properties.                                                             *)

\* Every variable has the values the worker's fields may have.
CheckWorkerTypeOK ==
    /\ saved \in 0 .. MaxSaves /\ missed \in 0 .. saved /\ stops \in 0 .. MaxStops
    /\ post \in [Saver -> 0 .. saved] /\ signedIn \subseteq Saver
    /\ token \in Saver \cup {NoToken}
    /\ quiet \in BOOLEAN
    /\ run = NoRun \/ run \in RunRow
    /\ verdict \in [Day -> [Check -> 0 .. MaxSaves]]

UpTo(n) == \A d \in Day, c \in Check : verdict[d][c] >= n

AtRest == post = NoPost /\ token = NoToken /\ run = NoRun

\* When the worker says it is not busy (what the screen's "updating" sign
\* and the tests' wait_idle rely on) and every answer is out, each verdict
\* takes every save into account, unless the newest one is among those whose
\* run was lost: to the request limit, an error, a stop, a failing check or an
\* ended session.  A later run that ends makes up for the earlier losses.
IdleMeansCurrent == AtRest => UpTo(saved) \/ missed = saved

\* Verdicts are append-only and never follow older data than the verdict
\* before them, however saves and runs overlap.
VerdictsMoveForward ==
    [][\A d \in Day, c \in Check : verdict'[d][c] >= verdict[d][c]]_checkVars

\* Every save is taken into account in the end, with the same exceptions.
EverySaveIsChecked ==
    \A n \in 1 .. MaxSaves : saved >= n ~> UpTo(n) \/ missed >= n

\* What the checks are trusted with: they catch up with every save, say so only
\* when they have, and never go back.
ChecksKeepUp ==
    /\ []IdleMeansCurrent
    /\ VerdictsMoveForward
    /\ EverySaveIsChecked

\* check_hook.py:1: "checks run automatically when the relevant data is
\* saved".  Not for a save that outlives the request limit; and whoever asked
\* last may have signed out before the run: then it is dropped, with the
\* requests of the others that it had replaced.
SavedMeansChecked == stops = 0 /\ AtRest => UpTo(saved)

=============================================================================
