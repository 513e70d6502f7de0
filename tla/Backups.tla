------------------------------ MODULE Backups -------------------------------
(***************************************************************************)
(* Backups and restores (app/database/backup.py): the file taken when the  *)
(* program starts (connection.init_db), those asked for on the Backups     *)
(* screen (backup_service.py) and, on the Main PC, those of the scheduler's*)
(* thread with its nightly run (api/lan/backup_scheduler.py,               *)
(* system_health_service.py).  A file is on the disk, empty, before it is  *)
(* filled, and a stop in between leaves it there.                          *)
(***************************************************************************)
EXTENDS Integers, Sequences

CONSTANTS LastNight,     \* bound: days 1 .. LastNight
          MaxKept,       \* bound: saves
          MaxOrders,     \* bound: backups and restores asked for
          MaxMishaps     \* bound: backups that get too old, files and copies
                         \* that go wrong, stops of the program, together

ASSUME BackupsAssumption ==
    /\ LastNight \in Nat \ {0}
    /\ {MaxKept, MaxOrders, MaxMishaps} \subseteq Nat

VARIABLES onMainPC,           \* does the scheduler's thread run?
          folder,             \* is there a folder for copies?
          encrypted,          \* is there a passphrase for them?
          night,              \* the date
          up,                 \* does the program run?
          kept,               \* number of saves committed so far
          live,               \* the database: its saves, the date of its last
                              \* HealthRun "integrity", is the file sound?
          files,              \* the files in backups/, oldest first
          stale,              \* is the newest older than the interval?
          task,               \* what the scheduler and a request are doing
          copy,               \* the newest off-device copy: of which file, its
                              \* state, did its last HealthRun say "ok"?
          checked, copied,    \* nightly runs begun tonight; the last night whose
                              \* run ended with a copy's outcome
          orders, mishaps, downs

backupVars == <<onMainPC, folder, encrypted, night, up, kept, live, files, stale, task,
                copy, checked, copied, orders, mishaps, downs>>
world == <<onMainPC, folder, encrypted>>
offDevice == <<copy, copied>>

Night == 1 .. LastNight
Party == {"scheduler", "request", "startup"}
Nobody == [at |-> "idle"]
Started == [p \in Party |-> Nobody]
Empty == [state |-> "empty", holds |-> {}, noted |-> 0]
Whole == [state |-> "whole", holds |-> live.saves, noted |-> live.noted]
Damaged == [Empty EXCEPT !.state = "damaged"]
Newest == Len(files)

\* A step of those MaxMishaps bounds.
Mishap == mishaps < MaxMishaps /\ mishaps' = mishaps + 1

-----------------------------------------------------------------------------
(* The night and the users' saves.                                         *)

Midnight ==
    /\ night < LastNight
    /\ night' = night + 1
    /\ checked' = 0
    /\ UNCHANGED <<world, up, kept, live, files, stale, task, offDevice, orders, mishaps,
                   downs>>

NewestGetsOld ==
    /\ files # <<>> /\ ~stale
    /\ Mishap
    /\ stale' = TRUE
    /\ UNCHANGED <<world, night, up, kept, live, files, task, offDevice, checked, orders, downs>>

\* A request that saves something; on a single PC not while another one runs.
Keep ==
    /\ up /\ kept < MaxKept
    /\ onMainPC \/ task["request"] = Nobody
    /\ kept' = kept + 1
    /\ live' = [live EXCEPT !.saves = @ \cup {kept + 1}]
    /\ UNCHANGED <<world, night, up, files, stale, task, offDevice, checked, orders, mishaps, downs>>

-----------------------------------------------------------------------------
(* create_backup.                                                          *)

\* Bug: a backup is always due.
BackupDueAlways(old) == TRUE

\* Bug: only the first backup is ever due.
BackupDueFirst(old) == files = <<>>

\* should_take_scheduled_backup.
BackupDue(old) == files = <<>> \/ old

\* sqlite3.connect makes the file, which is then the newest.
BeginFile ==
    /\ files' = Append(files, Empty)
    /\ stale' = FALSE

\* The live database is copied into the file of party p and the file is
\* checked: the disk may be full, the copy or the database may be damaged.
FileEnds(no, fine) ==
    /\ fine => live.sound
    /\ \E f \in IF fine THEN {Whole} ELSE IF live.sound THEN {Empty, Damaged} ELSE {Damaged} :
           files' = [files EXCEPT ![no] = f]
    /\ IF fine \/ ~live.sound THEN UNCHANGED mishaps ELSE Mishap

-----------------------------------------------------------------------------
(* The scheduler's thread.                                                 *)

\* Bug: the date of the row is taken in UTC, that of now is not.
RanTodayInUTC(noted) == noted = night - 1 /\ noted # 0

RanToday(noted) == noted = night

\* tick, after nightly_check_hour: once a day run_integrity stores its row (and
\* run_audit_chain its own), and the rest of run_all follows.
NightlyTick ==
    /\ up /\ onMainPC /\ task["scheduler"] = Nobody
    /\ ~RanToday(live.noted)
    /\ live' = [live EXCEPT !.noted = night]
    /\ checked' = checked + 1
    /\ task' = [task EXCEPT !["scheduler"] = [at |-> "due", of |-> night]]
    /\ UNCHANGED <<world, night, up, kept, files, stale, offDevice, orders, mishaps, downs>>

\* tick before that hour or after the night's run; the hour is left open.
MinuteTick ==
    /\ up /\ onMainPC /\ task["scheduler"] = Nobody
    /\ BackupDue(stale)
    /\ BeginFile
    /\ task' = [task EXCEPT !["scheduler"] = [at |-> "filling", of |-> 0, no |-> Newest + 1]]
    /\ UNCHANGED <<world, night, up, kept, live, offDevice, checked, orders, mishaps, downs>>

\* Bug: the night's run ends when no backup was taken.
AfterBackupIfTaken(of, taken) ==
    IF taken /\ of # 0 THEN [at |-> "offsite", of |-> of] ELSE Nobody

\* run_all goes on to run_offsite whatever run_backup_if_due did.
AfterBackup(of, taken) ==
    IF of # 0 THEN [at |-> "offsite", of |-> of] ELSE Nobody

\* run_backup_if_due of the night's run: the look and the start of the file.
SchedulerLooks ==
    LET t == task["scheduler"]
    IN  /\ t.at = "due"
        /\ IF BackupDue(stale)
           THEN /\ BeginFile
                /\ task' = [task EXCEPT !["scheduler"] =
                                [at |-> "filling", of |-> t.of, no |-> Newest + 1]]
           ELSE /\ task' = [task EXCEPT !["scheduler"] = AfterBackup(t.of, FALSE)]
                /\ UNCHANGED <<files, stale>>
        /\ UNCHANGED <<world, night, up, kept, live, offDevice, checked, orders, mishaps, downs>>

SchedulerFills ==
    LET t == task["scheduler"]
    IN  /\ t.at = "filling"
        /\ \E fine \in BOOLEAN :
               /\ FileEnds(t.no, fine)
               /\ task' = [task EXCEPT !["scheduler"] = AfterBackup(t.of, fine)]
        /\ UNCHANGED <<world, night, up, kept, live, stale, offDevice, checked, orders, downs>>

\* run_offsite stores no outcome where no folder is set up.  (A file there
\* always is: the program has not started without one.)
NoFolder ==
    /\ task["scheduler"].at = "offsite" /\ ~folder
    /\ task' = [task EXCEPT !["scheduler"] = Nobody]
    /\ UNCHANGED <<world, night, up, kept, live, files, stale, offDevice, checked, orders, mishaps, downs>>

\* An encrypted copy of the newest file that is there already is taken as it is.
CopyThere == encrypted /\ copy.no = Newest

\* run_offsite writes the copy of the newest file, whatever state that is in.
CopyOut ==
    LET t == task["scheduler"]
    IN  /\ t.at = "offsite" /\ folder /\ ~CopyThere
        /\ \E fine \in BOOLEAN :
               /\ IF fine THEN UNCHANGED mishaps ELSE Mishap
               /\ copy' = [no |-> Newest, said |-> FALSE,
                           state |-> IF fine THEN files[Newest].state ELSE "damaged"]
        /\ task' = [task EXCEPT !["scheduler"] = [at |-> "proving", of |-> t.of]]
        /\ UNCHANGED <<world, night, up, kept, live, files, stale, copied, checked, orders, downs>>

\* The outcome of the night's copy is stored, and the pass is over.
CopySaid(ok) ==
    /\ copy' = [copy EXCEPT !.said = ok]
    /\ copied' = task["scheduler"].of
    /\ task' = [task EXCEPT !["scheduler"] = Nobody]
    /\ UNCHANGED <<world, night, up, kept, live, files, stale, checked, orders, mishaps, downs>>

\* The copy is read back (decrypted first) before it is called one ...
CopyProved == task["scheduler"].at = "proving" /\ CopySaid(copy.state # "damaged")

\* ... unless it was there.
CopySkipped == task["scheduler"].at = "offsite" /\ folder /\ CopyThere /\ CopySaid(TRUE)

-----------------------------------------------------------------------------
(* Requests of the Backups screen.                                         *)

\* A manual backup (of = 0), or the safety backup before file "of" is restored.
OrderBackup(of) ==
    /\ up /\ task["request"] = Nobody
    /\ orders < MaxOrders
    /\ orders' = orders + 1
    /\ BeginFile
    /\ task' = [task EXCEPT !["request"] = [at |-> "filling", of |-> of, no |-> Newest + 1]]
    /\ UNCHANGED <<world, night, up, kept, live, offDevice, checked, mishaps, downs>>

\* Bug: a failed safety backup is only logged.
MayOverwriteAnyway(of, fine) == of # 0

\* create_backup raises when its file does not pass.
MayOverwrite(of, fine) == of # 0 /\ fine

RequestFills ==
    LET t == task["request"]
    IN  /\ t.at = "filling"
        /\ \E fine \in BOOLEAN :
               /\ FileEnds(t.no, fine)
               /\ task' = [task EXCEPT !["request"] =
                               IF MayOverwrite(t.of, fine) THEN [at |-> "restoring", of |-> t.of]
                               ELSE Nobody]
        /\ UNCHANGED <<world, night, up, kept, live, stale, offDevice, checked, orders, downs>>

ContentOf(f) == [saves |-> f.holds, noted |-> f.noted, sound |-> f.state # "damaged"]

\* restore_backup: the chosen file is not looked at.
Restore ==
    LET t == task["request"]
    IN  /\ t.at = "restoring"
        /\ live' = ContentOf(files[t.of])
        /\ task' = [task EXCEPT !["request"] = Nobody]
        /\ UNCHANGED <<world, night, up, kept, files, stale, offDevice, checked, orders, mishaps,
                       downs>>

-----------------------------------------------------------------------------
(* The program stops and starts.                                           *)

\* What was being done is lost; a file or copy just begun stays as it is.
Down ==
    /\ up \/ task["startup"] # Nobody
    /\ Mishap
    /\ downs' = downs + 1
    /\ up' = FALSE
    /\ task' = Started
    /\ UNCHANGED <<world, night, kept, live, files, stale, offDevice, checked, orders>>

\* init_db takes a backup before it migrates the schema, or when one is due.
InitDb(pending) ==
    /\ ~up /\ task["startup"] = Nobody
    /\ IF pending \/ BackupDue(stale)
       THEN /\ BeginFile
            /\ task' = [task EXCEPT !["startup"] = [at |-> "filling", no |-> Newest + 1]]
            /\ UNCHANGED up
       ELSE up' = TRUE /\ UNCHANGED <<files, stale, task>>
    /\ UNCHANGED <<world, night, kept, live, offDevice, checked, orders, mishaps, downs>>

\* A file that fails its check is logged (OSError); an error while it is
\* written (sqlite3.Error) is not caught and ends the program.
StartFills ==
    LET t == task["startup"]
    IN  /\ t.at = "filling"
        /\ \E fine \in BOOLEAN : FileEnds(t.no, fine)
        /\ up' = (files'[t.no].state # "empty")
        /\ downs' = IF up' THEN downs ELSE downs + 1
        /\ task' = [task EXCEPT !["startup"] = Nobody]
        /\ UNCHANGED <<world, night, kept, live, stale, offDevice, checked, orders>>

\* "lan promote" (api/lan/promote.py) on a Main PC that is down: the file is
\* checked, and what was there before is overwritten.
Promote(n) ==
    /\ onMainPC /\ ~up /\ task["startup"] = Nobody
    /\ files[n].state # "damaged"
    /\ live' = ContentOf(files[n])
    /\ UNCHANGED <<world, night, up, kept, files, stale, task, offDevice, checked, orders, mishaps,
                   downs>>

BackupsInit ==
    /\ onMainPC \in BOOLEAN /\ folder \in {FALSE, onMainPC} /\ encrypted \in {FALSE, folder}
    /\ night = 1
    /\ up = FALSE
    /\ kept = 0
    /\ live = [saves |-> {}, noted |-> 0, sound |-> TRUE]
    /\ files = <<>> /\ stale = FALSE
    /\ task = Started
    /\ copy = [no |-> 0, state |-> "empty", said |-> FALSE]
    /\ checked = 0 /\ copied = 0
    /\ orders = 0 /\ mishaps = 0 /\ downs = 0

SchedulerStep ==
    \/ NightlyTick \/ MinuteTick \/ SchedulerLooks \/ SchedulerFills
    \/ NoFolder \/ CopyOut \/ CopyProved \/ CopySkipped

BackupsNext ==
    \/ Midnight \/ NewestGetsOld \/ Keep
    \/ SchedulerStep
    \/ \E of \in 0 .. Newest : OrderBackup(of)
    \/ RequestFills \/ Restore
    \/ Down \/ StartFills \/ \E pending \in BOOLEAN : InitDb(pending)
    \/ \E n \in 1 .. Newest : Promote(n)

\* The scheduler's thread runs as long as the program does.
BackupsFairness == WF_backupVars(SchedulerStep)

BackupsSpec == BackupsInit /\ [][BackupsNext]_backupVars /\ BackupsFairness

-----------------------------------------------------------------------------
(* Properties.                                                             *)

\* The files, copies and parties have the values they may have, and backups/
\* holds no more files than were asked for or due.
BackupsTypeOK ==
    /\ {onMainPC, folder, encrypted, up, stale} \subseteq BOOLEAN
    /\ night \in Night /\ kept \in 0 .. MaxKept
    /\ live.saves \subseteq 1 .. kept /\ live.noted \in 0 .. night /\ live.sound \in BOOLEAN
    /\ Newest <= 1 + MaxOrders + MaxMishaps
    /\ \A n \in 1 .. Newest :
           /\ files[n].state \in {"empty", "whole", "damaged"}
           /\ files[n].holds \subseteq 1 .. kept
    /\ \A p \in Party : task[p].at \in {"idle", "due", "filling", "offsite", "proving", "restoring"}
    /\ copy.no \in 0 .. Newest /\ copied \in 0 .. night

\* Everything saved so far is in the database or in a whole backup.
NothingLost ==
    1 .. kept \subseteq
        live.saves \cup UNION {files[n].holds : n \in {m \in 1 .. Newest : files[m].state = "whole"}}

\* recovery-guide.md:24, as far as it holds: where requests run one after the
\* other no restore loses a save, whatever file is chosen, whatever goes wrong
\* and wherever the program stops.
RestoreIsRecoverable == ~onMainPC => NothingLost

\* backup_scheduler.py:4: "Once a night".  Only a restore (or a promotion while the
\* program is down), which takes the row of that run with it, makes it run again.
OnceANight == checked <= 1 + orders + downs

\* A Main PC that runs does not stay without a recent backup.
BackupComesInTheEnd == (onMainPC /\ up /\ stale) ~> (~stale \/ ~up)

\* A night's run that began ends with an outcome for the off-device copy, where
\* there is a folder for it, unless the program stops.
NightEndsWithCopy ==
    \A d \in Night : (folder /\ task["scheduler"].at = "due" /\ task["scheduler"].of = d)
                        ~> (copied = d \/ downs > 0)

\* What the backups are trusted with: there is a recent one, checked and copied
\* each night once, and a restore loses nothing.
BackupsAreThere ==
    /\ []RestoreIsRecoverable
    /\ []OnceANight
    /\ BackupComesInTheEnd
    /\ NightEndsWithCopy

-----------------------------------------------------------------------------
(* Statements that do not hold (see README.md).                            *)

\* recovery-guide.md:24 on the Main PC ("even a restore chosen in error is itself
\* recoverable"): others save between the safety backup and the restore; and
\* promote.py:5 ("keeps a safety copy of whatever was there").
NothingLostOnMainPC == NothingLost

\* administrator-guide.md:82: the alert "catches every cause: ... or a crash
\* before the write completed".  The file such a crash leaves is the newest one.
RecentMeansWhole ==
    files # <<>> /\ ~stale /\ (\A p \in Party : task[p] = Nobody) => files[Newest].state = "whole"

\* system_health_service.py: "prove the copy can be read back before calling it
\* a backup".  A copy that failed the proof is taken as done the next night.
SaidMeansProven ==
    copy.said => copy.state # "damaged"

\* connection.py: "A failure here must never block the app from starting".
StartIsNeverBlocked == [][StartFills => up']_backupVars

=============================================================================
