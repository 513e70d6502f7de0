------------------------------- MODULE MCMainPC -------------------------------
(***************************************************************************)
(* The services that run on the Main PC beside the requests.  They share   *)
(* no state, so each behaviour follows one of them, chosen at the start;   *)
(* the PCs of the network are followed once from their pairing and once    *)
(* from their rows.  The writers are followed with all they wait for.       *)
(***************************************************************************)
EXTENDS CheckWorker, MailOutbox, Devices, Backups, WriteLock

CONSTANTS u1, u2, c1, c2, d1, d2, o1, o2, w1, w2

VARIABLE followed

MCSaver == {u1, u2}
MCCheck == {c1, c2}
MCDevice == {d1, d2}
MCOwner == {o1, o2}
MCWorker == {w1, w2}

mcVars == <<checkVars, mailVars, deviceVars, backupVars, vars, followed>>

MCInit ==
    /\ CheckWorkerInit /\ MailInit /\ DevicesInit /\ BackupsInit /\ Init
    /\ followed \in {"checks", "mail", "pairing", "rows", "backups", "writers"}

MCNext ==
    /\ UNCHANGED followed
    /\ \/ /\ followed = "checks" /\ CheckWorkerNext
          /\ UNCHANGED <<mailVars, deviceVars, backupVars, vars>>
       \/ /\ followed = "mail" /\ MailNext
          /\ UNCHANGED <<checkVars, deviceVars, backupVars, vars>>
       \/ /\ followed = "pairing" /\ (PairingNext \/ RestartMainPC)
          /\ UNCHANGED <<checkVars, mailVars, backupVars, vars>>
       \/ /\ followed = "rows" /\ (RowsNext \/ RestartMainPC)
          /\ UNCHANGED <<checkVars, mailVars, backupVars, vars>>
       \/ /\ followed = "backups" /\ BackupsNext
          /\ UNCHANGED <<checkVars, mailVars, deviceVars, vars>>
       \/ /\ followed = "writers" /\ Next
          /\ UNCHANGED <<checkVars, mailVars, deviceVars, backupVars>>

\* The fairness of the modules, each for the behaviours that follow it.
MCFairness ==
    /\ WF_checkVars(followed = "checks" /\ \E u \in Saver : Request(u))
    /\ WF_checkVars(followed = "checks" /\ QuietOver)
    /\ WF_checkVars(followed = "checks" /\ CheckWorkerStep)
    /\ WF_mailVars(followed = "mail" /\ SenderStep)
    /\ \A d \in MailDay : WF_mailVars(followed = "mail" /\ RetryDue(d))
    /\ WF_deviceVars(followed = "pairing" /\ StartListener)
    /\ \A w \in Code :
           WF_deviceVars(followed = "pairing" /\ (Watch(w) \/ WatchStops(w)))
    /\ WF_backupVars(followed = "backups" /\ SchedulerStep)
    /\ \A w \in Worker : WF_vars(followed = "writers" /\ Proceed(w))

MCSpec == MCInit /\ [][MCNext]_mcVars /\ MCFairness

\* The files, rows and threads of every service keep their types.
MainPCTypeOK ==
    /\ CheckWorkerTypeOK /\ MailTypeOK /\ DevicesTypeOK /\ BackupsTypeOK

\* What the write path is trusted with: every operation ends, and a unit of
\* work is seen whole or not at all (app/repositories/base.py unit_of_work).
OperationsEndWhole ==
    /\ EveryOperationEnds
    /\ UnitOfWorkIsOneCommit

=============================================================================
