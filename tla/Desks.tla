-------------------------------- MODULE Desks --------------------------------
(***************************************************************************)
(* What the requests of the office screens have in common.  A request runs *)
(* in a database session of its own (api/deps.py).  It reads what is       *)
(* committed and holds no lock while it does; from its first INSERT or     *)
(* UPDATE to its commit it is alone (module WriteLock), so the rest of it  *)
(* is one step, which still works with what it read before.  On the Main   *)
(* PC several requests run at once, and two that name the same record in   *)
(* their path wait for each other (api/lan/live.py); the Qt window has one *)
(* session, and its requests run one after the other.                      *)
(***************************************************************************)

CONSTANTS Session,   \* database sessions, one per running request
          Idle,      \* job[s] of a session that runs no request
          NoRecord   \* key of a request whose path names no record

VARIABLES mainPC,    \* is this the Main PC of a network?  Fixed at the start
          job        \* what each session's request has read, or Idle

deskVars == <<mainPC, job>>

Others(s) == Session \ {s}

\* Bug this code could have had: no record lock at all.
RecordFreeAlways(s, key) == TRUE

\* The per-record lock: nobody else's request names the same record.
RecordFree(s, key) ==
    \A t \in Others(s) : job[t] # Idle /\ key # NoRecord => job[t].key # key

\* A request starts; in the Qt window only when none is running.
Begin(s, j) ==
    /\ job[s] = Idle
    /\ mainPC \/ \A t \in Others(s) : job[t] = Idle
    /\ RecordFree(s, j.key)
    /\ job' = [job EXCEPT ![s] = j]
    /\ UNCHANGED mainPC

\* The request has committed, was refused or was rolled back.
End(s) ==
    /\ job' = [job EXCEPT ![s] = Idle]
    /\ UNCHANGED mainPC

\* A refused commit or a failing step: the unit of work is rolled back.
GiveUp(s) == job[s] # Idle /\ End(s)

\* A request that reads nothing before it writes is a single step.
AtOnce ==
    /\ mainPC \/ \A s \in Session : job[s] = Idle
    /\ UNCHANGED deskVars

\* Session s runs a request of this kind.
Runs(s, kind) == job[s] # Idle /\ job[s].kind = kind

DesksInit ==
    /\ mainPC \in BOOLEAN
    /\ job = [s \in Session |-> Idle]

=============================================================================
