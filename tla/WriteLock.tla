----------------------------- MODULE WriteLock -----------------------------
(***************************************************************************)
(* The write path every service shares: a database session per worker      *)
(* (HTTP request thread, check worker, scheduler thread), SQLite's own     *)
(* single writer, the Main PC's write lock in front of it                  *)
(* (api/lan/writelock.py), the unit of work and safe_commit                *)
(* (app/repositories/base.py), and AuditLogRepository.record, which chains *)
(* each audit row onto the newest one.                                     *)
(*                                                                         *)
(* A worker runs one operation at a time.  Three shapes of operation occur *)
(* in app/services:                                                        *)
(*   "uow"   change and audit rows in one unit_of_work (create_sale),      *)
(*   "plain" the repository commits the change, then record commits its    *)
(*           row in a second transaction (assign_nozzle, close_shift),     *)
(*   "note"  an audit row alone (a failed login).                          *)
(***************************************************************************)
EXTENDS Naturals, FiniteSets

CONSTANTS
    Worker,         \* the sessions that may write
    NoWorker,       \* nobody holds the lock
    RowId,          \* audit row ids: uuid4, so their order says nothing
    LockInstalled,  \* install(engine) ran: TRUE on the Main PC only
    CoarseClock,    \* two stamps may read the same clock value
    MaxOps,         \* bound: operations ever started
    MaxAudits       \* bound: audit rows one unit of work writes

ASSUME WriteLockAssumption ==
    /\ NoWorker \notin Worker
    /\ RowId \subseteq Nat \ {0}
    /\ LockInstalled \in BOOLEAN
    /\ CoarseClock \in BOOLEAN
    /\ MaxOps \in Nat
    /\ MaxAudits \in Nat \ {0}

VARIABLES
    rows,      \* committed audit rows
    applied,   \* operations whose business change is committed
    kindOf,    \* the shape of each operation started
    ops,       \* operations started so far
    now,       \* the Main PC's clock
    appLock,   \* holder of _State.lock
    dbLock,    \* connection with an open SQLite write transaction
    pc,        \* where each worker is
    op,        \* the operation it runs
    after,     \* what follows once the lock is given back
    dirty,     \* its uncommitted business change
    draft,     \* the audit row it is building
    pending    \* its uncommitted audit rows

vars == <<rows, applied, kindOf, ops, now, appLock, dbLock,
          pc, op, after, dirty, draft, pending>>

\* The chain as verify_chain reads it, over the committed rows.
Trail == INSTANCE AuditTrail WITH trail <- rows

NoDraft == [id |-> 0, created_at |-> 0, previous_hash |-> 0, op |-> 0]

Kinds == {"uow", "plain", "note"}
Steps == {"idle", "change", "changing", "audit", "stamp", "read", "insert",
          "commit", "rollback", "release"}

Rows == [id : RowId, created_at : Nat, previous_hash : RowId \cup {Trail!NoHash},
         op : 1..MaxOps]

TypeOK ==
    /\ rows \subseteq Rows
    /\ applied \subseteq 1..MaxOps
    /\ kindOf \in [1..MaxOps -> Kinds \cup {"none"}]
    /\ ops \in 0..MaxOps
    /\ now \in Nat
    /\ appLock \in Worker \cup {NoWorker}
    /\ dbLock \in Worker \cup {NoWorker}
    /\ pc \in [Worker -> Steps]
    /\ op \in [Worker -> 0..MaxOps]
    /\ after \in [Worker -> {"idle", "audit"}]
    /\ dirty \in [Worker -> BOOLEAN]
    /\ draft \in [Worker -> Rows \cup {NoDraft}]
    /\ pending \in [Worker -> SUBSET Rows]
    /\ \A w \in Worker : pc[w] # "idle" => op[w] \in 1..ops
    /\ \A w \in Worker : pc[w] \in {"read", "insert"} => draft[w] \in Rows

Init ==
    /\ rows = {}
    /\ applied = {}
    /\ kindOf = [o \in 1..MaxOps |-> "none"]
    /\ ops = 0
    /\ now = 0
    /\ appLock = NoWorker
    /\ dbLock = NoWorker
    /\ pc = [w \in Worker |-> "idle"]
    /\ op = [w \in Worker |-> 0]
    /\ after = [w \in Worker |-> "idle"]
    /\ dirty = [w \in Worker |-> FALSE]
    /\ draft = [w \in Worker |-> NoDraft]
    /\ pending = [w \in Worker |-> {}]

\* The first DML statement opens SQLite's write transaction; it waits while
\* another connection has one open.
CanWrite(w) == dbLock \in {NoWorker, w}

\* A connection sees what is committed and what it has written itself.
Visible(w) == rows \cup pending[w]

\* Ids in use: uuid4 never gives one of them again.
UsedIds == {r.id : r \in rows}
           \cup {r.id : r \in UNION {pending[w] : w \in Worker}}
           \cup {draft[w].id : w \in Worker}

-----------------------------------------------------------------------------
(***************************************************************************)
(* Bugs this code could have had: each replaces one definition below when  *)
(* the properties are tested for being able to fail.                       *)
(***************************************************************************)

\* The lock is taken by write statements only, not by the wrapped record().
TakeForStatementsOnly(w) ==
    /\ pc[w] \in {"change", "audit"}
    /\ LockInstalled /\ pc[w] = "change" => appLock \in {NoWorker, w}
    /\ appLock' = IF LockInstalled /\ pc[w] = "change" THEN w ELSE appLock
    /\ pc' = [pc EXCEPT ![w] = IF @ = "change" THEN "changing" ELSE "stamp"]
    /\ UNCHANGED <<rows, applied, kindOf, ops, now, dbLock, op, after, dirty,
                   draft, pending>>

\* The lock is taken by record() only, not ahead of the first write.
TakeForAuditsOnly(w) ==
    /\ pc[w] \in {"change", "audit"}
    /\ LockInstalled /\ pc[w] = "audit" => appLock \in {NoWorker, w}
    /\ appLock' = IF LockInstalled /\ pc[w] = "audit" THEN w ELSE appLock
    /\ pc' = [pc EXCEPT ![w] = IF @ = "change" THEN "changing" ELSE "stamp"]
    /\ UNCHANGED <<rows, applied, kindOf, ops, now, dbLock, op, after, dirty,
                   draft, pending>>

\* The hash is taken before the column default filled in the id.
StampWithoutId(w) ==
    /\ pc[w] = "stamp"
    /\ now' = now + 1
    /\ draft' = [draft EXCEPT ![w] = [id |-> 0, created_at |-> now',
                      previous_hash |-> Trail!NoHash, op |-> op[w]]]
    /\ pc' = [pc EXCEPT ![w] = "read"]
    /\ UNCHANGED <<rows, applied, kindOf, ops, appLock, dbLock, op, after,
                   dirty, pending>>

\* The newest row is looked up among the committed ones only.
ReadLatestCommitted(w) ==
    /\ pc[w] = "read"
    /\ \/ /\ rows = {}
          /\ draft' = [draft EXCEPT ![w].previous_hash = Trail!NoHash]
       \/ \E r \in rows :
            /\ Trail!IsLatest(r, rows)
            /\ draft' = [draft EXCEPT ![w].previous_hash = r.id]
    /\ pc' = [pc EXCEPT ![w] = "insert"]
    /\ UNCHANGED <<rows, applied, kindOf, ops, now, appLock, dbLock, op, after,
                   dirty, pending>>

\* safe_commit forgets that it is inside a unit of work: the row commits alone.
InsertAndCommit(w) ==
    /\ pc[w] = "insert"
    /\ CanWrite(w)
    /\ rows' = rows \cup {draft[w]}
    /\ draft' = [draft EXCEPT ![w] = NoDraft]
    /\ pc' = [pc EXCEPT ![w] = "commit"]
    /\ UNCHANGED <<applied, kindOf, ops, now, appLock, dbLock, op, after, dirty,
                   pending>>

\* do_rollback is not wrapped and the pool has no reset hook.
RollbackKeepsLock(w) ==
    /\ pc[w] = "rollback"
    /\ pending' = [pending EXCEPT ![w] = {}]
    /\ draft' = [draft EXCEPT ![w] = NoDraft]
    /\ dirty' = [dirty EXCEPT ![w] = FALSE]
    /\ dbLock' = IF dbLock = w THEN NoWorker ELSE dbLock
    /\ after' = [after EXCEPT ![w] = "idle"]
    /\ pc' = [pc EXCEPT ![w] = "idle"]
    /\ UNCHANGED <<rows, applied, kindOf, ops, now, appLock, op>>

\* The except branch forgets session.rollback().
RollbackForgotten(w) ==
    /\ pc[w] = "rollback"
    /\ draft' = [draft EXCEPT ![w] = NoDraft]
    /\ after' = [after EXCEPT ![w] = "idle"]
    /\ pc' = [pc EXCEPT ![w] = "release"]
    /\ UNCHANGED <<rows, applied, kindOf, ops, now, appLock, dbLock, op, dirty,
                   pending>>

\* release() does not ask whether this connection holds the lock.
ReleaseAnybodys(w) ==
    /\ pc[w] = "release"
    /\ appLock' = NoWorker
    /\ pc' = [pc EXCEPT ![w] = after[w]]
    /\ UNCHANGED <<rows, applied, kindOf, ops, now, dbLock, op, after, dirty,
                   draft, pending>>

-----------------------------------------------------------------------------

\* A worker picks up its next operation.
Start(w) ==
    /\ pc[w] = "idle"
    /\ ops < MaxOps
    /\ ops' = ops + 1
    /\ op' = [op EXCEPT ![w] = ops + 1]
    /\ \E k \in Kinds :
        /\ kindOf' = [kindOf EXCEPT ![ops + 1] = k]
        /\ pc' = [pc EXCEPT ![w] = IF k = "note" THEN "audit" ELSE "change"]
    /\ UNCHANGED <<rows, applied, now, appLock, dbLock, after, dirty, draft,
                   pending>>

\* The write lock: taken by before_cursor_execute ahead of the first write
\* statement and by the wrapped record() ahead of its time stamp.  A
\* connection that has it already goes straight through.
Take(w) ==
    /\ pc[w] \in {"change", "audit"}
    /\ LockInstalled => appLock \in {NoWorker, w}
    /\ appLock' = IF LockInstalled THEN w ELSE appLock
    /\ pc' = [pc EXCEPT ![w] = IF @ = "change" THEN "changing" ELSE "stamp"]
    /\ UNCHANGED <<rows, applied, kindOf, ops, now, dbLock, op, after, dirty,
                   draft, pending>>

\* The business rows are flushed.  Inside a unit of work safe_commit only
\* flushes; outside it commits at once.
Change(w) ==
    /\ pc[w] = "changing"
    /\ CanWrite(w)
    /\ dbLock' = w
    /\ dirty' = [dirty EXCEPT ![w] = TRUE]
    /\ pc' = [pc EXCEPT ![w] = IF kindOf[op[w]] = "plain" THEN "commit"
                                                          ELSE "audit"]
    /\ UNCHANGED <<rows, applied, kindOf, ops, now, appLock, op, after, draft,
                   pending>>

\* record(): a random id and the time, before the newest row is read.
Stamp(w) ==
    /\ pc[w] = "stamp"
    /\ now' \in IF CoarseClock THEN {now, now + 1} ELSE {now + 1}
    /\ \E i \in RowId \ UsedIds :
        draft' = [draft EXCEPT ![w] = [id |-> i, created_at |-> now',
                      previous_hash |-> Trail!NoHash, op |-> op[w]]]
    /\ pc' = [pc EXCEPT ![w] = "read"]
    /\ UNCHANGED <<rows, applied, kindOf, ops, appLock, dbLock, op, after,
                   dirty, pending>>

\* record(): the newest row, which this one chains onto.
ReadLatest(w) ==
    /\ pc[w] = "read"
    /\ \/ /\ Visible(w) = {}
          /\ draft' = [draft EXCEPT ![w].previous_hash = Trail!NoHash]
       \/ \E r \in Visible(w) :
            /\ Trail!IsLatest(r, Visible(w))
            /\ draft' = [draft EXCEPT ![w].previous_hash = r.id]
    /\ pc' = [pc EXCEPT ![w] = "insert"]
    /\ UNCHANGED <<rows, applied, kindOf, ops, now, appLock, dbLock, op, after,
                   dirty, pending>>

\* record(): the row is flushed; a unit of work may go on to another one.
Insert(w) ==
    /\ pc[w] = "insert"
    /\ CanWrite(w)
    /\ dbLock' = w
    /\ pending' = [pending EXCEPT ![w] = @ \cup {draft[w]}]
    /\ draft' = [draft EXCEPT ![w] = NoDraft]
    /\ \/ pc' = [pc EXCEPT ![w] = "commit"]
       \/ /\ kindOf[op[w]] = "uow"
          /\ Cardinality(pending'[w]) < MaxAudits
          /\ pc' = [pc EXCEPT ![w] = "audit"]
    /\ UNCHANGED <<rows, applied, kindOf, ops, now, appLock, op, after, dirty>>

\* SQLite commits.  The lock is given back only afterwards (Release).
Commit(w) ==
    /\ pc[w] = "commit"
    /\ rows' = rows \cup pending[w]
    /\ applied' = IF dirty[w] THEN applied \cup {op[w]} ELSE applied
    /\ pending' = [pending EXCEPT ![w] = {}]
    /\ dirty' = [dirty EXCEPT ![w] = FALSE]
    /\ dbLock' = NoWorker
    /\ after' = [after EXCEPT ![w] =
                    IF kindOf[op[w]] = "plain" /\ dirty[w] THEN "audit" ELSE "idle"]
    /\ pc' = [pc EXCEPT ![w] = "release"]
    /\ UNCHANGED <<kindOf, ops, now, appLock, op, draft>>

\* SQLite refuses the commit.  wrapped's finally gives the write lock back
\* while SQLite's own is still held; if the driver was called through the
\* pool's proxy the finally does not know it and the pool's reset does it
\* later.  Either way a rollback follows.
CommitFails(w) ==
    /\ pc[w] = "commit"
    /\ appLock' \in {appLock} \cup (IF appLock = w THEN {NoWorker} ELSE {})
    /\ pc' = [pc EXCEPT ![w] = "rollback"]
    /\ UNCHANGED <<rows, applied, kindOf, ops, now, dbLock, op, after, dirty,
                   draft, pending>>

\* An exception anywhere before the commit: the lock not got in WAIT_SECONDS,
\* "database is locked" after the busy timeout, a refused row, a business rule.
Fail(w) ==
    /\ pc[w] \in {"change", "changing", "audit", "stamp", "read", "insert"}
    /\ pc' = [pc EXCEPT ![w] = "rollback"]
    /\ UNCHANGED <<rows, applied, kindOf, ops, now, appLock, dbLock, op, after,
                   dirty, draft, pending>>

\* unit_of_work's and safe_commit's except branch, or closing the session.
Rollback(w) ==
    /\ pc[w] = "rollback"
    /\ pending' = [pending EXCEPT ![w] = {}]
    /\ draft' = [draft EXCEPT ![w] = NoDraft]
    /\ dirty' = [dirty EXCEPT ![w] = FALSE]
    /\ dbLock' = IF dbLock = w THEN NoWorker ELSE dbLock
    /\ after' = [after EXCEPT ![w] = "idle"]
    /\ pc' = [pc EXCEPT ![w] = "release"]
    /\ UNCHANGED <<rows, applied, kindOf, ops, now, appLock, op>>

\* release(): after the driver's commit or rollback, or the pool's reset.
Release(w) ==
    /\ pc[w] = "release"
    /\ appLock' = IF appLock = w THEN NoWorker ELSE appLock
    /\ pc' = [pc EXCEPT ![w] = after[w]]
    /\ UNCHANGED <<rows, applied, kindOf, ops, now, dbLock, op, after, dirty,
                   draft, pending>>

\* The process dies and is started again; SQLite discards what was open.
Crash ==
    /\ \E w \in Worker : pc[w] # "idle"
    /\ pc' = [w \in Worker |-> "idle"]
    /\ op' = [w \in Worker |-> 0]
    /\ after' = [w \in Worker |-> "idle"]
    /\ dirty' = [w \in Worker |-> FALSE]
    /\ draft' = [w \in Worker |-> NoDraft]
    /\ pending' = [w \in Worker |-> {}]
    /\ appLock' = NoWorker
    /\ dbLock' = NoWorker
    /\ UNCHANGED <<rows, applied, kindOf, ops, now>>

\* The steps of a worker that neither fails nor is killed.
Proceed(w) ==
    \/ Take(w) \/ Change(w) \/ Stamp(w) \/ ReadLatest(w) \/ Insert(w)
    \/ Commit(w) \/ Rollback(w) \/ Release(w)

\* The bound is used up and everybody is done: not a deadlock.
Finished ==
    /\ ops = MaxOps
    /\ \A w \in Worker : pc[w] = "idle"
    /\ UNCHANGED vars

Next ==
    \/ \E w \in Worker : Start(w) \/ Proceed(w) \/ CommitFails(w) \/ Fail(w)
    \/ Crash
    \/ Finished

Spec == Init /\ [][Next]_vars

\* A running thread keeps running; nobody is obliged to start, fail or crash.
FairSpec == Spec /\ \A w \in Worker : WF_vars(Proceed(w))

-----------------------------------------------------------------------------

\* Where a worker has taken the write lock and not yet ended its transaction.
Writing == {"changing", "stamp", "read", "insert", "commit"}

\* Nothing is read or written on the way to a commit by anybody but the
\* holder of the write lock: the section between a worker's first write and
\* its commit is exclusive (writelock.py, "One writer at a time").
OneWriter ==
    LockInstalled =>
        \A w \in Worker :
            pc[w] \in Writing \/ (dirty[w] /\ pc[w] # "rollback") => appLock = w

\* A worker that has to wait for the write lock has no SQLite transaction
\* open, so the two locks are never waited for in a circle, not even while
\* a failed commit has given back one of them (writelock.py, lines 4-6).
NoCircularWait ==
    \A w \in Worker :
        pc[w] \in {"change", "audit"} /\ appLock \notin {NoWorker, w}
            => dbLock # w

\* The committed audit rows verify: sorted by (created_at, id), each names
\* the row before it, whatever was interleaved, refused or killed.
ChainIntact == Trail!Linked(rows)

\* The audit log only grows, at the end of the order it is verified in.
AuditTrailSpec == Trail!Spec

\* An audit row tells of something that happened: the change it belongs to
\* is committed no later than the row (services record after they write),
\* and a unit of work never commits its change without a row.
AuditMatchesData ==
    /\ \A r \in rows : kindOf[r.op] # "note" => r.op \in applied
    /\ \A o \in applied : kindOf[o] = "uow" => \E r \in rows : r.op = o

\* All the rows of a unit of work appear in the one step that commits its
\* change; none is left behind or comes later.
UnitOfWorkIsOneCommit ==
    [][\A o \in 1..MaxOps :
        kindOf[o] = "uow" /\ {r \in rows' : r.op = o} # {r \in rows : r.op = o}
            => o \in applied' \ applied]_<<rows, applied>>

\* Once nobody works on it any more, a committed change has its audit row.
\* True of units of work; of a "plain" operation only if nothing stops it
\* between its two commits.
EveryChangeAudited ==
    \A o \in applied :
        (\A w \in Worker : op[w] = o => pc[w] = "idle")
            => \E r \in rows : r.op = o

\* Whoever starts an operation gets an answer: no lock is left behind by a
\* commit, a failed commit, a rollback or a crash, so nobody waits for ever.
EveryOperationEnds ==
    \A w \in Worker : pc[w] # "idle" ~> pc[w] = "idle"

-----------------------------------------------------------------------------
(***************************************************************************)
(* The inductive invariants behind OneWriter, NoCircularWait, ChainIntact, *)
(* AuditTrailSpec, AuditMatchesData and UnitOfWorkIsOneCommit (proved in   *)
(* WriteLockProofs).                                                       *)
(***************************************************************************)

\* Which of the two locks goes with which work in progress.
LockInv ==
    \A w \in Worker :
        /\ pc[w] \in Writing => appLock = w
        /\ pc[w] = "commit" => dbLock = w
        /\ dirty[w] \/ pending[w] # {} => dbLock = w
        /\ dbLock = w => appLock = w \/ pc[w] = "rollback"
        /\ dbLock = w => pc[w] \notin {"idle", "change", "changing", "release"}

\* The clock is never behind a stamp, and a row being built is younger than
\* every row its writer can see.
StampInv ==
    /\ \A r \in rows : r.created_at <= now
    /\ \A w \in Worker :
        /\ \A r \in pending[w] : r.created_at <= now
        /\ pc[w] \in {"read", "insert"} =>
            /\ draft[w].created_at <= now
            /\ \A r \in Visible(w) : r.created_at < draft[w].created_at

\* d names the newest row of S, or nothing when S is empty.
FollowsLatest(d, S) ==
    \/ S = {} /\ d.previous_hash = Trail!NoHash
    \/ \E r \in S : Trail!IsLatest(r, S) /\ d.previous_hash = r.id

\* The rows a writer is about to commit already extend the chain.
ChainInv ==
    /\ Trail!Linked(rows)
    /\ \A w \in Worker :
        /\ pc[w] # "rollback" =>
            /\ Trail!Linked(Visible(w))
            /\ \A r \in rows, s \in pending[w] : r.created_at < s.created_at
        /\ pc[w] = "insert" => FollowsLatest(draft[w], Visible(w))

\* What an operation of kind k has to show for itself where worker w is.
StandsAt(w, k) ==
    LET recording == pc[w] \in {"audit", "stamp", "read", "insert"}
        done == op[w] \in applied
    IN  \/ /\ k = "note"
           /\ pc[w] \notin {"change", "changing"} /\ ~ dirty[w]
        \/ /\ k = "uow"
           /\ pc[w] \in {"change", "changing"} => ~ done
           /\ recording \/ pc[w] = "commit" => dirty[w] /\ ~ done
           /\ pc[w] = "commit" => pending[w] # {}
        \/ /\ k = "plain"
           /\ recording => ~ dirty[w] /\ done
           /\ pc[w] = "commit" => (IF dirty[w] THEN pending[w] = {} ELSE done)

\* Where a worker's operation stands: its rows are its own, a unit of work
\* carries its change to the commit, a "plain" operation reaches its audit row
\* only after its change is committed, and a "note" changes nothing.
WorkInv ==
    /\ applied \subseteq 1..ops
    /\ \A r \in rows : r.op <= ops
    /\ \A v, w \in Worker :
        pc[v] # "idle" /\ pc[w] # "idle" /\ op[v] = op[w] => v = w
    /\ \A w \in Worker :
        /\ \A r \in pending[w] : r.op = op[w]
        /\ pc[w] \in {"read", "insert"} => draft[w].op = op[w]
        /\ pc[w] \in {"idle", "change", "changing", "release"}
            => pending[w] = {} /\ ~ dirty[w]
        /\ pc[w] = "idle" => after[w] = "idle"
        /\ after[w] = "audit" => kindOf[op[w]] = "plain" /\ op[w] \in applied
        /\ pc[w] # "idle" => StandsAt(w, kindOf[op[w]])

=============================================================================
