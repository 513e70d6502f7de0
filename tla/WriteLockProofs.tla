-------------------------- MODULE WriteLockProofs --------------------------
(***************************************************************************)
(* Proofs about WriteLock for any number of workers, operations and rows.  *)
(***************************************************************************)
EXTENDS WriteLock, TLAPS

(***************************************************************************)
(* Type correctness, with or without the write lock.                       *)
(***************************************************************************)
\* The variables of the write path keep their types (all of writelock.py's,
\* the session's and record()'s state), and nobody works without an operation.
THEOREM TypeCorrect == Spec => []TypeOK
<1> USE WriteLockAssumption DEF TypeOK, Steps, Kinds
<1>1. Init => TypeOK
  BY DEF Init
<1>2. TypeOK /\ [Next]_vars => TypeOK'
  <2> SUFFICES ASSUME TypeOK, [Next]_vars PROVE TypeOK'
    OBVIOUS
  <2>1. ASSUME NEW w \in Worker, Start(w) PROVE TypeOK'
    BY <2>1 DEF Start
  <2>2. ASSUME NEW w \in Worker, Take(w) PROVE TypeOK'
    BY <2>2 DEF Take
  <2>3. ASSUME NEW w \in Worker, Change(w) PROVE TypeOK'
    BY <2>3 DEF Change
  <2>4. ASSUME NEW w \in Worker, Stamp(w) PROVE TypeOK'
    <3>1. op[w] \in 1..MaxOps /\ now' \in Nat
      BY <2>4 DEF Stamp
    <3>2. PICK d \in Rows : draft' = [draft EXCEPT ![w] = d]
      <4>1. PICK i \in RowId : draft' = [draft EXCEPT ![w] =
              [id |-> i, created_at |-> now', previous_hash |-> Trail!NoHash,
               op |-> op[w]]]
        BY <2>4 DEF Stamp
      <4> QED
        BY <3>1, <4>1 DEF Rows
    <3>3. \A v \in Worker : pc'[v] \in {"read", "insert"} => draft'[v] \in Rows
      BY <2>4, <3>2 DEF Stamp
    <3> QED
      BY <2>4, <3>1, <3>2, <3>3 DEF Stamp
  <2>5. ASSUME NEW w \in Worker, ReadLatest(w) PROVE TypeOK'
    <3>1. Visible(w) \subseteq Rows
      BY DEF Visible
    <3>2. PICK d \in Rows : draft' = [draft EXCEPT ![w] = d]
      <4>1. draft[w] \in Rows
        BY <2>5 DEF ReadLatest
      <4>2. CASE draft' = [draft EXCEPT ![w].previous_hash = Trail!NoHash]
        <5>1. [draft[w] EXCEPT !.previous_hash = Trail!NoHash] \in Rows
          BY <4>1 DEF Rows
        <5> QED
          BY <4>2, <5>1
      <4>3. CASE \E r \in Visible(w) :
                    draft' = [draft EXCEPT ![w].previous_hash = r.id]
        <5>1. PICK r \in Rows : draft' = [draft EXCEPT ![w] =
                                  [@ EXCEPT !.previous_hash = r.id]]
          BY <3>1, <4>3
        <5>2. [draft[w] EXCEPT !.previous_hash = r.id] \in Rows
          BY <4>1 DEF Rows
        <5> QED
          BY <5>1, <5>2
      <4> QED
        BY <2>5, <4>2, <4>3 DEF ReadLatest
    <3>3. \A v \in Worker : pc'[v] \in {"read", "insert"} => draft'[v] \in Rows
      BY <2>5, <3>2 DEF ReadLatest
    <3> QED
      BY <2>5, <3>2, <3>3 DEF ReadLatest
  <2>6. ASSUME NEW w \in Worker, Insert(w) PROVE TypeOK'
    <3>1. draft[w] \in Rows
      BY <2>6 DEF Insert
    <3>2. pending' \in [Worker -> SUBSET Rows]
      BY <2>6, <3>1 DEF Insert
    <3>3. PICK s \in {"commit", "audit"} : pc' = [pc EXCEPT ![w] = s]
      BY <2>6 DEF Insert
    <3>4. op[w] \in 1..ops
      BY <2>6 DEF Insert
    <3>5. draft' \in [Worker -> Rows \cup {NoDraft}]
      BY <2>6 DEF Insert
    <3>6. \A v \in Worker : pc'[v] \in {"read", "insert"} => draft'[v] \in Rows
      BY <2>6, <3>3 DEF Insert
    <3>7. \A v \in Worker : pc'[v] # "idle" => op'[v] \in 1..ops'
      BY <2>6, <3>3, <3>4 DEF Insert
    <3>8. pc' \in [Worker -> Steps] /\ dbLock' \in Worker
      BY <2>6, <3>3 DEF Insert
    <3>9. /\ rows' = rows /\ applied' = applied /\ kindOf' = kindOf
          /\ ops' = ops /\ now' = now /\ appLock' = appLock /\ op' = op
          /\ after' = after /\ dirty' = dirty
      BY <2>6 DEF Insert
    <3> QED
      BY <3>2, <3>5, <3>6, <3>7, <3>8, <3>9
  <2>7. ASSUME NEW w \in Worker, Commit(w) PROVE TypeOK'
    <3>1. op[w] \in 1..MaxOps /\ op[w] \in 1..ops
      BY <2>7 DEF Commit
    <3>2. applied' \subseteq 1..MaxOps
      BY <2>7, <3>1 DEF Commit
    <3>3. PICK a \in {"idle", "audit"} : after' = [after EXCEPT ![w] = a]
      BY <2>7 DEF Commit
    <3>4. /\ rows' = rows \cup pending[w]
          /\ pending' = [pending EXCEPT ![w] = {}]
          /\ dirty' = [dirty EXCEPT ![w] = FALSE]
          /\ dbLock' = NoWorker
          /\ pc' = [pc EXCEPT ![w] = "release"]
          /\ UNCHANGED <<kindOf, ops, now, appLock, op, draft>>
      BY <2>7 DEF Commit
    <3> QED
      BY <3>1, <3>2, <3>3, <3>4
  <2>8. ASSUME NEW w \in Worker, CommitFails(w) PROVE TypeOK'
    BY <2>8 DEF CommitFails
  <2>9. ASSUME NEW w \in Worker, Fail(w) PROVE TypeOK'
    BY <2>9 DEF Fail
  <2>10. ASSUME NEW w \in Worker, Rollback(w) PROVE TypeOK'
    BY <2>10 DEF Rollback
  <2>11. ASSUME NEW w \in Worker, Release(w) PROVE TypeOK'
    BY <2>11 DEF Release
  <2>12. CASE Crash
    BY <2>12 DEF Crash
  <2>13. CASE UNCHANGED vars
    BY <2>13 DEF vars
  <2> QED
    BY <2>1, <2>2, <2>3, <2>4, <2>5, <2>6, <2>7, <2>8, <2>9, <2>10, <2>11,
       <2>12, <2>13 DEF Next, Proceed, Finished
<1> QED
  BY <1>1, <1>2, PTL DEF Spec

-----------------------------------------------------------------------------
(***************************************************************************)
(* Mutual exclusion of writers, and no circular wait.                      *)
(***************************************************************************)
\* install(engine) makes writers take turns: LockInv is inductive.
THEOREM LockCorrect == ASSUME LockInstalled PROVE Spec => []LockInv
<1> USE WriteLockAssumption, LockInstalled DEF LockInv, Writing
<1>1. Init => LockInv
  BY DEF Init
<1>2. TypeOK /\ LockInv /\ [Next]_vars => LockInv'
  <2> SUFFICES ASSUME TypeOK, LockInv, [Next]_vars PROVE LockInv'
    OBVIOUS
  <2> USE DEF TypeOK
  <2>1. ASSUME NEW w \in Worker, Start(w) PROVE LockInv'
    BY <2>1 DEF Start
  <2>2. ASSUME NEW w \in Worker, Take(w) PROVE LockInv'
    BY <2>2 DEF Take
  <2>3. ASSUME NEW w \in Worker, Change(w) PROVE LockInv'
    BY <2>3 DEF Change, CanWrite
  <2>4. ASSUME NEW w \in Worker, Stamp(w) PROVE LockInv'
    BY <2>4 DEF Stamp
  <2>5. ASSUME NEW w \in Worker, ReadLatest(w) PROVE LockInv'
    BY <2>5 DEF ReadLatest
  <2>6. ASSUME NEW w \in Worker, Insert(w) PROVE LockInv'
    <3>1. PICK s \in {"commit", "audit"} : pc' = [pc EXCEPT ![w] = s]
      BY <2>6 DEF Insert
    <3>2. /\ pc[w] = "insert"
          /\ dbLock \in {NoWorker, w}
          /\ dbLock' = w
          /\ pending' = [pending EXCEPT ![w] = @ \cup {draft[w]}]
          /\ UNCHANGED <<appLock, dirty>>
      BY <2>6 DEF Insert, CanWrite
    <3>3. \A v \in Worker \ {w} : pc'[v] = pc[v] /\ pending'[v] = pending[v]
      BY <3>1, <3>2
    <3>4. pc'[w] = s
      BY <3>1
    <3>5. \A v \in Worker \ {w} : ~ dirty[v] /\ pending[v] = {}
      BY <3>2
    <3>6. \A v \in Worker : pc'[v] \in Writing => appLock' = v
      BY <3>2, <3>3, <3>4
    <3> QED
      BY <3>2, <3>3, <3>4, <3>5, <3>6
  <2>7. ASSUME NEW w \in Worker, Commit(w) PROVE LockInv'
    <3>1. /\ pending' = [pending EXCEPT ![w] = {}]
          /\ dirty' = [dirty EXCEPT ![w] = FALSE]
          /\ dbLock' = NoWorker
          /\ pc' = [pc EXCEPT ![w] = "release"]
          /\ UNCHANGED appLock
      BY <2>7 DEF Commit
    <3>2. pc[w] = "commit" /\ appLock = w /\ dbLock = w
      BY <2>7 DEF Commit
    <3> QED
      BY <3>1, <3>2
  <2>8. ASSUME NEW w \in Worker, CommitFails(w) PROVE LockInv'
    BY <2>8 DEF CommitFails
  <2>9. ASSUME NEW w \in Worker, Fail(w) PROVE LockInv'
    BY <2>9 DEF Fail
  <2>10. ASSUME NEW w \in Worker, Rollback(w) PROVE LockInv'
    BY <2>10 DEF Rollback
  <2>11. ASSUME NEW w \in Worker, Release(w) PROVE LockInv'
    BY <2>11 DEF Release
  <2>12. CASE Crash
    BY <2>12 DEF Crash
  <2>13. CASE UNCHANGED vars
    BY <2>13 DEF vars
  <2> QED
    BY <2>1, <2>2, <2>3, <2>4, <2>5, <2>6, <2>7, <2>8, <2>9, <2>10, <2>11,
       <2>12, <2>13 DEF Next, Proceed, Finished
<1> QED
  BY <1>1, <1>2, TypeCorrect, PTL DEF Spec

\* One writer at a time between the first write and the commit
\* (_State.take, acquire and the release after do_commit / do_rollback).
THEOREM OneWriterAtATime == Spec => []OneWriter
<1>1. CASE LockInstalled
  <2>1. LockInv => OneWriter
    BY DEF LockInv, OneWriter
  <2> QED
    BY <1>1, <2>1, LockCorrect, PTL
<1>2. CASE ~LockInstalled
  <2>1. OneWriter
    BY <1>2 DEF OneWriter
  <2> QED
    BY <2>1, PTL
<1> QED
  BY <1>1, <1>2

\* Nobody waits for the write lock with a SQLite transaction open.
THEOREM NoWaitInACircle == ASSUME LockInstalled PROVE Spec => []NoCircularWait
<1>1. LockInv => NoCircularWait
  BY DEF LockInv, NoCircularWait
<1> QED
  BY <1>1, LockCorrect, PTL

-----------------------------------------------------------------------------
(***************************************************************************)
(* The audit chain.  The theorems below assume the write lock and a clock  *)
(* that gives every stamp a new value; TLC refutes them without either.    *)
(***************************************************************************)

\* A row younger than all of S that names the newest of them extends the
\* chain (compute_entry_hash over get_latest_entry's hash).
LEMMA LinkedExtends ==
    ASSUME NEW S, S \subseteq Rows, NEW d \in Rows, Trail!Linked(S),
           \A r \in S : r.created_at < d.created_at, FollowsLatest(d, S)
    PROVE  Trail!Linked(S \cup {d})
<1> USE WriteLockAssumption DEF Trail!Before
<1> DEFINE T == S \cup {d}
<1>1. \A r \in T : r.created_at \in Nat /\ r.id \in Nat
  BY DEF Rows
<1>2. \A r \in T : ~ Trail!Before(d, r)
  BY <1>1
<1>3. ASSUME NEW s \in S
      PROVE  \/ s.previous_hash = Trail!NoHash /\ \A r \in T : ~ Trail!Before(r, s)
             \/ \E r \in T : Trail!Precedes(r, s, T) /\ s.previous_hash = r.id
  BY <1>2 DEF Trail!Linked, Trail!Precedes
<1>4. \/ d.previous_hash = Trail!NoHash /\ \A r \in T : ~ Trail!Before(r, d)
      \/ \E r \in T : Trail!Precedes(r, d, T) /\ d.previous_hash = r.id
  <2>1. CASE S = {} /\ d.previous_hash = Trail!NoHash
    BY <1>2, <2>1
  <2>2. CASE \E r \in S : Trail!IsLatest(r, S) /\ d.previous_hash = r.id
    <3>1. PICK r \in S : Trail!IsLatest(r, S) /\ d.previous_hash = r.id
      BY <2>2
    <3>2. \A t \in S : t = r \/ ~ Trail!Before(r, t)
      BY <1>1, <3>1 DEF Trail!IsLatest
    <3>3. Trail!Before(r, d)
      OBVIOUS
    <3>4. Trail!Precedes(r, d, T)
      BY <1>2, <3>2, <3>3 DEF Trail!Precedes
    <3> QED
      BY <3>1, <3>4
  <2> QED
    BY <2>1, <2>2 DEF FollowsLatest
<1> QED
  BY <1>3, <1>4 DEF Trail!Linked

\* A stamp is never behind the rows its writer can see: the lock is taken
\* before record() reads the clock (_serialise_audit_records).
THEOREM StampsCorrect ==
    ASSUME LockInstalled, ~ CoarseClock PROVE Spec => []StampInv
<1> USE WriteLockAssumption, LockInstalled
<1>1. Init => StampInv
  BY DEF Init, StampInv
<1>2. TypeOK /\ LockInv /\ StampInv /\ [Next]_vars => StampInv'
  <2> SUFFICES ASSUME TypeOK, LockInv, StampInv, [Next]_vars PROVE StampInv'
    OBVIOUS
  <2> USE DEF TypeOK, StampInv, Visible
  <2>1. ASSUME NEW w \in Worker, Start(w) PROVE StampInv'
    BY <2>1 DEF Start
  <2>2. ASSUME NEW w \in Worker, Take(w) PROVE StampInv'
    BY <2>2 DEF Take
  <2>3. ASSUME NEW w \in Worker, Change(w) PROVE StampInv'
    BY <2>3 DEF Change
  <2>4. ASSUME NEW w \in Worker, Stamp(w) PROVE StampInv'
    <3>1. PICK i \in RowId : draft' = [draft EXCEPT ![w] =
            [id |-> i, created_at |-> now', previous_hash |-> Trail!NoHash,
             op |-> op[w]]]
      BY <2>4 DEF Stamp
    <3>2. now' = now + 1 /\ UNCHANGED <<rows, pending>>
      BY <2>4 DEF Stamp
    <3>3. \A r \in rows \cup UNION {pending[v] : v \in Worker} :
            r.created_at \in Nat /\ r.created_at <= now
      BY DEF Rows
    <3>4. \A v \in Worker \ {w} : pc'[v] = pc[v] /\ draft'[v] = draft[v]
      BY <2>4 DEF Stamp
    <3>5. \A v \in Worker \ {w} :
            pc[v] \in {"read", "insert"} => draft[v].created_at \in Nat
      BY DEF Rows
    <3>6. draft'[w].created_at = now'
      BY <3>1
    <3>7. \A v \in Worker : \A r \in rows \cup pending[v] :
            r.created_at < now' /\ r.created_at <= now'
      BY <3>2, <3>3
    <3>8. \A v \in Worker : pc'[v] \in {"read", "insert"} =>
              /\ draft'[v].created_at <= now'
              /\ \A r \in Visible(v) : r.created_at < draft'[v].created_at
      <4> SUFFICES ASSUME NEW v \in Worker, pc'[v] \in {"read", "insert"}
                   PROVE  /\ draft'[v].created_at <= now'
                          /\ \A r \in Visible(v) : r.created_at < draft'[v].created_at
        OBVIOUS
      <4>1. CASE v = w
        BY <3>2, <3>6, <3>7, <4>1
      <4>2. CASE v # w
        <5>1. /\ draft[v].created_at <= now /\ draft[v].created_at \in Nat
              /\ \A r \in Visible(v) : r.created_at < draft[v].created_at
          BY <3>4, <3>5, <4>2
        <5>2. draft'[v] = draft[v]
          BY <3>4, <4>2
        <5> QED
          BY <3>2, <5>1, <5>2
      <4> QED
        BY <4>1, <4>2
    <3> QED
      BY <3>2, <3>7, <3>8
  <2>5. ASSUME NEW w \in Worker, ReadLatest(w) PROVE StampInv'
    <3>1. \A v \in Worker : pc'[v] \in {"read", "insert"} =>
              /\ pc[v] \in {"read", "insert"}
              /\ draft'[v].created_at = draft[v].created_at
      BY <2>5 DEF ReadLatest, Rows
    <3>2. UNCHANGED <<rows, pending, now>>
      BY <2>5 DEF ReadLatest
    <3> QED
      BY <3>1, <3>2
  <2>6. ASSUME NEW w \in Worker, Insert(w) PROVE StampInv'
    <3>1. pc[w] = "insert" /\ UNCHANGED <<rows, now>>
      BY <2>6 DEF Insert
    <3>2. pending' = [pending EXCEPT ![w] = @ \cup {draft[w]}]
      BY <2>6 DEF Insert
    <3>3. \A v \in Worker : pc'[v] \in {"read", "insert"} =>
              v # w /\ pc[v] \in {"read", "insert"} /\ draft'[v] = draft[v]
      BY <2>6 DEF Insert
    <3> QED
      BY <3>1, <3>2, <3>3
  <2>7. ASSUME NEW w \in Worker, Commit(w) PROVE StampInv'
    <3>1. /\ pc[w] = "commit" /\ UNCHANGED <<draft, now>>
          /\ rows' = rows \cup pending[w]
          /\ pending' = [pending EXCEPT ![w] = {}]
          /\ pc' = [pc EXCEPT ![w] = "release"]
      BY <2>7 DEF Commit
    <3>2. \A v \in Worker : pc[v] \in {"read", "insert"} => FALSE
      BY <3>1 DEF LockInv, Writing
    <3> QED
      BY <3>1, <3>2
  <2>8. ASSUME NEW w \in Worker, CommitFails(w) PROVE StampInv'
    BY <2>8 DEF CommitFails
  <2>9. ASSUME NEW w \in Worker, Fail(w) PROVE StampInv'
    BY <2>9 DEF Fail
  <2>10. ASSUME NEW w \in Worker, Rollback(w) PROVE StampInv'
    BY <2>10 DEF Rollback
  <2>11. ASSUME NEW w \in Worker, Release(w) PROVE StampInv'
    BY <2>11 DEF Release
  <2>12. CASE Crash
    BY <2>12 DEF Crash
  <2>13. CASE UNCHANGED vars
    BY <2>13 DEF vars
  <2> QED
    BY <2>1, <2>2, <2>3, <2>4, <2>5, <2>6, <2>7, <2>8, <2>9, <2>10, <2>11,
       <2>12, <2>13 DEF Next, Proceed, Finished
<1> QED
  BY <1>1, <1>2, TypeCorrect, LockCorrect, PTL DEF Spec

\* Every writer's rows extend the chain it is about to commit to.
THEOREM ChainCorrect ==
    ASSUME LockInstalled, ~ CoarseClock PROVE Spec => []ChainInv
<1> USE WriteLockAssumption, LockInstalled
<1>1. Init => ChainInv
  BY DEF Init, ChainInv, Visible, Trail!Linked
<1>2. TypeOK /\ LockInv /\ StampInv /\ ChainInv /\ [Next]_vars => ChainInv'
  <2> SUFFICES ASSUME TypeOK, LockInv, StampInv, ChainInv, [Next]_vars
               PROVE  ChainInv'
    OBVIOUS
  <2> USE DEF TypeOK, ChainInv, Visible
  <2>1. ASSUME NEW w \in Worker, Start(w) PROVE ChainInv'
    BY <2>1 DEF Start
  <2>2. ASSUME NEW w \in Worker, Take(w) PROVE ChainInv'
    BY <2>2 DEF Take
  <2>3. ASSUME NEW w \in Worker, Change(w) PROVE ChainInv'
    BY <2>3 DEF Change
  <2>4. ASSUME NEW w \in Worker, Stamp(w) PROVE ChainInv'
    <3>1. UNCHANGED <<rows, pending>> /\ pc' = [pc EXCEPT ![w] = "read"]
      BY <2>4 DEF Stamp
    <3>2. \A v \in Worker : pc'[v] = "insert" =>
              pc[v] = "insert" /\ draft'[v] = draft[v]
      BY <2>4 DEF Stamp
    <3>3. \A v \in Worker : pc'[v] # "rollback" => pc[v] # "rollback"
      BY <2>4 DEF Stamp
    <3> QED
      BY <3>1, <3>2, <3>3
  <2>5. ASSUME NEW w \in Worker, ReadLatest(w) PROVE ChainInv'
    <3>1. pc[w] = "read" /\ UNCHANGED <<rows, pending>>
      BY <2>5 DEF ReadLatest
    <3>2. \A v \in Worker \ {w} : pc'[v] = pc[v] /\ draft'[v] = draft[v]
      BY <2>5 DEF ReadLatest
    <3>3. FollowsLatest(draft'[w], Visible(w))
      <4>1. draft[w] \in Rows
        BY <3>1
      <4>2. CASE /\ Visible(w) = {}
                 /\ draft' = [draft EXCEPT ![w].previous_hash = Trail!NoHash]
        <5>1. draft'[w].previous_hash = Trail!NoHash
          BY <4>1, <4>2 DEF Rows
        <5> QED
          BY <4>2, <5>1 DEF FollowsLatest
      <4>3. CASE \E r \in Visible(w) :
                    /\ Trail!IsLatest(r, Visible(w))
                    /\ draft' = [draft EXCEPT ![w].previous_hash = r.id]
        <5>1. PICK r \in Visible(w) :
                    /\ Trail!IsLatest(r, Visible(w))
                    /\ draft' = [draft EXCEPT ![w].previous_hash = r.id]
          BY <4>3
        <5>2. draft'[w].previous_hash = r.id
          BY <4>1, <5>1 DEF Rows
        <5> QED
          BY <5>1, <5>2 DEF FollowsLatest
      <4> QED
        BY <2>5, <4>2, <4>3 DEF ReadLatest
    <3> QED
      BY <3>1, <3>2, <3>3
  <2>6. ASSUME NEW w \in Worker, Insert(w) PROVE ChainInv'
    <3>1. pc[w] = "insert" /\ UNCHANGED rows
      BY <2>6 DEF Insert
    <3>2. pending' = [pending EXCEPT ![w] = @ \cup {draft[w]}]
      BY <2>6 DEF Insert
    <3>3. \A v \in Worker \ {w} : pc'[v] = pc[v] /\ draft'[v] = draft[v]
                                 /\ pending'[v] = pending[v]
      BY <2>6 DEF Insert
    <3>4. pc'[w] # "insert"
      BY <2>6 DEF Insert
    <3>5. draft[w] \in Rows /\ Visible(w) \subseteq Rows
      BY <3>1
    <3>6. Trail!Linked(Visible(w) \cup {draft[w]})
      BY <3>1, <3>5, LinkedExtends DEF StampInv
    <3>7. Visible(w)' = Visible(w) \cup {draft[w]}
      BY <3>1, <3>2
    <3>8. \A r \in rows, s \in pending'[w] : r.created_at < s.created_at
      BY <3>1, <3>2 DEF StampInv
    <3> QED
      BY <3>1, <3>3, <3>4, <3>6, <3>7, <3>8
  <2>7. ASSUME NEW w \in Worker, Commit(w) PROVE ChainInv'
    <3>1. /\ pc[w] = "commit" /\ UNCHANGED draft
          /\ rows' = rows \cup pending[w]
          /\ pending' = [pending EXCEPT ![w] = {}]
          /\ pc' = [pc EXCEPT ![w] = "release"]
      BY <2>7 DEF Commit
    <3>2. Trail!Linked(rows')
      BY <3>1
    <3>3. \A v \in Worker : pc'[v] # "insert"
      BY <3>1 DEF LockInv, Writing
    <3>4. \A v \in Worker : pc'[v] # "rollback" => pending'[v] = {}
      <4> SUFFICES ASSUME NEW v \in Worker, v # w, pending[v] # {}
                   PROVE  pc[v] = "rollback"
        BY <3>1
      <4>1. appLock = w /\ dbLock = v
        BY <3>1 DEF LockInv, Writing
      <4> QED
        BY <4>1 DEF LockInv
    <3> QED
      BY <3>1, <3>2, <3>3, <3>4
  <2>8. ASSUME NEW w \in Worker, CommitFails(w) PROVE ChainInv'
    BY <2>8 DEF CommitFails
  <2>9. ASSUME NEW w \in Worker, Fail(w) PROVE ChainInv'
    BY <2>9 DEF Fail
  <2>10. ASSUME NEW w \in Worker, Rollback(w) PROVE ChainInv'
    BY <2>10 DEF Rollback
  <2>11. ASSUME NEW w \in Worker, Release(w) PROVE ChainInv'
    BY <2>11 DEF Release, LockInv
  <2>12. CASE Crash
    BY <2>12 DEF Crash
  <2>13. CASE UNCHANGED vars
    BY <2>13 DEF vars
  <2> QED
    BY <2>1, <2>2, <2>3, <2>4, <2>5, <2>6, <2>7, <2>8, <2>9, <2>10, <2>11,
       <2>12, <2>13 DEF Next, Proceed, Finished
<1> QED
  BY <1>1, <1>2, TypeCorrect, LockCorrect, StampsCorrect, PTL DEF Spec

\* verify_chain never reports a row on the Main PC.
THEOREM ChainStaysIntact ==
    ASSUME LockInstalled, ~ CoarseClock PROVE Spec => []ChainIntact
<1>1. ChainInv => ChainIntact
  BY DEF ChainInv, ChainIntact
<1> QED
  BY <1>1, ChainCorrect, PTL

\* The write path implements the append-only audit trail: each commit adds
\* its rows at the end of the order verify_chain reads, and every other step
\* leaves the trail alone.
THEOREM ImplementsAuditTrail ==
    ASSUME LockInstalled, ~ CoarseClock PROVE Spec => Trail!Spec
<1>1. Init => Trail!Init
  BY DEF Init, Trail!Init
<1>2. TypeOK /\ LockInv /\ StampInv /\ ChainInv /\ [Next]_vars => [Trail!Extend]_rows
  <2> SUFFICES ASSUME TypeOK, LockInv, ChainInv, [Next]_vars, rows' # rows
               PROVE  Trail!Extend
    OBVIOUS
  <2>1. PICK w \in Worker : Commit(w)
    BY DEF Next, Proceed, Finished, Start, Take, Change, Stamp, ReadLatest, Insert,
           CommitFails, Fail, Rollback, Release, Crash, vars
  <2>2. pc[w] = "commit" /\ rows' = rows \cup pending[w]
    BY <2>1 DEF Commit
  <2>3. Trail!Linked(rows')
    BY <2>2 DEF ChainInv, Visible
  <2>4. \A r \in rows, s \in rows' \ rows : Trail!Before(r, s)
    BY <2>2 DEF ChainInv, Trail!Before
  <2> QED
    BY <2>2, <2>3, <2>4 DEF Trail!Extend
<1> QED
  BY <1>1, <1>2, TypeCorrect, LockCorrect, StampsCorrect, ChainCorrect, PTL
     DEF Spec, Trail!Spec

\* The same, by the name the runs check.
COROLLARY AuditTrailImplemented ==
    ASSUME LockInstalled, ~ CoarseClock PROVE Spec => AuditTrailSpec
BY ImplementsAuditTrail DEF AuditTrailSpec

-----------------------------------------------------------------------------
(***************************************************************************)
(* The audit row and the change it tells of, with or without the lock.     *)
(***************************************************************************)

\* Every operation is where its shape says it is (unit_of_work, safe_commit
\* and record in base.py and the services): WorkInv is inductive.
THEOREM WorkCorrect == Spec => []WorkInv
<1> USE WriteLockAssumption
<1>1. Init => WorkInv
  BY DEF Init, WorkInv
<1>2. TypeOK /\ WorkInv /\ [Next]_vars => WorkInv'
  <2> SUFFICES ASSUME TypeOK, WorkInv, [Next]_vars PROVE WorkInv'
    OBVIOUS
  <2> USE DEF TypeOK, WorkInv
  <2>1. ASSUME NEW w \in Worker, Start(w) PROVE WorkInv'
    <3>1. PICK k \in Kinds :
            /\ kindOf' = [kindOf EXCEPT ![ops + 1] = k]
            /\ pc' = [pc EXCEPT ![w] = IF k = "note" THEN "audit" ELSE "change"]
      BY <2>1 DEF Start
    <3>2. /\ pc[w] = "idle" /\ ops + 1 \in 1..MaxOps /\ ops' = ops + 1
          /\ op' = [op EXCEPT ![w] = ops + 1]
          /\ UNCHANGED <<rows, applied, after, dirty, draft, pending>>
      BY <2>1 DEF Start
    <3>3. op'[w] = ops + 1 /\ kindOf'[ops + 1] = k /\ ops + 1 \notin applied
      BY <3>1, <3>2
    <3>4. StandsAt(w, k)'
      BY <3>1, <3>2, <3>3 DEF StandsAt, Kinds, Steps
    <3>5. \A v \in Worker \ {w} :
            /\ UNCHANGED <<pc[v], op[v], dirty[v], pending[v]>>
            /\ pc[v] # "idle" => op[v] \in 1..ops /\ kindOf'[op[v]] = kindOf[op[v]]
      BY <3>1, <3>2
    <3>6. \A v \in Worker \ {w} : pc'[v] # "idle" => StandsAt(v, kindOf[op[v]])'
      BY <3>2, <3>5 DEF StandsAt
    <3>7. \A v \in Worker : after'[v] = "audit" =>
              kindOf'[op'[v]] = "plain" /\ op'[v] \in applied'
      BY <3>2, <3>5
    <3>8. \A u, v \in Worker :
            pc'[u] # "idle" /\ pc'[v] # "idle" /\ op'[u] = op'[v] => u = v
      BY <3>2, <3>3, <3>5
    <3>9. \A v \in Worker : pc'[v] # "idle" => StandsAt(v, kindOf[op[v]])'
      BY <3>3, <3>4, <3>5, <3>6 DEF StandsAt
    <3>10. applied' \subseteq 1..ops' /\ \A r \in rows' : r.op <= ops'
      BY <3>2 DEF Rows
    <3> QED
      BY <3>1, <3>2, <3>5, <3>7, <3>8, <3>9, <3>10
  <2>2. ASSUME NEW w \in Worker, Take(w) PROVE WorkInv'
    BY <2>2 DEF Take, StandsAt
  <2>3. ASSUME NEW w \in Worker, Change(w) PROVE WorkInv'
    BY <2>3 DEF Change, StandsAt
  <2>4. ASSUME NEW w \in Worker, Stamp(w) PROVE WorkInv'
    BY <2>4 DEF Stamp, StandsAt
  <2>5. ASSUME NEW w \in Worker, ReadLatest(w) PROVE WorkInv'
    BY <2>5 DEF ReadLatest, StandsAt, Rows
  <2>6. ASSUME NEW w \in Worker, Insert(w) PROVE WorkInv'
    <3>1. PICK s \in {"commit", "audit"} :
            /\ pc' = [pc EXCEPT ![w] = s]
            /\ s = "audit" => kindOf[op[w]] = "uow"
      BY <2>6 DEF Insert
    <3>2. /\ pc[w] = "insert" /\ draft[w].op = op[w]
          /\ pending' = [pending EXCEPT ![w] = @ \cup {draft[w]}]
          /\ draft' = [draft EXCEPT ![w] = NoDraft]
          /\ UNCHANGED <<rows, applied, kindOf, ops, op, after, dirty>>
      BY <2>6 DEF Insert
    <3>3. \A v \in Worker \ {w} :
            /\ pc'[v] = pc[v] /\ op'[v] = op[v] /\ dirty'[v] = dirty[v]
            /\ pending'[v] = pending[v] /\ draft'[v] = draft[v]
      BY <3>1, <3>2
    <3>4. /\ pc'[w] = s /\ s # "idle" /\ pending'[w] = pending[w] \cup {draft[w]}
          /\ StandsAt(w, kindOf[op[w]])
      BY <3>1, <3>2
    <3>5. StandsAt(w, kindOf[op[w]])'
      BY <3>1, <3>2, <3>4 DEF StandsAt
    <3>6. \A v \in Worker : pc'[v] # "idle" => StandsAt(v, kindOf[op[v]])'
      <4> SUFFICES ASSUME NEW v \in Worker, v # w, pc[v] # "idle"
                   PROVE  StandsAt(v, kindOf[op[v]])'
        BY <3>3, <3>5
      <4>1. StandsAt(v, kindOf[op[v]])
        OBVIOUS
      <4> QED
        BY <3>2, <3>3, <4>1 DEF StandsAt
    <3>7. \A v \in Worker :
            /\ \A r \in pending'[v] : r.op = op'[v]
            /\ pc'[v] \in {"read", "insert"} => draft'[v].op = op'[v]
            /\ pc'[v] \in {"idle", "change", "changing", "release"}
                => pending'[v] = {} /\ ~ dirty'[v]
            /\ pc'[v] = "idle" => after'[v] = "idle"
      BY <3>2, <3>3, <3>4
    <3> QED
      BY <3>1, <3>2, <3>3, <3>4, <3>6, <3>7
  <2>7. ASSUME NEW w \in Worker, Commit(w) PROVE WorkInv'
    <3>1. /\ pc[w] = "commit" /\ rows' = rows \cup pending[w]
          /\ applied' = IF dirty[w] THEN applied \cup {op[w]} ELSE applied
          /\ pending' = [pending EXCEPT ![w] = {}]
          /\ dirty' = [dirty EXCEPT ![w] = FALSE]
          /\ after' = [after EXCEPT ![w] =
                IF kindOf[op[w]] = "plain" /\ dirty[w] THEN "audit" ELSE "idle"]
          /\ pc' = [pc EXCEPT ![w] = "release"]
          /\ UNCHANGED <<kindOf, ops, op, draft>>
      BY <2>7 DEF Commit
    <3>2. \A v \in Worker \ {w} :
            /\ pc'[v] = pc[v] /\ op'[v] = op[v] /\ dirty'[v] = dirty[v]
            /\ pending'[v] = pending[v] /\ draft'[v] = draft[v]
            /\ after'[v] = after[v]
      BY <3>1
    <3>3. /\ pc'[w] = "release" /\ pending'[w] = {} /\ ~ dirty'[w]
          /\ after'[w] = "audit" => kindOf[op[w]] = "plain" /\ op[w] \in applied'
      BY <3>1
    <3>4. \A v \in Worker \ {w} :
            pc[v] # "idle" => (op[v] \in applied' <=> op[v] \in applied)
      BY <3>1
    <3>5. applied' \subseteq 1..ops' /\ \A r \in rows' : r.op <= ops'
      <4>1. op[w] \in 1..ops
        BY <3>1
      <4>2. applied' \subseteq applied \cup {op[w]}
        BY <3>1
      <4>3. \A r \in rows' : r \in rows \/ r.op = op[w]
        BY <3>1
      <4>4. \A r \in rows' : r.op <= ops
        BY <4>1, <4>3
      <4>5. applied' \subseteq 1..ops /\ ops' = ops
        BY <3>1, <4>1, <4>2
      <4> QED
        BY <4>4, <4>5
    <3>6. StandsAt(w, kindOf[op[w]]) /\ kindOf[op[w]] \in Kinds
      BY <3>1 DEF StandsAt, Kinds
    <3>7. StandsAt(w, kindOf[op[w]])'
      BY <3>1, <3>3, <3>6 DEF StandsAt
    <3>8. \A v \in Worker : pc'[v] # "idle" => StandsAt(v, kindOf[op[v]])'
      <4> SUFFICES ASSUME NEW v \in Worker, v # w, pc[v] # "idle"
                   PROVE  StandsAt(v, kindOf[op[v]])'
        BY <3>2, <3>7
      <4>1. StandsAt(v, kindOf[op[v]])
        OBVIOUS
      <4> QED
        BY <3>1, <3>2, <3>4, <4>1 DEF StandsAt
    <3>9. \A v \in Worker : after'[v] = "audit" =>
              kindOf'[op'[v]] = "plain" /\ op'[v] \in applied'
      BY <3>1, <3>2, <3>3
    <3>10. \A u, v \in Worker :
            pc'[u] # "idle" /\ pc'[v] # "idle" /\ op'[u] = op'[v] => u = v
      BY <3>1, <3>2
    <3> QED
      BY <3>1, <3>2, <3>3, <3>5, <3>8, <3>9, <3>10
  <2>8. ASSUME NEW w \in Worker, CommitFails(w) PROVE WorkInv'
    BY <2>8 DEF CommitFails, StandsAt
  <2>9. ASSUME NEW w \in Worker, Fail(w) PROVE WorkInv'
    BY <2>9 DEF Fail, StandsAt
  <2>10. ASSUME NEW w \in Worker, Rollback(w) PROVE WorkInv'
    BY <2>10 DEF Rollback, StandsAt
  <2>11. ASSUME NEW w \in Worker, Release(w) PROVE WorkInv'
    BY <2>11 DEF Release, StandsAt
  <2>12. CASE Crash
    BY <2>12 DEF Crash
  <2>13. CASE UNCHANGED vars
    BY <2>13 DEF vars, StandsAt
  <2> QED
    BY <2>1, <2>2, <2>3, <2>4, <2>5, <2>6, <2>7, <2>8, <2>9, <2>10, <2>11,
       <2>12, <2>13 DEF Next, Proceed, Finished
<1> QED
  BY <1>1, <1>2, TypeCorrect, PTL DEF Spec

\* An audit row never tells of a change that did not happen, and a unit of
\* work never commits its change without its row.
THEOREM RowsTellTheTruth == Spec => []AuditMatchesData
<1> USE WriteLockAssumption
<1>1. Init => AuditMatchesData
  BY DEF Init, AuditMatchesData
<1>2. TypeOK /\ WorkInv /\ AuditMatchesData /\ [Next]_vars => AuditMatchesData'
  <2> SUFFICES ASSUME TypeOK, WorkInv, AuditMatchesData, [Next]_vars
               PROVE  AuditMatchesData'
    OBVIOUS
  <2> USE DEF AuditMatchesData
  <2>1. ASSUME NEW w \in Worker, Start(w) PROVE AuditMatchesData'
    <3>1. PICK k \in Kinds : kindOf' = [kindOf EXCEPT ![ops + 1] = k]
      BY <2>1 DEF Start
    <3>2. UNCHANGED <<rows, applied>>
      BY <2>1 DEF Start
    <3>3. \A o \in 1..ops : kindOf'[o] = kindOf[o]
      BY <3>1 DEF TypeOK
    <3>4. applied \subseteq 1..ops /\ \A r \in rows : r.op \in 1..ops
      BY DEF WorkInv, TypeOK, Rows
    <3> QED
      BY <3>2, <3>3, <3>4
  <2>2. ASSUME NEW w \in Worker, Commit(w) PROVE AuditMatchesData'
    <3>1. /\ pc[w] = "commit" /\ rows' = rows \cup pending[w]
          /\ applied' = IF dirty[w] THEN applied \cup {op[w]} ELSE applied
          /\ UNCHANGED kindOf
      BY <2>2 DEF Commit
    <3>2. /\ \A r \in pending[w] : r.op = op[w]
          /\ StandsAt(w, kindOf[op[w]])
      BY <3>1 DEF WorkInv
    <3>3. \A r \in pending[w] : kindOf[r.op] # "note" => r.op \in applied'
      BY <3>1, <3>2 DEF StandsAt
    <3>4. kindOf[op[w]] = "uow" => \E r \in pending[w] : r.op = op[w]
      BY <3>1, <3>2 DEF StandsAt
    <3> QED
      BY <3>1, <3>3, <3>4
  <2>3. CASE UNCHANGED <<rows, applied, kindOf>>
    BY <2>3
  <2> QED
    BY <2>1, <2>2, <2>3 DEF Next, Proceed, Finished, Take, Change, Stamp,
       ReadLatest, Insert, CommitFails, Fail, Rollback, Release, Crash, vars
<1> QED
  BY <1>1, <1>2, TypeCorrect, WorkCorrect, PTL DEF Spec

\* The rows of a unit of work and its change appear in one step: no row of
\* it comes before the change, and none is left for later.
THEOREM OneCommitPerUnit == Spec => UnitOfWorkIsOneCommit
<1> DEFINE Own(o) == {r \in rows : r.op = o}
<1>1. ASSUME TypeOK, WorkInv, [Next]_vars, NEW o \in 1..MaxOps,
             kindOf[o] = "uow", Own(o)' # Own(o)
      PROVE  o \in applied' \ applied
  <2>1. rows' # rows
    BY <1>1
  <2>2. PICK w \in Worker : Commit(w)
    BY <1>1, <2>1 DEF Next, Proceed, Finished, Start, Take, Change, Stamp,
       ReadLatest, Insert, CommitFails, Fail, Rollback, Release, Crash, vars
  <2>3. /\ pc[w] = "commit" /\ rows' = rows \cup pending[w]
        /\ applied' = IF dirty[w] THEN applied \cup {op[w]} ELSE applied
    BY <2>2 DEF Commit
  <2>4. op[w] = o
    BY <1>1, <2>3 DEF WorkInv
  <2>5. dirty[w] /\ o \notin applied
    BY <1>1, <2>3, <2>4 DEF WorkInv, StandsAt
  <2> QED
    BY <2>3, <2>4, <2>5
<1>2. TypeOK /\ WorkInv /\ [Next]_vars =>
        [\A o \in 1..MaxOps :
            kindOf[o] = "uow" /\ {r \in rows' : r.op = o} # {r \in rows : r.op = o}
                => o \in applied' \ applied]_<<rows, applied>>
  BY <1>1
<1> QED
  BY <1>2, TypeCorrect, WorkCorrect, PTL DEF Spec, UnitOfWorkIsOneCommit

=============================================================================
