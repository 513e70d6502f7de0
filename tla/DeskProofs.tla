------------------------------ MODULE DeskProofs ------------------------------
(***************************************************************************)
(* Proofs about the other desks of the back office: leave, sign-in, the    *)
(* reconciliation, the close desk and credit, for any number of sessions,  *)
(* rows and amounts.                                                       *)
(***************************************************************************)
EXTENDS OfficeProofs

-----------------------------------------------------------------------------
(***************************************************************************)
(* Leave: granted once for a day, marked whole, and decided for good.      *)
(***************************************************************************)

\* What a request that has read goes on with (leave_service.py,
\* attendance_service.py).  The one that decides keeps others off its row.
LeaveJob(j) ==
    /\ j.kind = "request" =>
         /\ j.from \in LeaveDay /\ j.to \in LeaveDay /\ j.from <= j.to
         /\ ~ mainPC => \A r \in leaves : Standing(r) => ~ Overlaps(r, j.from, j.to)
    /\ j.kind = "decide" =>
         /\ j.leave \in leaves /\ j.leave.status = "pending"
         /\ j.key = <<"leave", j.leave.id>>
         /\ j.status \in {"approved", "rejected", "cancelled"}
    /\ j.kind = "mark" => j.day \in LeaveDay /\ j.mark \in ByHand
    /\ j.kind = "correct" => j.day \in LeaveDay /\ j.mark \in ByHand

\* A request for leave is known by its number, and numbers follow.
LeavesAreNumbered ==
    /\ IsFiniteSet(leaves)
    /\ \A q, r \in leaves : q.id = r.id => q = r
    /\ \A r \in leaves : r.id <= Cardinality(leaves)

LeaveTables == LeaveTypeOK /\ LeavesAreNumbered /\ OneLeaveADay /\ LeaveIsMarked

LeaveInv ==
    /\ DesksInv /\ LeaveTables
    /\ \A s \in Session : \A j \in {job[s]} : j # Idle => LeaveJob(j)

\* The tables a request leaves alone keep all that is said of them, and what
\* the requests that have read rely on.
LEMMA LeaveTablesStay ==
    ASSUME LeaveTables, UNCHANGED leaveVars, mainPC' = mainPC
    PROVE  LeaveTables' /\ \A j : LeaveJob(j) => LeaveJob(j)'
<1>1. UNCHANGED <<leaves, attendance, corrected>> /\ (~ mainPC)' = (~ mainPC)
  BY DEF leaveVars
<1>2. LeaveTables'
  BY <1>1 DEF LeaveTables, LeaveTypeOK, LeavesAreNumbered, OneLeaveADay, LeaveIsMarked, Standing
<1>. QED BY <1>1, <1>2 DEF LeaveJob, Standing, Overlaps

\* A request that reads relies on what it has just read.
LEMMA LeaveRead ==
    ASSUME LeaveInv, NEW s \in Session, NEW j, Begin(s, j), LeaveJob(j), UNCHANGED leaveVars
    PROVE  LeaveInv'
<1>1. /\ DesksInv' /\ mainPC' = mainPC /\ job'[s] = j
      /\ \A t \in Session : t # s => job'[t] = job[t]
  BY BeginJob DEF LeaveInv
<1>2. LeaveTables' /\ \A i : LeaveJob(i) => LeaveJob(i)'
  BY <1>1, LeaveTablesStay DEF LeaveInv
<1>. QED BY <1>1, <1>2 DEF LeaveInv

\* A request that writes and ends leaves the others, which run on the Main PC
\* only, what they rely on.
LEMMA LeaveEnd ==
    ASSUME LeaveInv, NEW s \in Session, job[s] # Idle, End(s), LeaveTables',
           \A t \in Session : \A j \in {job[t]} :
              t # s /\ j # Idle /\ mainPC = TRUE => LeaveJob(j)'
    PROVE  LeaveInv'
<1>1. /\ DesksInv' /\ job'[s] = Idle /\ mainPC' = mainPC
      /\ \A t \in Session : t # s => job'[t] = job[t]
  BY EndJob DEF LeaveInv
<1>2. ASSUME NEW t \in Session, NEW j \in {job'[t]}, j # Idle PROVE LeaveJob(j)'
  <2>1. t # s /\ job[t] = j /\ mainPC = TRUE
    BY <1>1, <1>2 DEF LeaveInv, DesksInv
  <2>. QED BY <1>2, <2>1
<1>. QED BY <1>1, <1>2 DEF LeaveInv

\* On the Main PC, what a request relies on survives every write that leaves
\* the row it names.
LEMMA LeaveJobKept ==
    ASSUME mainPC = TRUE, mainPC' = mainPC, NEW j, LeaveJob(j),
           j.kind = "decide" => j.leave \in leaves'
    PROVE  LeaveJob(j)'
<1>1. (~ mainPC)' = FALSE /\ (~ mainPC) = FALSE
  OBVIOUS
<1>. QED BY <1>1 DEF LeaveJob

\* Leave is asked for (submit_leave_request).
LEMMA LeaveRequested ==
    ASSUME LeaveInv, NEW s \in Session, RequestWrite(s)
    PROVE  LeaveInv'
<1>1. PICK j : j = job[s]
  OBVIOUS
<1>2. /\ j # Idle /\ LeaveJob(j) /\ j.kind = "request" /\ End(s) /\ mainPC' = mainPC
      /\ LeaveTables /\ LeaveTypeOK /\ LeavesAreNumbered /\ OneLeaveADay /\ LeaveIsMarked
  BY <1>1 DEF RequestWrite, Runs, LeaveInv, LeaveTables, End
<1>3. PICK r : r = [id |-> Cardinality(leaves) + 1, from |-> j.from, to |-> j.to,
                    status |-> "pending"]
  OBVIOUS
<1>4. /\ leaves' = leaves \cup {r} /\ UNCHANGED <<attendance, corrected>>
      /\ Cardinality(leaves) < MaxLeaves
  BY <1>1, <1>3 DEF RequestWrite
<1>5. j.from \in LeaveDay /\ j.to \in LeaveDay /\ j.from <= j.to
  BY <1>2 DEF LeaveJob
<1>6. Cardinality(leaves) \in Nat /\ \A q \in leaves : q.id \in Nat /\ q.id <= Cardinality(leaves)
  BY <1>2, FS_CardinalityType DEF LeavesAreNumbered, LeaveTypeOK, LeaveRow
<1>7. r \in LeaveRow /\ r \notin leaves
  BY <1>3, <1>4, <1>5, <1>6, LeaveAssumption DEF LeaveRow
<1>8. LeaveTypeOK'
  BY <1>2, <1>4, <1>7 DEF LeaveTypeOK
<1>9. LeavesAreNumbered'
  <2>1. IsFiniteSet(leaves') /\ Cardinality(leaves') = Cardinality(leaves) + 1
    BY <1>2, <1>4, <1>7, FS_AddElement DEF LeavesAreNumbered
  <2>2. \A q \in leaves' : q.id <= Cardinality(leaves')
    BY <1>3, <1>4, <1>6, <2>1
  <2>3. \A q, p \in leaves' : q.id = p.id => q = p
    BY <1>2, <1>3, <1>4, <1>6 DEF LeavesAreNumbered
  <2>. QED BY <2>1, <2>2, <2>3 DEF LeavesAreNumbered
<1>10. OneLeaveADay'
  <2>1. (~ mainPC)' = (~ mainPC)
    BY <1>2
  <2>2. SUFFICES ASSUME ~ mainPC, NEW q \in leaves', NEW p \in leaves', Standing(q), Standing(p),
                        (q.from .. q.to) \cap (p.from .. p.to) # {}
                 PROVE  q = p
    BY <2>1 DEF OneLeaveADay, Standing
  <2>3. ASSUME NEW o \in leaves, Standing(o) PROVE (o.from .. o.to) \cap (r.from .. r.to) = {}
    <3>1. ~ Overlaps(o, j.from, j.to)
      BY <1>2, <2>2, <2>3 DEF LeaveJob
    <3>2. o.from \in Int /\ o.to \in Int /\ j.from \in Int /\ j.to \in Int
      BY <1>2, <1>5, LeaveAssumption DEF LeaveTypeOK, LeaveRow, LeaveDay
    <3>3. r.from = j.from /\ r.to = j.to
      BY <1>3
    <3>. QED BY <3>1, <3>2, <3>3 DEF Overlaps
  <2>4. CASE q \in leaves /\ p \in leaves
    BY <1>2, <2>2, <2>4 DEF OneLeaveADay
  <2>. QED BY <1>4, <2>2, <2>3, <2>4
<1>11. LeaveIsMarked'
  <2>1. r.status # "approved"
    BY <1>3
  <2>. QED BY <1>2, <1>4, <2>1 DEF LeaveIsMarked
<1>12. LeaveTables'
  BY <1>8, <1>9, <1>10, <1>11 DEF LeaveTables
<1>13. ASSUME NEW t \in Session, NEW i \in {job[t]}, t # s, i # Idle, mainPC = TRUE
       PROVE  LeaveJob(i)'
  <2>1. LeaveJob(i)
    BY <1>13 DEF LeaveInv
  <2>. QED BY <1>2, <1>4, <1>13, <2>1, LeaveJobKept DEF LeaveJob
<1>. QED BY <1>1, <1>2, <1>12, <1>13, LeaveEnd

\* A request is decided (approve, reject, cancel); an approval marks its days.
LEMMA LeaveDecided ==
    ASSUME LeaveInv, NEW s \in Session, DecideWrite(s)
    PROVE  LeaveInv' /\ \A q \in leaves : q.status # "pending" => q \in leaves'
<1>1. PICK j : j = job[s]
  OBVIOUS
<1>2. /\ j # Idle /\ LeaveJob(j) /\ j.kind = "decide" /\ End(s) /\ mainPC' = mainPC
      /\ LeaveTables /\ LeaveTypeOK /\ LeavesAreNumbered /\ OneLeaveADay /\ LeaveIsMarked
  BY <1>1 DEF DecideWrite, Runs, LeaveInv, LeaveTables, End
<1>3. PICK r : r = j.leave
  OBVIOUS
<1>4. /\ r \in leaves /\ r.status = "pending" /\ j.key = <<"leave", r.id>>
      /\ j.status \in {"approved", "rejected", "cancelled"} /\ r \in LeaveRow
  BY <1>2, <1>3 DEF LeaveJob, LeaveTypeOK
<1>5. PICK new : new = [r EXCEPT !.status = j.status]
  OBVIOUS
<1>6. /\ new \in LeaveRow /\ new.id = r.id /\ new.from = r.from /\ new.to = r.to
      /\ new.status = j.status
  BY <1>4, <1>5 DEF LeaveRow
<1>7. \A q \in leaves : q.id = r.id <=> q = r
  BY <1>2, <1>4 DEF LeavesAreNumbered
<1>8. PICK days : days = IF j.status = "approved" THEN r.from .. r.to ELSE {}
  OBVIOUS
<1>9. /\ leaves' = {IF q = r THEN new ELSE q : q \in leaves}
      /\ attendance' = [d \in LeaveDay |-> IF d \in days THEN "leave" ELSE attendance[d]]
      /\ corrected' = corrected \ days
  <2>1. /\ leaves' = {IF q.id = r.id THEN [q EXCEPT !.status = j.status] ELSE q : q \in leaves}
        /\ attendance' = [d \in LeaveDay |-> IF d \in days THEN "leave" ELSE attendance[d]]
        /\ corrected' = corrected \ days
    BY <1>1, <1>3, <1>8 DEF DecideWrite, ToMark
  <2>2. \A q \in leaves : (IF q.id = r.id THEN [q EXCEPT !.status = j.status] ELSE q)
                            = (IF q = r THEN new ELSE q)
    BY <1>5, <1>7
  <2>. QED BY <2>1, <2>2
<1>10. leaves' = (leaves \ {r}) \cup {new}
  BY <1>4, <1>9
<1>11. new \notin leaves
  BY <1>4, <1>6, <1>7
<1>12. LeaveTypeOK'
  <2>1. attendance' \in [LeaveDay -> Mark \cup {Unmarked}]
    BY <1>2, <1>9 DEF LeaveTypeOK, Mark
  <2>. QED BY <1>2, <1>6, <1>9, <1>10, <2>1 DEF LeaveTypeOK
<1>13. LeavesAreNumbered'
  <2>1. IsFiniteSet(leaves \ {r}) /\ Cardinality(leaves \ {r}) = Cardinality(leaves) - 1
        /\ Cardinality(leaves) \in Nat
    BY <1>2, <1>4, FS_RemoveElement, FS_CardinalityType DEF LeavesAreNumbered
  <2>2. IsFiniteSet(leaves') /\ Cardinality(leaves') = Cardinality(leaves)
    BY <1>10, <1>11, <2>1, FS_AddElement
  <2>. QED BY <1>2, <1>4, <1>6, <1>7, <1>10, <2>2 DEF LeavesAreNumbered
<1>14. OneLeaveADay'
  <2>1. (~ mainPC)' = (~ mainPC)
    BY <1>2
  <2>2. SUFFICES ASSUME ~ mainPC, NEW q \in leaves', NEW p \in leaves', Standing(q), Standing(p),
                        (q.from .. q.to) \cap (p.from .. p.to) # {}
                 PROVE  q = p
    BY <2>1 DEF OneLeaveADay, Standing
  <2>3. Standing(r)
    BY <1>4 DEF Standing
  <2>. QED BY <1>2, <1>4, <1>6, <1>10, <2>2, <2>3 DEF OneLeaveADay
<1>15. LeaveIsMarked'
  <2>1. SUFFICES ASSUME NEW q \in leaves', q.status = "approved", NEW d \in q.from .. q.to
                 PROVE  attendance'[d] = "leave" \/ d \in corrected'
    BY DEF LeaveIsMarked
  <2>2. q \in LeaveRow
    BY <1>12 DEF LeaveTypeOK
  <2>3. d \in LeaveDay
    BY <2>1, <2>2, LeaveAssumption DEF LeaveRow, LeaveDay
  <2>4. CASE q = new
    BY <1>6, <1>8, <1>9, <2>1, <2>3, <2>4
  <2>5. CASE q \in leaves
    <3>1. attendance[d] = "leave" \/ d \in corrected
      BY <1>2, <2>1, <2>5 DEF LeaveIsMarked
    <3>. QED BY <1>9, <2>3, <3>1
  <2>. QED BY <1>10, <2>4, <2>5
<1>16. LeaveTables'
  BY <1>12, <1>13, <1>14, <1>15 DEF LeaveTables
<1>17. ASSUME NEW t \in Session, NEW i \in {job[t]}, t # s, i # Idle, mainPC = TRUE
       PROVE  LeaveJob(i)'
  <2>1. LeaveJob(i)
    BY <1>17 DEF LeaveInv
  <2>2. i.kind = "decide" => i.leave \in leaves'
    <3>1. i.key = j.key => j.key = NoRecord
      BY <1>1, <1>2, <1>17 DEF LeaveInv, DesksInv
    <3>2. j.key # NoRecord
      BY <1>4, LeaveAssumption DEF LeaveRow
    <3>. QED BY <1>4, <1>10, <2>1, <3>1, <3>2 DEF LeaveJob
  <2>. QED BY <1>2, <1>17, <2>1, <2>2, LeaveJobKept
<1>. QED BY <1>1, <1>2, <1>4, <1>10, <1>16, <1>17, LeaveEnd

\* A day is marked by hand, or corrected (attendance_service.py).
LEMMA DayWritten ==
    ASSUME LeaveInv, NEW s \in Session, MarkWrite(s) \/ CorrectWrite(s)
    PROVE  LeaveInv'
<1>1. PICK j : j = job[s]
  OBVIOUS
<1>2. /\ j # Idle /\ LeaveJob(j) /\ j.kind \in {"mark", "correct"} /\ End(s) /\ mainPC' = mainPC
      /\ LeaveTables /\ LeaveTypeOK /\ LeavesAreNumbered /\ OneLeaveADay /\ LeaveIsMarked
      /\ leaves' = leaves
  BY <1>1 DEF MarkWrite, CorrectWrite, Runs, LeaveInv, LeaveTables, End
<1>3. j.day \in LeaveDay /\ j.mark \in ByHand /\ (~ mainPC)' = (~ mainPC)
  BY <1>2 DEF LeaveJob
<1>4. \/ UNCHANGED <<attendance, corrected>>
      \/ /\ attendance' = [attendance EXCEPT ![j.day] = j.mark]
         /\ \/ attendance[j.day] = Unmarked /\ corrected' = corrected
            \/ corrected' = corrected \cup {j.day}
  BY <1>1 DEF MarkWrite, CorrectWrite, NotTaken
<1>5. LeaveTypeOK' /\ LeaveIsMarked'
  <2>1. CASE UNCHANGED <<attendance, corrected>>
    BY <1>2, <2>1 DEF LeaveTypeOK, LeaveIsMarked
  <2>2. CASE /\ attendance' = [attendance EXCEPT ![j.day] = j.mark]
             /\ \/ attendance[j.day] = Unmarked /\ corrected' = corrected
                \/ corrected' = corrected \cup {j.day}
    <3>1. attendance' \in [LeaveDay -> Mark \cup {Unmarked}] /\ corrected' \subseteq LeaveDay
      BY <1>2, <1>3, <2>2, LeaveAssumption DEF LeaveTypeOK, Mark
    <3>2. \A d \in LeaveDay : attendance[d] = "leave" \/ d \in corrected
                               => attendance'[d] = "leave" \/ d \in corrected'
      BY <1>2, <1>3, <2>2, LeaveAssumption DEF LeaveTypeOK
    <3>3. \A r \in leaves : r.from .. r.to \subseteq LeaveDay
      BY <1>2, LeaveAssumption DEF LeaveTypeOK, LeaveRow, LeaveDay
    <3>4. LeaveIsMarked'
      BY <1>2, <3>2, <3>3 DEF LeaveIsMarked
    <3>. QED BY <1>2, <3>1, <3>4 DEF LeaveTypeOK
  <2>. QED BY <1>4, <2>1, <2>2
<1>6. LeaveTables'
  BY <1>2, <1>3, <1>5 DEF LeaveTables, LeavesAreNumbered, OneLeaveADay, Standing
<1>7. ASSUME NEW t \in Session, NEW i \in {job[t]}, t # s, i # Idle, mainPC = TRUE
      PROVE  LeaveJob(i)'
  <2>1. LeaveJob(i)
    BY <1>7 DEF LeaveInv
  <2>. QED BY <1>2, <1>7, <2>1, LeaveJobKept DEF LeaveJob
<1>. QED BY <1>1, <1>2, <1>6, <1>7, LeaveEnd

\* The reads.
LEMMA LeaveReads ==
    ASSUME LeaveInv, NEW s \in Session,
           RequestRead(s) \/ DecideRead(s) \/ MarkRead(s) \/ CorrectRead(s)
    PROVE  LeaveInv'
<1>. SUFFICES \E j : Begin(s, j) /\ LeaveJob(j) /\ UNCHANGED leaveVars
  BY LeaveRead
<1>1. CASE RequestRead(s)
  <2>1. PICK from \in LeaveDay, to \in LeaveDay :
          /\ from <= to /\ \A r \in leaves : Standing(r) => ~ Overlaps(r, from, to)
          /\ Begin(s, [kind |-> "request", key |-> NoRecord, from |-> from, to |-> to])
    BY <1>1 DEF RequestRead
  <2>2. LeaveJob([kind |-> "request", key |-> NoRecord, from |-> from, to |-> to])
    BY <2>1 DEF LeaveJob
  <2>. QED BY <1>1, <2>1, <2>2 DEF RequestRead
<1>2. CASE DecideRead(s)
  <2>1. PICK r \in leaves, decision \in {"approved", "rejected", "cancelled"} :
          /\ r.status = "pending"
          /\ Begin(s, [kind |-> "decide", key |-> <<"leave", r.id>>, leave |-> r,
                       status |-> decision])
    BY <1>2 DEF DecideRead, MayDecide
  <2>2. LeaveJob([kind |-> "decide", key |-> <<"leave", r.id>>, leave |-> r, status |-> decision])
    BY <2>1 DEF LeaveJob
  <2>. QED BY <1>2, <2>1, <2>2 DEF DecideRead
<1>3. CASE MarkRead(s)
  <2>1. PICK d \in LeaveDay, mark \in ByHand :
          Begin(s, [kind |-> "mark", key |-> NoRecord, day |-> d, mark |-> mark])
    BY <1>3 DEF MarkRead
  <2>2. LeaveJob([kind |-> "mark", key |-> NoRecord, day |-> d, mark |-> mark])
    BY DEF LeaveJob
  <2>. QED BY <1>3, <2>1, <2>2 DEF MarkRead
<1>4. CASE CorrectRead(s)
  <2>1. PICK d \in LeaveDay, mark \in ByHand :
          Begin(s, [kind |-> "correct", key |-> <<"attendance", d>>, day |-> d,
                    mark |-> mark, seen |-> attendance[d]])
    BY <1>4 DEF CorrectRead
  <2>2. LeaveJob([kind |-> "correct", key |-> <<"attendance", d>>, day |-> d,
                  mark |-> mark, seen |-> attendance[d]])
    BY DEF LeaveJob
  <2>. QED BY <1>4, <2>1, <2>2 DEF CorrectRead
<1>. QED BY <1>1, <1>2, <1>3, <1>4

\* What holds at the start and is kept by every step, and that no step touches
\* what was decided.
LEMMA LeaveInductive ==
    /\ DesksInit /\ LeaveInit => LeaveInv
    /\ LeaveInv /\ [LeaveNext]_<<deskVars, leaveVars>> =>
          LeaveInv' /\ \A r \in leaves : r.status # "pending" => r \in leaves'
<1>1. ASSUME DesksInit, LeaveInit PROVE LeaveInv
  <2>1. DesksInv /\ \A s \in Session : job[s] = Idle
    BY <1>1, DesksStart DEF DesksInit
  <2>2. LeaveTables
    BY <1>1, FS_EmptySet
       DEF LeaveInit, LeaveTables, LeaveTypeOK, LeavesAreNumbered, OneLeaveADay, LeaveIsMarked
  <2>. QED BY <2>1, <2>2 DEF LeaveInv
<1>2. ASSUME LeaveInv, [LeaveNext]_<<deskVars, leaveVars>>
      PROVE  LeaveInv' /\ \A r \in leaves : r.status # "pending" => r \in leaves'
  <2>1. CASE UNCHANGED <<deskVars, leaveVars>>
    <3>1. UNCHANGED <<mainPC, job>> /\ DesksInv' /\ UNCHANGED leaveVars
      BY <1>2, <2>1, DesksStay DEF deskVars, LeaveInv
    <3>2. LeaveTables' /\ \A j : LeaveJob(j) => LeaveJob(j)'
      BY <1>2, <3>1, LeaveTablesStay DEF LeaveInv
    <3>. QED BY <1>2, <3>1, <3>2 DEF LeaveInv, leaveVars
  <2>2. ASSUME NEW s \in Session, GiveUp(s), UNCHANGED leaveVars
        PROVE  LeaveInv' /\ leaves' = leaves
    <3>1. job[s] # Idle /\ End(s) /\ mainPC' = mainPC
      BY <2>2 DEF GiveUp, End
    <3>2. LeaveTables' /\ \A j : LeaveJob(j) => LeaveJob(j)'
      BY <1>2, <2>2, <3>1, LeaveTablesStay DEF LeaveInv
    <3>3. LeaveInv'
      BY <1>2, <3>1, <3>2, LeaveEnd DEF LeaveInv
    <3>. QED BY <2>2, <3>3 DEF leaveVars
  <2>3. ASSUME NEW s \in Session, RequestWrite(s) PROVE LeaveInv' /\ leaves \subseteq leaves'
    BY <1>2, <2>3, LeaveRequested DEF RequestWrite
  <2>4. ASSUME NEW s \in Session, MarkWrite(s) \/ CorrectWrite(s) PROVE LeaveInv' /\ leaves' = leaves
    BY <1>2, <2>4, DayWritten DEF MarkWrite, CorrectWrite
  <2>5. ASSUME NEW s \in Session,
               RequestRead(s) \/ DecideRead(s) \/ MarkRead(s) \/ CorrectRead(s)
        PROVE  LeaveInv' /\ leaves' = leaves
    BY <1>2, <2>5, LeaveReads DEF RequestRead, DecideRead, MarkRead, CorrectRead, leaveVars
  <2>. QED BY <1>2, <2>1, <2>2, <2>3, <2>4, <2>5, LeaveDecided DEF LeaveNext
<1>. QED BY <1>1, <1>2

\* What leave_service.py is trusted with: leave is granted once for a day,
\* marked whole and decided for good, for any days, requests and sessions.
THEOREM LeaveIsTaken == LeaveSpec => LeaveIsTakenAsDecided
<1>1. LeaveInv => OneLeaveADay /\ LeaveIsMarked
  BY DEF LeaveInv, LeaveTables
<1>2. LeaveInv /\ [LeaveNext]_<<deskVars, leaveVars>> =>
         [\A r \in leaves : r.status # "pending" => r \in leaves']_<<deskVars, leaveVars>>
  BY LeaveInductive
<1>. QED BY <1>1, <1>2, LeaveInductive, PTL DEF LeaveSpec, LeaveIsTakenAsDecided, DecidedForGood

-----------------------------------------------------------------------------
(***************************************************************************)
(* Sign-in: guessing ends in a lockout, a one-time code works once, and a  *)
(* temporary password is to be changed.  All this is said of one window.   *)
(***************************************************************************)

\* The columns of the account, as a request may write them.
AccountRow == [active : BOOLEAN, locked : BOOLEAN, at : Nat, failed : Nat, code : Nat,
               password : Nat, must : BOOLEAN]

\* In one window the row a request has read is the row as it is.
SignInJob(j) ==
    /\ ~ mainPC => j.row = account
    /\ j.kind \in {"sign in", "unlock screen"} => DOMAIN j = {"kind", "key", "right", "row"}

\* The account is locked when the attempts that are counted are used up.
LockoutFollows ==
    /\ guesses = account.failed
    /\ account.locked <=> account.failed = MaxFailedLoginAttempts
    /\ account.locked => account.at # NoStamp

\* A code that stands, or was not given out yet, has set no password.
CodesFollow ==
    /\ codeUses \in [1 .. MaxResetCodes -> 0 .. 1]
    /\ account.code <= given
    /\ \A k \in 1 .. MaxResetCodes : given < k \/ k = account.code => codeUses[k] = 0

\* A password is one that was set.
PasswordsFollow ==
    /\ chooser \in Seq({"user", "administrator"})
    /\ chooser[account.password] = "administrator" => account.must

SignInTables == SignInTypeOK /\ LockoutFollows /\ CodesFollow /\ PasswordsFollow

SignInInv ==
    /\ DesksInv /\ (~ mainPC => SignInTables)
    /\ \A s \in Session : \A j \in {job[s]} : j # Idle => SignInJob(j)

\* In one window a request that runs is the only one.
LEMMA RunsAlone ==
    ASSUME DesksInv, ~ mainPC, NEW s \in Session, job[s] # Idle
    PROVE  \A t \in Session : t # s => job[t] = Idle
BY DEF DesksInv

\* The columns that changed are the whole difference, of a row that was read
\* as it is.
LEMMA RowStored ==
    ASSUME account \in AccountRow, NEW new \in AccountRow
    PROVE  StoredRow(account, new) = new
<1>. DEFINE c == {"active", "locked", "at", "failed", "code", "password", "must"}
<1>1. DOMAIN account = c /\ DOMAIN new = c
  BY DEF AccountRow
<1>2. StoredRow(account, new) = [f \in c |-> new[f]]
  BY <1>1 DEF StoredRow
<1>3. new = [f \in c |-> new[f]]
  BY <1>1 DEF AccountRow
<1>. QED BY <1>2, <1>3

\* The types of the account, and the locked account's count.
LEMMA AccountTypes ==
    ASSUME SignInTables
    PROVE  /\ account \in AccountRow /\ account.failed \in 0 .. MaxFailedLoginAttempts
           /\ account.password \in 1 .. Len(chooser) /\ Len(chooser) \in Nat
           /\ DOMAIN chooser = 1 .. Len(chooser)
           /\ account.code \in 0 .. MaxResetCodes /\ account.at \in 0 .. MaxLocks
           /\ MaxFailedLoginAttempts \in Nat \ {0} /\ MaxLocks \in Nat /\ MaxResetCodes \in Nat
<1>1. /\ MaxFailedLoginAttempts \in Nat \ {0} /\ MaxLocks \in Nat /\ MaxResetCodes \in Nat
      /\ chooser \in Seq({"user", "administrator"})
  BY SignInAssumption DEF SignInTables, PasswordsFollow
<1>2. Len(chooser) \in Nat /\ DOMAIN chooser = 1 .. Len(chooser)
  BY <1>1
<1>3. /\ account.active \in BOOLEAN /\ account.locked \in BOOLEAN /\ account.at \in 0 .. MaxLocks
      /\ account.failed \in 0 .. MaxFailedLoginAttempts /\ account.code \in 0 .. MaxResetCodes
      /\ account.password \in DOMAIN chooser /\ account.must \in BOOLEAN
      /\ account = [active |-> account.active, locked |-> account.locked, at |-> account.at,
                    failed |-> account.failed, code |-> account.code,
                    password |-> account.password, must |-> account.must]
  BY DEF SignInTables, SignInTypeOK
<1>4. account \in AccountRow
  BY <1>1, <1>2, <1>3 DEF AccountRow
<1>. QED BY <1>1, <1>2, <1>3, <1>4

\* The row with the columns of an attempt changed.
Attempted(f, l, a) == [account EXCEPT !.failed = f, !.locked = l, !.at = a]

\* It is a row of the table.
LEMMA RowChanged ==
    ASSUME account \in AccountRow, NEW f \in Nat, NEW l \in BOOLEAN, NEW a \in Nat
    PROVE  LET new == Attempted(f, l, a) IN
             /\ new \in AccountRow /\ new.failed = f /\ new.locked = l /\ new.at = a
             /\ new.active = account.active /\ new.code = account.code
             /\ new.password = account.password /\ new.must = account.must
<1>1. Attempted(f, l, a) \in AccountRow
  BY DEF AccountRow, Attempted
<1>2. DOMAIN account = {"active", "locked", "at", "failed", "code", "password", "must"}
  BY DEF AccountRow
<1>. QED BY <1>1, <1>2 DEF Attempted

\* Columns a request may write, and the type of the row it stores.
LEMMA AccountStored ==
    ASSUME SignInTables, NEW new \in AccountRow, new.at \in 0 .. MaxLocks,
           new.failed \in 0 .. MaxFailedLoginAttempts, new.code \in 0 .. MaxResetCodes,
           new.password \in DOMAIN chooser', account' = new
    PROVE  account' \in [active : BOOLEAN, locked : BOOLEAN, at : 0 .. MaxLocks,
                         failed : 0 .. MaxFailedLoginAttempts, code : 0 .. MaxResetCodes,
                         password : DOMAIN chooser', must : BOOLEAN]
BY DEF AccountRow

\* A step of another desk keeps what is said of accounts and of the requests to them.
LEMMA SignInTablesStay ==
    ASSUME UNCHANGED signInVars, mainPC' = mainPC
    PROVE  /\ (~ mainPC)' = (~ mainPC) /\ (SignInTables => SignInTables')
           /\ \A j : SignInJob(j) => SignInJob(j)'
<1>1. UNCHANGED <<account, locks, lapsed, guesses, given, codeUses, chooser>>
  BY DEF signInVars, attemptVars
<1>2. (~ mainPC)' = (~ mainPC)
  OBVIOUS
<1>. QED BY <1>1, <1>2 DEF SignInTables, SignInTypeOK, LockoutFollows, CodesFollow,
                          PasswordsFollow, SignInJob

\* A request that reads relies on what it has just read.
LEMMA SignInRead ==
    ASSUME SignInInv, NEW s \in Session, NEW j, Begin(s, j), SignInJob(j), UNCHANGED signInVars
    PROVE  SignInInv'
<1>1. /\ DesksInv' /\ mainPC' = mainPC /\ job'[s] = j
      /\ \A t \in Session : t # s => job'[t] = job[t]
  BY BeginJob DEF SignInInv
<1>2. /\ (~ mainPC)' = (~ mainPC) /\ (SignInTables => SignInTables')
      /\ \A i : SignInJob(i) => SignInJob(i)'
  BY <1>1, SignInTablesStay
<1>. QED BY <1>1, <1>2 DEF SignInInv

\* A request that ends was the only one of its window; those of the Main PC
\* rely on nothing.
LEMMA SignInEnd ==
    ASSUME SignInInv, NEW s \in Session, job[s] # Idle, End(s), ~ mainPC => SignInTables'
    PROVE  SignInInv'
<1>1. /\ DesksInv' /\ job'[s] = Idle /\ mainPC' = mainPC
      /\ \A t \in Session : t # s => job'[t] = job[t]
  BY EndJob DEF SignInInv
<1>2. (~ mainPC)' = (~ mainPC)
  BY <1>1
<1>3. ASSUME NEW t \in Session, NEW j \in {job'[t]}, j # Idle PROVE SignInJob(j)'
  <2>1. t # s /\ job[t] = j /\ SignInJob(j)
    BY <1>1, <1>3 DEF SignInInv
  <2>2. ~ (~ mainPC)
    BY <1>3, <2>1, RunsAlone DEF SignInInv
  <2>. QED BY <1>2, <2>1, <2>2 DEF SignInJob
<1>. QED BY <1>1, <1>2, <1>3 DEF SignInInv

\* An attempt is counted, and locks the account when it is the last allowed
\* (_record_failed_login); a right one starts the count again.
LEMMA AttemptMade ==
    ASSUME SignInInv, NEW s \in Session, AttemptFails(s) \/ AttemptSucceeds(s)
    PROVE  /\ SignInInv'
           /\ ~ mainPC /\ account.locked => account'.locked
<1>1. PICK j : j = job[s]
  OBVIOUS
<1>2. /\ j # Idle /\ j.kind \in {"sign in", "unlock screen"} /\ End(s)
      /\ ~ j.row.locked /\ UNCHANGED <<lapsed, given, codeUses, chooser>>
  BY <1>1 DEF AttemptFails, AttemptSucceeds, Admitted, Attempts, Runs
<1>3. ASSUME ~ mainPC PROVE SignInTables' /\ ~ account.locked
  <2>1. SignInTables /\ SignInJob(j) /\ j.row = account /\ ~ account.locked
    BY <1>1, <1>2, <1>3 DEF SignInInv, SignInJob
  <2>2. /\ SignInTypeOK /\ LockoutFollows /\ CodesFollow /\ PasswordsFollow
        /\ account \in AccountRow /\ account.failed \in 0 .. MaxFailedLoginAttempts
        /\ account.password \in DOMAIN chooser
        /\ account.code \in 0 .. MaxResetCodes /\ account.at \in 0 .. MaxLocks
        /\ MaxFailedLoginAttempts \in Nat \ {0} /\ MaxLocks \in Nat
    BY <2>1, AccountTypes DEF SignInTables
  <2>3. CASE AttemptFails(s)
    <3>1. PICK n \in Int : n = account.failed + 1
      BY <2>2
    <3>2. PICK full \in BOOLEAN : full <=> n >= MaxFailedLoginAttempts
      OBVIOUS
    <3>3. PICK at : at = IF full THEN locks' ELSE account.at
      OBVIOUS
    <3>4. /\ account' = StoredRow(account, [account EXCEPT !.failed = n, !.locked = full, !.at = at])
          /\ guesses' = guesses + 1 /\ (full => locks < MaxLocks)
          /\ locks' = IF full THEN locks + 1 ELSE locks
      <4>1. (n >= MaxFailedLoginAttempts) = full
        BY <3>2
      <4>. QED BY <1>1, <2>1, <2>3, <3>1, <3>3, <4>1 DEF AttemptFails, Locks
    <3>5. locks' \in 0 .. MaxLocks /\ (full => locks' # 0) /\ at \in 0 .. MaxLocks
      BY <2>2, <3>3, <3>4 DEF SignInTypeOK
    <3>6. /\ account.failed < MaxFailedLoginAttempts /\ n \in 0 .. MaxFailedLoginAttempts
          /\ full <=> n = MaxFailedLoginAttempts
      BY <2>1, <2>2, <3>1, <3>2 DEF LockoutFollows
    <3>7. PICK new : new = Attempted(n, full, at)
      OBVIOUS
    <3>8. /\ new \in AccountRow /\ new.failed = n /\ new.locked = full /\ new.at = at
          /\ new.code = account.code /\ new.password = account.password
          /\ new.must = account.must
      <4>1. n \in Nat /\ at \in Nat
        BY <2>2, <3>5, <3>6
      <4>. QED BY <2>2, <3>7, <4>1, RowChanged
    <3>9. account' = new
      BY <2>2, <3>4, <3>7, <3>8, RowStored DEF Attempted
    <3>10. SignInTypeOK'
      BY <1>2, <2>1, <2>2, <3>5, <3>6, <3>8, <3>9, AccountStored DEF SignInTypeOK
    <3>11. LockoutFollows'
      <4>1. guesses' = account'.failed
        BY <2>2, <3>1, <3>4, <3>8, <3>9 DEF LockoutFollows
      <4>2. account'.locked <=> account'.failed = MaxFailedLoginAttempts
        BY <3>6, <3>8, <3>9
      <4>3. account'.locked => account'.at # NoStamp
        BY <3>3, <3>5, <3>8, <3>9 DEF NoStamp
      <4>. QED BY <4>1, <4>2, <4>3 DEF LockoutFollows
    <3>12. CodesFollow' /\ PasswordsFollow'
      BY <1>2, <2>2, <3>8, <3>9 DEF CodesFollow, PasswordsFollow
    <3>. QED BY <2>1, <3>10, <3>11, <3>12 DEF SignInTables
  <2>4. CASE AttemptSucceeds(s)
    <3>1. PICK at \in {NoStamp, account.at} : account' = StoredRow(account,
              [account EXCEPT !.failed = 0, !.locked = FALSE, !.at = at])
      <4>1. CASE Runs(s, "sign in")
        BY <1>1, <2>1, <2>4, <4>1 DEF AttemptSucceeds
      <4>2. CASE ~ Runs(s, "sign in")
        <5>1. account' = StoredRow(account, [account EXCEPT !.failed = 0])
          BY <1>1, <2>1, <2>4, <4>2 DEF AttemptSucceeds
        <5>2. [account EXCEPT !.failed = 0]
                = [account EXCEPT !.failed = 0, !.locked = FALSE, !.at = account.at]
          BY <2>1, <2>2 DEF AccountRow
        <5>. QED BY <5>1, <5>2
      <4>. QED BY <4>1, <4>2
    <3>2. guesses' = 0 /\ locks' = locks /\ at \in 0 .. MaxLocks
      <4>1. guesses' = 0 /\ locks' = locks
        BY <2>4 DEF AttemptSucceeds
      <4>2. at \in 0 .. MaxLocks
        BY <2>2, <3>1 DEF NoStamp
      <4>. QED BY <4>1, <4>2
    <3>3. PICK new : new = Attempted(0, FALSE, at)
      OBVIOUS
    <3>4. /\ new \in AccountRow /\ new.failed = 0 /\ new.locked = FALSE /\ new.at = at
          /\ new.code = account.code /\ new.password = account.password
          /\ new.must = account.must
      <4>1. 0 \in Nat /\ at \in Nat
        BY <2>2, <3>2
      <4>2. ASSUME NEW no \in BOOLEAN, ~ no, new = Attempted(0, no, at)
            PROVE  /\ new \in AccountRow /\ new.failed = 0 /\ new.locked = no /\ new.at = at
                   /\ new.code = account.code /\ new.password = account.password
                   /\ new.must = account.must
        BY <2>2, <4>1, <4>2, RowChanged
      <4>. QED BY <3>3, <4>2
    <3>5. account' = new
      BY <2>2, <3>1, <3>3, <3>4, RowStored DEF Attempted
    <3>6. SignInTypeOK'
      <4>1. 0 \in 0 .. MaxFailedLoginAttempts
        BY <2>2
      <4>. QED BY <1>2, <2>1, <2>2, <3>2, <3>4, <3>5, <4>1, AccountStored DEF SignInTypeOK
    <3>7. LockoutFollows'
      BY <2>2, <3>2, <3>4, <3>5 DEF LockoutFollows
    <3>8. CodesFollow' /\ PasswordsFollow'
      BY <1>2, <2>2, <3>4, <3>5 DEF CodesFollow, PasswordsFollow
    <3>. QED BY <2>1, <3>6, <3>7, <3>8 DEF SignInTables
  <2>. QED BY <2>3, <2>4
<1>4. SignInInv'
  BY <1>1, <1>2, <1>3, SignInEnd
<1>. QED BY <1>3, <1>4

\* A lock is lifted: by the next attempt when its time is over (_clear_lockout),
\* which reads the row again, or by an administrator (unlock_user).
LEMMA LockLifted ==
    ASSUME SignInInv, NEW s \in Session, LiftLapsed(s) \/ UnlockWrite(s)
    PROVE  /\ SignInInv'
           /\ ~ mainPC /\ account.locked => account.at \in lapsed \/ Runs(s, "unlock")
<1>1. PICK j : j = job[s]
  OBVIOUS
<1>2. /\ j # Idle /\ SignInJob(j) /\ mainPC' = mainPC
      /\ UNCHANGED <<locks, lapsed, given, codeUses, chooser>> /\ guesses' = 0
  BY <1>1 DEF LiftLapsed, UnlockWrite, Attempts, Runs, End, SignInInv
<1>3. (~ mainPC)' = (~ mainPC)
  BY <1>2
<1>4. ASSUME ~ mainPC PROVE SignInTables'
  <2>1. SignInTables /\ j.row = account
    BY <1>2, <1>4 DEF SignInInv, SignInJob
  <2>2. /\ SignInTypeOK /\ LockoutFollows /\ CodesFollow /\ PasswordsFollow
        /\ account \in AccountRow /\ account.failed \in 0 .. MaxFailedLoginAttempts
        /\ account.password \in DOMAIN chooser
        /\ account.code \in 0 .. MaxResetCodes /\ account.at \in 0 .. MaxLocks
        /\ MaxFailedLoginAttempts \in Nat \ {0} /\ MaxLocks \in Nat
    BY <2>1, AccountTypes DEF SignInTables
  <2>3. PICK at \in {NoStamp, account.at} : account' = StoredRow(account, Attempted(0, FALSE, at))
    <3>1. CASE LiftLapsed(s)
      <4>1. account' = StoredRow(account, Lifted(account))
        BY <1>1, <2>1, <3>1 DEF LiftLapsed
      <4>2. Lifted(account) = Attempted(0, FALSE, NoStamp)
        BY <2>2 DEF Lifted, Attempted, AccountRow
      <4>. QED BY <4>1, <4>2
    <3>2. CASE UnlockWrite(s)
      <4>1. account' = StoredRow(account, [account EXCEPT !.locked = FALSE, !.failed = 0])
        BY <1>1, <2>1, <3>2 DEF UnlockWrite
      <4>2. [account EXCEPT !.locked = FALSE, !.failed = 0] = Attempted(0, FALSE, account.at)
        BY <2>2 DEF Attempted, AccountRow
      <4>. QED BY <4>1, <4>2
    <3>. QED BY <3>1, <3>2
  <2>4. at \in 0 .. MaxLocks /\ at \in Nat /\ 0 \in Nat /\ 0 \in 0 .. MaxFailedLoginAttempts
    BY <2>2, <2>3 DEF NoStamp
  <2>5. PICK new : new = Attempted(0, FALSE, at)
    OBVIOUS
  <2>6. /\ new \in AccountRow /\ new.failed = 0 /\ new.locked = FALSE /\ new.at = at
        /\ new.code = account.code /\ new.password = account.password
        /\ new.must = account.must
    <3>1. ASSUME NEW no \in BOOLEAN, ~ no, new = Attempted(0, no, at)
          PROVE  /\ new \in AccountRow /\ new.failed = 0 /\ new.locked = no /\ new.at = at
                 /\ new.code = account.code /\ new.password = account.password
                 /\ new.must = account.must
      BY <2>2, <2>4, <3>1, RowChanged
    <3>. QED BY <2>5, <3>1
  <2>7. account' = new
    BY <2>2, <2>3, <2>5, <2>6, RowStored
  <2>8. SignInTypeOK'
    BY <1>2, <2>1, <2>2, <2>4, <2>6, <2>7, AccountStored DEF SignInTypeOK
  <2>9. LockoutFollows'
    BY <1>2, <2>2, <2>6, <2>7 DEF LockoutFollows
  <2>10. CodesFollow' /\ PasswordsFollow'
    BY <1>2, <2>2, <2>6, <2>7 DEF CodesFollow, PasswordsFollow
  <2>. QED BY <2>8, <2>9, <2>10 DEF SignInTables
<1>5. CASE UnlockWrite(s)
  <2>1. End(s) /\ Runs(s, "unlock")
    BY <1>5 DEF UnlockWrite
  <2>. QED BY <1>1, <1>2, <1>4, <2>1, SignInEnd
<1>6. CASE LiftLapsed(s)
  <2>1. /\ job' = [job EXCEPT ![s].row = account'] /\ j.kind \in {"sign in", "unlock screen"}
        /\ j.row.locked /\ j.row.at \in lapsed
    BY <1>1, <1>6 DEF LiftLapsed, MayLift, Lapsed, Attempts, Runs
  <2>2. DOMAIN j = {"kind", "key", "right", "row"}
    BY <1>2, <2>1 DEF SignInJob
  <2>3. PICK i : i = [j EXCEPT !.row = account']
    OBVIOUS
  <2>4. i.key = j.key /\ i.row = account' /\ DOMAIN i = DOMAIN j
    BY <2>2, <2>3
  <2>5. /\ DOMAIN job' = Session /\ job'[s] = i
        /\ \A t \in Session : t # s => job'[t] = job[t]
    BY <1>1, <2>1, <2>3 DEF SignInInv, DesksInv
  <2>6. DesksInv'
    <3>1. \A t \in Session : t # s /\ job[t] # Idle =>
             mainPC /\ (job[t].key = j.key => j.key = NoRecord)
      BY <1>1, <1>2 DEF SignInInv, DesksInv
    <3>2. ASSUME NEW t \in Session, NEW u \in Session, job'[t] # Idle, job'[u] # Idle, t # u
          PROVE  mainPC /\ (job'[t].key = job'[u].key => job'[t].key = NoRecord)
      BY <2>4, <2>5, <3>1, <3>2 DEF SignInInv, DesksInv
    <3>. QED BY <1>2, <2>5, <3>2 DEF SignInInv, DesksInv
  <2>7. ASSUME NEW t \in Session, NEW k \in {job'[t]}, k # Idle PROVE SignInJob(k)'
    <3>1. CASE t = s
      <4>1. k.row = account' /\ DOMAIN k = {"kind", "key", "right", "row"}
        BY <2>2, <2>4, <2>5, <3>1
      <4>. QED BY <4>1 DEF SignInJob
    <3>2. CASE t # s
      <4>1. job[t] = k /\ SignInJob(k)
        BY <2>5, <2>7, <3>2 DEF SignInInv
      <4>2. ~ (~ mainPC)
        BY <1>1, <1>2, <2>7, <3>2, <4>1, RunsAlone DEF SignInInv
      <4>. QED BY <1>3, <4>1, <4>2 DEF SignInJob
    <3>. QED BY <3>1, <3>2
  <2>8. SignInInv'
    BY <1>3, <1>4, <2>6, <2>7 DEF SignInInv
  <2>9. ~ mainPC => account.at \in lapsed
    BY <1>2, <2>1 DEF SignInJob
  <2>. QED BY <2>8, <2>9
<1>. QED BY <1>5, <1>6

\* The row with the columns of a new password changed.
Secured(c, m, p) == [account EXCEPT !.code = c, !.must = m, !.password = p]

\* It is a row of the table, and no attempt.
LEMMA RowSecured ==
    ASSUME account \in AccountRow, NEW c \in Nat, NEW m \in BOOLEAN, NEW p \in Nat
    PROVE  LET new == Secured(c, m, p) IN
             /\ new \in AccountRow /\ new.code = c /\ new.must = m /\ new.password = p
             /\ new.active = account.active /\ new.at = account.at
             /\ new.failed = account.failed /\ new.locked = account.locked
<1>1. Secured(c, m, p) \in AccountRow
  BY DEF AccountRow, Secured
<1>2. DOMAIN account = {"active", "locked", "at", "failed", "code", "password", "must"}
  BY DEF AccountRow
<1>. QED BY <1>1, <1>2 DEF Secured

\* A password is set: with a one-time code, by an administrator, or by the user
\* who knows the one before.
LEMMA PasswordSet ==
    ASSUME SignInInv, NEW s \in Session, UseCodeWrite(s) \/ ResetWrite(s) \/ ChangeWrite(s)
    PROVE  SignInInv' /\ (~ mainPC => account'.locked = account.locked)
<1>1. PICK j : j = job[s]
  OBVIOUS
<1>2. /\ j # Idle /\ SignInJob(j) /\ End(s) /\ UNCHANGED <<locks, lapsed, guesses, given>>
  BY <1>1 DEF UseCodeWrite, ResetWrite, ChangeWrite, Runs, SignInInv, attemptVars
<1>3. ASSUME ~ mainPC PROVE SignInTables' /\ account'.locked = account.locked
  <2>1. SignInTables /\ j.row = account
    BY <1>2, <1>3 DEF SignInInv, SignInJob
  <2>2. /\ SignInTypeOK /\ LockoutFollows /\ CodesFollow /\ PasswordsFollow
        /\ account \in AccountRow /\ account.failed \in 0 .. MaxFailedLoginAttempts
        /\ account.password \in 1 .. Len(chooser) /\ Len(chooser) \in Nat
        /\ account.code \in 0 .. MaxResetCodes /\ account.at \in 0 .. MaxLocks
        /\ MaxResetCodes \in Nat /\ chooser \in Seq({"user", "administrator"})
    BY <2>1, AccountTypes DEF SignInTables, PasswordsFollow
  <2>3. PICK p \in Nat : p = Len(chooser) + 1
    BY <2>2
  <2>4. PICK c \in 0 .. MaxResetCodes, m \in BOOLEAN, by \in {"user", "administrator"} :
          /\ account' = StoredRow(account, Secured(c, m, p)) /\ chooser' = Append(chooser, by)
          /\ by = "administrator" => m
          /\ \/ c = account.code /\ codeUses' = codeUses
             \/ /\ c = 0 /\ account.code # 0
                /\ codeUses' = [codeUses EXCEPT ![account.code] = @ + 1]
    <3>1. CASE UseCodeWrite(s)
      <4>1. /\ account' = StoredRow(account, [account EXCEPT !.code = 0, !.must = FALSE,
                                                             !.password = p])
            /\ chooser' = Append(chooser, "user")
            /\ codeUses' = [codeUses EXCEPT ![account.code] = @ + 1]
        BY <1>1, <2>1, <2>3, <3>1 DEF UseCodeWrite, CodeAfterUse, NoResetCode
      <4>2. 0 \in 0 .. MaxResetCodes
        BY <2>2
      <4>3. CASE account.code # 0
        BY <4>1, <4>2, <4>3 DEF Secured
      <4>4. CASE account.code = 0
        <5>1. codeUses' = codeUses
          BY <2>2, <4>1, <4>4 DEF CodesFollow
        <5>. QED BY <4>1, <4>2, <4>4, <5>1 DEF Secured
      <4>. QED BY <4>3, <4>4
    <3>2. CASE ResetWrite(s)
      <4>1. /\ account' = StoredRow(account, [account EXCEPT !.password = p, !.must = TRUE])
            /\ chooser' = Append(chooser, "administrator") /\ codeUses' = codeUses
        BY <1>1, <2>1, <2>3, <3>2 DEF ResetWrite, MustAfterReset
      <4>2. [account EXCEPT !.password = p, !.must = TRUE] = Secured(account.code, TRUE, p)
        BY <2>2 DEF Secured, AccountRow
      <4>. QED BY <2>2, <4>1, <4>2
    <3>3. CASE ChangeWrite(s)
      <4>1. /\ account' = StoredRow(account, [account EXCEPT !.password = p, !.must = FALSE])
            /\ chooser' = Append(chooser, "user") /\ codeUses' = codeUses
        BY <1>1, <2>1, <2>3, <3>3 DEF ChangeWrite
      <4>2. [account EXCEPT !.password = p, !.must = FALSE] = Secured(account.code, FALSE, p)
        BY <2>2 DEF Secured, AccountRow
      <4>. QED BY <2>2, <4>1, <4>2
    <3>. QED BY <3>1, <3>2, <3>3
  <2>5. PICK new : new = Secured(c, m, p)
    OBVIOUS
  <2>6. /\ new \in AccountRow /\ new.code = c /\ new.must = m /\ new.password = p
        /\ new.at = account.at /\ new.failed = account.failed /\ new.locked = account.locked
    <3>1. c \in Nat
      BY <2>2
    <3>. QED BY <2>2, <2>5, <3>1, RowSecured
  <2>7. account' = new
    BY <2>2, <2>4, <2>5, <2>6, RowStored
  <2>8. /\ chooser' \in Seq({"user", "administrator"}) /\ DOMAIN chooser' = 1 .. p
        /\ chooser'[p] = by
    BY <2>2, <2>3, <2>4
  <2>9. SignInTypeOK'
    <3>1. new.password \in DOMAIN chooser'
      BY <2>3, <2>6, <2>8, <2>2
    <3>. QED BY <1>2, <2>1, <2>2, <2>6, <2>7, <3>1, AccountStored DEF SignInTypeOK
  <2>10. LockoutFollows'
    BY <1>2, <2>2, <2>6, <2>7 DEF LockoutFollows
  <2>11. PasswordsFollow'
    BY <2>4, <2>6, <2>7, <2>8 DEF PasswordsFollow
  <2>12. CodesFollow'
    <3>1. given \in Nat /\ account.code <= given /\ codeUses \in [1 .. MaxResetCodes -> 0 .. 1]
      BY <2>2 DEF CodesFollow, SignInTypeOK
    <3>2. CASE c = account.code /\ codeUses' = codeUses
      BY <1>2, <2>2, <2>6, <2>7, <3>2 DEF CodesFollow
    <3>3. CASE /\ c = 0 /\ account.code # 0
               /\ codeUses' = [codeUses EXCEPT ![account.code] = @ + 1]
      <4>1. account.code \in 1 .. MaxResetCodes /\ codeUses[account.code] = 0
        BY <2>2, <3>3 DEF CodesFollow
      <4>2. codeUses' \in [1 .. MaxResetCodes -> 0 .. 1]
        BY <3>1, <3>3, <4>1
      <4>3. \A k \in 1 .. MaxResetCodes : given < k => codeUses'[k] = 0
        BY <2>2, <3>1, <3>3, <4>1 DEF CodesFollow
      <4>. QED BY <1>2, <2>6, <2>7, <3>1, <3>3, <4>2, <4>3 DEF CodesFollow
    <3>. QED BY <2>4, <3>2, <3>3
  <2>. QED BY <2>6, <2>7, <2>9, <2>10, <2>11, <2>12 DEF SignInTables
<1>. QED BY <1>1, <1>2, <1>3, SignInEnd

\* Time passes, the account is switched on or off, or a code is given out.
LEMMA SignInBeside ==
    ASSUME SignInInv, Lapse \/ SetUserActive \/ GenerateResetCode
    PROVE  SignInInv' /\ (~ mainPC => account'.locked = account.locked)
<1>1. /\ UNCHANGED <<mainPC, job, locks, guesses, codeUses, chooser>> /\ DesksInv'
  BY DesksStay DEF Lapse, SetUserActive, GenerateResetCode, AtOnce, deskVars, attemptVars, SignInInv
<1>2. (~ mainPC)' = (~ mainPC)
  BY <1>1
<1>3. ASSUME ~ mainPC PROVE SignInTables' /\ account'.locked = account.locked
  <2>1. SignInTables
    BY <1>3 DEF SignInInv
  <2>2. /\ SignInTypeOK /\ LockoutFollows /\ CodesFollow /\ PasswordsFollow
        /\ account \in AccountRow /\ account.failed \in 0 .. MaxFailedLoginAttempts
        /\ account.password \in DOMAIN chooser
        /\ account.code \in 0 .. MaxResetCodes /\ account.at \in 0 .. MaxLocks
        /\ MaxResetCodes \in Nat /\ MaxLocks \in Nat
    BY <2>1, AccountTypes DEF SignInTables
  <2>3. CASE Lapse
    <3>1. lapsed' \subseteq 1 .. MaxLocks /\ UNCHANGED <<account, given>>
      BY <2>2, <2>3 DEF Lapse, SignInTypeOK
    <3>. QED BY <1>1, <2>2, <3>1
             DEF SignInTables, SignInTypeOK, LockoutFollows, CodesFollow, PasswordsFollow
  <2>4. CASE SetUserActive
    <3>1. account' = [account EXCEPT !.active = ~ account.active] /\ UNCHANGED <<lapsed, given>>
      BY <2>4 DEF SetUserActive, attemptVars
    <3>2. /\ account' \in AccountRow /\ account'.locked = account.locked
          /\ account'.at = account.at /\ account'.failed = account.failed
          /\ account'.code = account.code /\ account'.password = account.password
          /\ account'.must = account.must
      BY <2>2, <3>1 DEF AccountRow
    <3>3. SignInTypeOK'
      BY <1>1, <2>1, <2>2, <3>1, <3>2, AccountStored DEF SignInTypeOK
    <3>. QED BY <1>1, <2>2, <3>1, <3>2, <3>3
             DEF SignInTables, LockoutFollows, CodesFollow, PasswordsFollow
  <2>5. CASE GenerateResetCode
    <3>1. /\ given < MaxResetCodes /\ given' = given + 1 /\ lapsed' = lapsed
          /\ account' = [account EXCEPT !.code = given + 1]
      BY <2>5 DEF GenerateResetCode, attemptVars
    <3>2. given \in 0 .. MaxResetCodes /\ given' \in 1 .. MaxResetCodes
      BY <2>2, <3>1 DEF SignInTypeOK
    <3>3. /\ account' \in AccountRow /\ account'.locked = account.locked
          /\ account'.at = account.at /\ account'.failed = account.failed
          /\ account'.code = given' /\ account'.password = account.password
          /\ account'.must = account.must
      BY <2>2, <3>1, <3>2 DEF AccountRow
    <3>4. SignInTypeOK'
      <4>1. account'.code \in 0 .. MaxResetCodes /\ given' \in 0 .. MaxResetCodes
        BY <2>2, <3>2, <3>3
      <4>. QED BY <1>1, <2>1, <2>2, <3>1, <3>3, <4>1, AccountStored DEF SignInTypeOK
    <3>5. CodesFollow'
      <4>1. \A k \in 1 .. MaxResetCodes : given' < k \/ k = given' => given < k
        BY <2>2, <3>1, <3>2
      <4>2. given' <= given'
        BY <3>2
      <4>. QED BY <1>1, <2>2, <3>3, <4>1, <4>2 DEF CodesFollow
    <3>. QED BY <1>1, <2>2, <3>3, <3>4, <3>5 DEF SignInTables, LockoutFollows, PasswordsFollow
  <2>. QED BY <2>3, <2>4, <2>5
<1>4. ASSUME NEW s \in Session, NEW j \in {job[s]}, j # Idle PROVE SignInJob(j)'
  <2>1. SignInJob(j)
    BY <1>4 DEF SignInInv
  <2>2. ~ mainPC => account' = account
    BY <1>4 DEF Lapse, SetUserActive, GenerateResetCode, AtOnce
  <2>. QED BY <1>2, <2>1, <2>2 DEF SignInJob
<1>. QED BY <1>1, <1>2, <1>3, <1>4 DEF SignInInv

\* The reads: each request loads the row.
LEMMA SignInReads ==
    ASSUME SignInInv, NEW s \in Session,
           AttemptRead(s) \/ UnlockRead(s) \/ UseCodeRead(s) \/ ResetRead(s) \/ ChangeRead(s)
    PROVE  SignInInv' /\ account' = account
<1>1. UNCHANGED signInVars /\ account' = account
  BY DEF AttemptRead, UnlockRead, UseCodeRead, ResetRead, ChangeRead, signInVars
<1>2. \E j : Begin(s, j) /\ SignInJob(j)
  <2>1. CASE AttemptRead(s)
    <3>1. PICK right \in BOOLEAN, purpose \in {"sign in", "unlock screen"} :
            Begin(s, [kind |-> purpose, key |-> NoRecord, right |-> right, row |-> account])
      BY <2>1 DEF AttemptRead
    <3>2. SignInJob([kind |-> purpose, key |-> NoRecord, right |-> right, row |-> account])
      BY DEF SignInJob
    <3>. QED BY <3>1, <3>2
  <2>2. CASE UnlockRead(s)
    <3>1. SignInJob([kind |-> "unlock", key |-> "account", row |-> account])
      BY DEF SignInJob
    <3>. QED BY <2>2, <3>1 DEF UnlockRead
  <2>3. CASE UseCodeRead(s)
    <3>1. SignInJob([kind |-> "use code", key |-> NoRecord, row |-> account])
      BY DEF SignInJob
    <3>. QED BY <2>3, <3>1 DEF UseCodeRead
  <2>4. CASE ResetRead(s)
    <3>1. SignInJob([kind |-> "reset", key |-> "account", row |-> account])
      BY DEF SignInJob
    <3>. QED BY <2>4, <3>1 DEF ResetRead
  <2>5. CASE ChangeRead(s)
    <3>1. SignInJob([kind |-> "change", key |-> NoRecord, row |-> account])
      BY DEF SignInJob
    <3>. QED BY <2>5, <3>1 DEF ChangeRead
  <2>. QED BY <2>1, <2>2, <2>3, <2>4, <2>5
<1>. QED BY <1>1, <1>2, SignInRead

\* In one window a lock is lifted by time or by an administrator.
LiftedRightly ==
    ~ mainPC /\ account.locked /\ ~ account'.locked =>
        account.at \in lapsed \/ \E s \in Session : Runs(s, "unlock")

\* What holds at the start and is kept by every step, and who lifts a lock.
LEMMA SignInInductive ==
    /\ DesksInit /\ SignInInit => SignInInv
    /\ SignInInv /\ [SignInNext \/ PasswordNext]_<<deskVars, signInVars>> =>
          SignInInv' /\ LiftedRightly
<1>1. ASSUME DesksInit, SignInInit PROVE SignInInv
  <2>1. DesksInv /\ \A s \in Session : job[s] = Idle
    BY <1>1, DesksStart DEF DesksInit
  <2>2. /\ account = [active |-> TRUE, locked |-> FALSE, at |-> 0, failed |-> 0, code |-> 0,
                      password |-> 1, must |-> TRUE]
        /\ locks = 0 /\ lapsed = {} /\ given = 0 /\ guesses = 0
        /\ codeUses = [k \in 1 .. MaxResetCodes |-> 0] /\ chooser = <<"administrator">>
    BY <1>1 DEF SignInInit, NoStamp, NoResetCode
  <2>3. /\ MaxFailedLoginAttempts \in Nat \ {0} /\ MaxLocks \in Nat /\ MaxResetCodes \in Nat
    BY SignInAssumption
  <2>4. SignInTypeOK
    BY <2>2, <2>3 DEF SignInTypeOK
  <2>5. LockoutFollows /\ CodesFollow /\ PasswordsFollow
    BY <2>2, <2>3 DEF LockoutFollows, CodesFollow, PasswordsFollow
  <2>. QED BY <2>1, <2>4, <2>5 DEF SignInInv, SignInTables
<1>2. ASSUME SignInInv, [SignInNext \/ PasswordNext]_<<deskVars, signInVars>>
      PROVE  SignInInv' /\ LiftedRightly
  <2>1. CASE UNCHANGED <<deskVars, signInVars>>
    <3>1. UNCHANGED <<mainPC, job, account>> /\ DesksInv' /\ UNCHANGED signInVars
      BY <1>2, <2>1, DesksStay DEF deskVars, signInVars, SignInInv
    <3>2. SignInInv'
      BY <1>2, <3>1, SignInTablesStay DEF SignInInv
    <3>. QED BY <3>1, <3>2 DEF LiftedRightly
  <2>2. ASSUME NEW s \in Session, GiveUp(s) \/ AttemptBlocked(s), UNCHANGED signInVars
        PROVE  SignInInv' /\ LiftedRightly
    <3>1. job[s] # Idle /\ End(s) /\ mainPC' = mainPC /\ account' = account
      BY <2>2 DEF GiveUp, AttemptBlocked, Attempts, Runs, End, signInVars
    <3>2. SignInInv'
      BY <1>2, <2>2, <3>1, SignInTablesStay, SignInEnd DEF SignInInv
    <3>. QED BY <3>1, <3>2 DEF LiftedRightly
  <2>3. ASSUME NEW s \in Session, AttemptBlocked(s) PROVE UNCHANGED signInVars
    BY <2>3 DEF AttemptBlocked
  <2>4. ASSUME NEW s \in Session, AttemptFails(s) \/ AttemptSucceeds(s)
        PROVE  SignInInv' /\ LiftedRightly
    BY <1>2, <2>4, AttemptMade DEF LiftedRightly
  <2>5. ASSUME NEW s \in Session, LiftLapsed(s) \/ UnlockWrite(s)
        PROVE  SignInInv' /\ LiftedRightly
    BY <1>2, <2>5, LockLifted DEF LiftedRightly
  <2>6. ASSUME NEW s \in Session, UseCodeWrite(s) \/ ResetWrite(s) \/ ChangeWrite(s)
        PROVE  SignInInv' /\ LiftedRightly
    BY <1>2, <2>6, PasswordSet DEF LiftedRightly
  <2>7. ASSUME Lapse \/ SetUserActive \/ GenerateResetCode PROVE SignInInv' /\ LiftedRightly
    BY <1>2, <2>7, SignInBeside DEF LiftedRightly
  <2>8. ASSUME NEW s \in Session,
               AttemptRead(s) \/ UnlockRead(s) \/ UseCodeRead(s) \/ ResetRead(s) \/ ChangeRead(s)
        PROVE  SignInInv' /\ LiftedRightly
    BY <1>2, <2>8, SignInReads DEF LiftedRightly
  <2>. QED BY <1>2, <2>1, <2>2, <2>3, <2>4, <2>5, <2>6, <2>7, <2>8 DEF SignInNext, PasswordNext
<1>. QED BY <1>1, <1>2

\* What auth_service.py is trusted with in one window, for any number of
\* attempts, lockouts, codes and passwords.
THEOREM GuessingStaysHeldOff == SignInSpec => GuessingIsHeldOff
<1>1. SignInInv => /\ GuessesAreBounded /\ LockCanExpireInOneWindow
                   /\ ResetCodeOnce /\ TemporaryInOneWindow
  <2>1. SUFFICES ASSUME ~ mainPC, SignInTables
                 PROVE  /\ GuessesAreBounded /\ LockCanExpireInOneWindow
                        /\ ResetCodeOnce /\ TemporaryInOneWindow
    BY DEF SignInInv, GuessesAreBounded, LockCanExpireInOneWindow, ResetCodeOnce,
           TemporaryInOneWindow
  <2>2. account.failed \in 0 .. MaxFailedLoginAttempts /\ MaxFailedLoginAttempts \in Nat
    BY <2>1, AccountTypes
  <2>3. GuessesAreBounded /\ LockCanExpireInOneWindow /\ TemporaryInOneWindow
    BY <2>1, <2>2 DEF SignInTables, LockoutFollows, PasswordsFollow, GuessesAreBounded,
                      LockCanExpireInOneWindow, TemporaryInOneWindow
  <2>4. ResetCodeOnce
    BY <2>1, <2>2 DEF SignInTables, CodesFollow, ResetCodeOnce
  <2>. QED BY <2>3, <2>4
<1>2. SignInInv /\ [SignInNext \/ PasswordNext]_<<deskVars, signInVars>> =>
         [LiftedRightly]_<<deskVars, signInVars>>
  BY SignInInductive
<1>3. LiftedRightly <=> (~mainPC /\ account.locked /\ ~account'.locked =>
           account.at \in lapsed \/ \E s \in Session : Runs(s, "unlock"))
  BY DEF LiftedRightly
<1>4. []GuessesAreBounded /\ []LockCanExpireInOneWindow /\ []ResetCodeOnce
        /\ []TemporaryInOneWindow /\ [][LiftedRightly]_<<deskVars, signInVars>>
        => GuessingIsHeldOff
  BY <1>3, PTL DEF GuessingIsHeldOff, LockHolds, LiftedRightly
<1>. QED BY <1>1, <1>2, <1>4, SignInInductive, PTL DEF SignInSpec

-----------------------------------------------------------------------------
(***************************************************************************)
(* The reconciliation: once for a shift, and a shortage it finds is one    *)
(* expense that accounts for it.                                           *)
(***************************************************************************)

\* What the cash should be without the shortage that is booked.
CashExpenses == {x \in expenses : x.tender = "Cash" /\ Counted(x) /\ ~ x.shortage}
CashBase == sold["Cash"] * SaleAmount - SumFunction([e \in CashExpenses |-> AmountOf(e)])

\* The lines of a reconciliation, read or stored.
LinesAddUp(found) ==
    /\ DOMAIN found \subseteq Tender
    /\ \A t \in DOMAIN found :
          /\ found[t].expected \in Int /\ found[t].variance \in Int
          /\ found[t].declared = found[t].expected + found[t].variance
    /\ ~ moved /\ "Cash" \in DOMAIN found => found["Cash"].expected = CashBase

\* What a request that has read goes on with: what it compared is still so,
\* unless something that is counted has moved.
ReconciliationJob(j) ==
    /\ j.kind = "reconcile" =>
         IF reconciled = "not yet" THEN LinesAddUp(j.lines) ELSE DOMAIN j.lines \subseteq Tender
    /\ j.kind = "shortage" =>
         /\ reconciled # "not yet" /\ "Cash" \in DOMAIN tenderLines
         /\ tenderLines["Cash"].variance < 0

ExpensesAreNumbered ==
    /\ IsFiniteSet(expenses)
    /\ \A d, e \in expenses : d.id = e.id => d = e
    /\ \A e \in expenses : e.id <= Cardinality(expenses)

\* The expense of a shortage and the receivable belong together.
ShortageFollows ==
    /\ reconciled = "not yet" => receivables = {}
    /\ \A e \in expenses : e.shortage =>
          /\ e.tender = "Cash" /\ "Cash" \in DOMAIN tenderLines
          /\ e.amount = - tenderLines["Cash"].variance
          /\ receivables = {[expense |-> e.id, amount |-> e.amount]}
    /\ \A x \in receivables : \E e \in expenses :
          e.shortage /\ x = [expense |-> e.id, amount |-> e.amount]

ReconciliationTables ==
    /\ ReconciliationTypeOK /\ ExpensesAreNumbered /\ ShortageFollows
    /\ reconciled # "not yet" => LinesAddUp(tenderLines)

ReconciliationInv ==
    /\ DesksInv /\ ReconciliationTables
    /\ \A s \in Session : \A j \in {job[s]} : j # Idle => ReconciliationJob(j)

\* Steps that leave the reconciliation alone: either what is counted stays, or
\* it is noted that it moved.
LEMMA NothingReconciled ==
    ASSUME ReconciliationInv, UNCHANGED <<mainPC, job, reconciled, tenderLines, receivables>>,
           ReconciliationTypeOK', ExpensesAreNumbered', ShortageFollows', moved => moved',
           \/ CashBase' = CashBase
           \/ /\ reconciled # "not yet" => moved'
              /\ (\E s \in Session : Runs(s, "reconcile")) => moved'
    PROVE  ReconciliationInv'
<1>1. DesksInv'
  BY DesksStay DEF deskVars, ReconciliationInv
<1>2. ASSUME NEW found, LinesAddUp(found), CashBase' = CashBase \/ moved'
      PROVE  LinesAddUp(found)'
  BY <1>2 DEF LinesAddUp
<1>3. reconciled # "not yet" => LinesAddUp(tenderLines)'
  BY <1>2 DEF ReconciliationInv, ReconciliationTables
<1>4. (reconciled # "not yet" => LinesAddUp(tenderLines))'
  BY <1>3 DEF LinesAddUp
<1>5. ASSUME NEW s \in Session, NEW j \in {job[s]}, j # Idle PROVE ReconciliationJob(j)'
  <2>1. ReconciliationJob(j) /\ (j.kind = "reconcile" => Runs(s, "reconcile"))
    BY <1>5 DEF ReconciliationInv, Runs
  <2>2. j.kind = "reconcile" /\ reconciled = "not yet" => LinesAddUp(j.lines)'
    BY <1>2, <2>1 DEF ReconciliationJob
  <2>. QED BY <2>1, <2>2 DEF ReconciliationJob
<1>. QED BY <1>1, <1>4, <1>5 DEF ReconciliationInv, ReconciliationTables

\* A new expense of the shift, pending.
LEMMA ExpenseAdded ==
    ASSUME ReconciliationTables, Cardinality(expenses) < MaxExpenses, NEW t \in Tender,
           NEW n \in Nat \ {0}, NEW b \in BOOLEAN,
           expenses' = expenses \cup {NewExpense(t, n, b)}
    PROVE  LET e == NewExpense(t, n, b) IN
             /\ e.id = Cardinality(expenses) + 1 /\ e.tender = t /\ e.amount = n
             /\ e.shortage = b /\ e.status = "pending" /\ e \notin expenses
             /\ ExpensesAreNumbered' /\ expenses' \subseteq ExpenseRow
             /\ CashExpenses' = CashExpenses
<1>1. PICK e : e = NewExpense(t, n, b)
  OBVIOUS
<1>2. /\ e.id = Cardinality(expenses) + 1 /\ e.tender = t /\ e.amount = n
      /\ e.shortage = b /\ e.status = "pending"
      /\ e = [id |-> Cardinality(expenses) + 1, tender |-> t, amount |-> n, shortage |-> b,
              status |-> "pending"]
  BY <1>1 DEF NewExpense
<1>3. /\ ReconciliationTypeOK /\ ExpensesAreNumbered /\ MaxExpenses \in Nat
      /\ Cardinality(expenses) \in Nat
  BY FS_CardinalityType, ReconciliationAssumption DEF ReconciliationTables, ExpensesAreNumbered
<1>4. \A d \in expenses : d.id \in Nat /\ d.id <= Cardinality(expenses)
  <2>1. \A d \in expenses : d.id \in 1 .. MaxExpenses
    BY <1>3 DEF ReconciliationTypeOK, ExpenseRow
  <2>. QED BY <1>3, <2>1 DEF ExpensesAreNumbered
<1>5. e \notin expenses /\ e \in ExpenseRow
  BY <1>2, <1>3, <1>4 DEF ExpenseRow
<1>6. ExpensesAreNumbered'
  <2>1. IsFiniteSet(expenses') /\ Cardinality(expenses') = Cardinality(expenses) + 1
    BY <1>1, <1>3, <1>5, FS_AddElement DEF ExpensesAreNumbered
  <2>2. \A c, d \in expenses' : c.id = d.id => c = d
    BY <1>1, <1>2, <1>3, <1>4 DEF ExpensesAreNumbered
  <2>3. \A d \in expenses' : d.id <= Cardinality(expenses')
    BY <1>1, <1>2, <1>3, <1>4, <2>1
  <2>. QED BY <2>1, <2>2, <2>3 DEF ExpensesAreNumbered
<1>7. CashExpenses' = CashExpenses
  <2>1. ~ Counted(e)
    BY <1>2 DEF Counted
  <2>2. \A x : Counted(x)' = Counted(x)
    BY DEF Counted
  <2>. QED BY <1>1, <2>1, <2>2 DEF CashExpenses
<1>. QED BY <1>1, <1>2, <1>3, <1>5, <1>6, <1>7 DEF ReconciliationTypeOK

\* A pending expense is decided; one of a shortage stays the same shortage.
LEMMA ExpenseDecided ==
    ASSUME ReconciliationTables, NEW e \in expenses, e.status = "pending",
           NEW to \in {"approved", "rejected"}, Decide(e, to),
           UNCHANGED <<reconciled, tenderLines, receivables>>
    PROVE  /\ ExpensesAreNumbered' /\ expenses' \subseteq ExpenseRow /\ ShortageFollows'
           /\ e.shortage \/ to = "rejected" => CashExpenses' = CashExpenses
<1>1. PICK d : d = [e EXCEPT !.status = to]
  OBVIOUS
<1>2. ReconciliationTypeOK /\ ExpensesAreNumbered /\ ShortageFollows /\ e \in ExpenseRow
  BY DEF ReconciliationTables, ReconciliationTypeOK
<1>3. /\ d.id = e.id /\ d.tender = e.tender /\ d.amount = e.amount /\ d.shortage = e.shortage
      /\ d.status = to /\ d \in ExpenseRow
  BY <1>1, <1>2 DEF ExpenseRow
<1>4. expenses' = (expenses \ {e}) \cup {d} /\ d \notin expenses \ {e}
  BY <1>1, <1>2, <1>3 DEF Decide, ExpensesAreNumbered
<1>5. ExpensesAreNumbered'
  <2>1. /\ IsFiniteSet(expenses \ {e}) /\ Cardinality(expenses \ {e}) = Cardinality(expenses) - 1
        /\ Cardinality(expenses) \in Nat
    BY <1>2, FS_RemoveElement, FS_CardinalityType DEF ExpensesAreNumbered
  <2>2. IsFiniteSet(expenses') /\ Cardinality(expenses') = Cardinality(expenses)
    <3>1. /\ IsFiniteSet((expenses \ {e}) \cup {d})
          /\ Cardinality((expenses \ {e}) \cup {d}) = Cardinality(expenses \ {e}) + 1
      BY <1>4, <2>1, FS_AddElement
    <3>2. Cardinality((expenses \ {e}) \cup {d}) = Cardinality(expenses)
      BY <2>1, <3>1
    <3>. QED BY <1>4, <3>1, <3>2
  <2>3. \A b, c \in expenses' : b.id = c.id => b = c
    BY <1>2, <1>3, <1>4 DEF ExpensesAreNumbered
  <2>4. \A c \in expenses' : c.id <= Cardinality(expenses)
    BY <1>2, <1>3, <1>4 DEF ExpensesAreNumbered
  <2>. QED BY <2>2, <2>3, <2>4 DEF ExpensesAreNumbered
<1>6. ShortageFollows'
  <2>1. \A c \in expenses' : c.shortage => \E b \in expenses :
           /\ b.shortage /\ b.id = c.id /\ b.tender = c.tender /\ b.amount = c.amount
    BY <1>3, <1>4
  <2>2. \A b \in expenses : b.shortage => \E c \in expenses' :
           c.shortage /\ c.id = b.id /\ c.amount = b.amount
    BY <1>3, <1>4
  <2>3. \A c \in expenses' : c.shortage =>
           /\ c.tender = "Cash" /\ "Cash" \in DOMAIN tenderLines'
           /\ c.amount = - tenderLines'["Cash"].variance
           /\ receivables' = {[expense |-> c.id, amount |-> c.amount]}
    <3>1. SUFFICES ASSUME NEW c \in expenses', c.shortage
                   PROVE  /\ c.tender = "Cash" /\ "Cash" \in DOMAIN tenderLines
                          /\ c.amount = - tenderLines["Cash"].variance
                          /\ receivables = {[expense |-> c.id, amount |-> c.amount]}
      OBVIOUS
    <3>2. PICK b \in expenses :
             b.shortage /\ b.id = c.id /\ b.tender = c.tender /\ b.amount = c.amount
      BY <2>1, <3>1
    <3>. QED BY <1>2, <3>2 DEF ShortageFollows
  <2>4. \A x \in receivables' : \E c \in expenses' :
           c.shortage /\ x = [expense |-> c.id, amount |-> c.amount]
    <3>1. SUFFICES ASSUME NEW x \in receivables
                   PROVE  \E c \in expenses' :
                             c.shortage /\ x = [expense |-> c.id, amount |-> c.amount]
      OBVIOUS
    <3>2. PICK b \in expenses : b.shortage /\ x = [expense |-> b.id, amount |-> b.amount]
      BY <1>2 DEF ShortageFollows
    <3>. QED BY <2>2, <3>2
  <2>. QED BY <1>2, <2>3, <2>4 DEF ShortageFollows
<1>7. e.shortage \/ to = "rejected" => CashExpenses' = CashExpenses
  <2>1. \A x : Counted(x)' = Counted(x)
    BY DEF Counted
  <2>2. ~ Counted(e)
    BY DEF Counted
  <2>3. e.shortage \/ to = "rejected" => d.shortage \/ ~ Counted(d)
    BY <1>3 DEF Counted
  <2>. QED BY <1>3, <1>4, <2>1, <2>2, <2>3 DEF CashExpenses
<1>. QED BY <1>2, <1>3, <1>4, <1>5, <1>6, <1>7 DEF ReconciliationTypeOK

\* Sales and expenses go on (record_sale, cancel_sale, expense_service.py).
LEMMA ReconciliationBeside ==
    ASSUME ReconciliationInv, Sell \/ CancelSale \/ CreateExpense \/ ApproveExpense \/ RejectExpense
    PROVE  ReconciliationInv'
<1>0. /\ ReconciliationTables /\ ReconciliationTypeOK /\ ExpensesAreNumbered /\ ShortageFollows
      /\ UNCHANGED <<mainPC, job, reconciled, tenderLines, receivables>>
  BY DEF ReconciliationInv, ReconciliationTables, Sell, CancelSale, CreateExpense,
         ApproveExpense, RejectExpense, AtOnce, deskVars
<1>1. CASE Sell \/ CancelSale
  <2>1. expenses' = expenses /\ Moves
    BY <1>1 DEF Sell, CancelSale
  <2>2. sold' \in [Tender -> 0 .. MaxTenderSales]
    <3>1. sold \in [Tender -> 0 .. MaxTenderSales] /\ MaxTenderSales \in Nat
      BY <1>0, ReconciliationAssumption DEF ReconciliationTypeOK
    <3>2. CASE Sell
      <4>1. PICK t \in Tender : sold[t] < MaxTenderSales /\ sold' = [sold EXCEPT ![t] = @ + 1]
        BY <3>2 DEF Sell
      <4>. QED BY <3>1, <4>1
    <3>3. CASE CancelSale
      <4>1. PICK t \in Tender : sold[t] > 0 /\ sold' = [sold EXCEPT ![t] = @ - 1]
        BY <3>3 DEF CancelSale
      <4>. QED BY <3>1, <4>1
    <3>. QED BY <1>1, <3>2, <3>3
  <2>3. /\ moved' \in BOOLEAN /\ (moved => moved') /\ (reconciled # "not yet" => moved')
        /\ (\E s \in Session : Runs(s, "reconcile")) => moved'
    BY <2>1 DEF Moves
  <2>4. ReconciliationTypeOK' /\ ExpensesAreNumbered' /\ ShortageFollows'
    BY <1>0, <2>1, <2>2, <2>3 DEF ReconciliationTypeOK, ExpensesAreNumbered, ShortageFollows
  <2>. QED BY <1>0, <2>3, <2>4, NothingReconciled
<1>2. CASE CreateExpense
  <2>1. PICK t \in Tender : expenses' = expenses \cup {NewExpense(t, SmallExpense, FALSE)}
    BY <1>2 DEF CreateExpense
  <2>2. Cardinality(expenses) < MaxExpenses /\ UNCHANGED <<sold, moved>>
    BY <1>2 DEF CreateExpense
  <2>3. SmallExpense \in Nat \ {0}
    BY ReconciliationAssumption
  <2>4. PICK b \in BOOLEAN : b = FALSE
    OBVIOUS
  <2>5. PICK e : e = NewExpense(t, SmallExpense, b)
    OBVIOUS
  <2>6. /\ e.shortage = b /\ ExpensesAreNumbered' /\ expenses' \subseteq ExpenseRow
        /\ CashExpenses' = CashExpenses
    BY <1>0, <2>1, <2>2, <2>3, <2>4, <2>5, ExpenseAdded
  <2>7. ShortageFollows'
    BY <1>0, <2>1, <2>4, <2>5, <2>6 DEF ShortageFollows
  <2>8. ReconciliationTypeOK'
    BY <1>0, <2>2, <2>6 DEF ReconciliationTypeOK
  <2>9. CashBase' = CashBase
    BY <2>2, <2>6 DEF CashBase, AmountOf
  <2>. QED BY <1>0, <2>2, <2>6, <2>7, <2>8, <2>9, NothingReconciled
<1>3. CASE ApproveExpense
  <2>1. PICK e \in expenses :
          /\ e.status = "pending" /\ Decide(e, "approved")
          /\ IF e.shortage THEN UNCHANGED moved ELSE Moves
    BY <1>3 DEF ApproveExpense
  <2>2. sold' = sold
    BY <1>3 DEF ApproveExpense
  <2>3. /\ ExpensesAreNumbered' /\ expenses' \subseteq ExpenseRow /\ ShortageFollows'
        /\ e.shortage => CashExpenses' = CashExpenses
    BY <1>0, <2>1, ExpenseDecided
  <2>4. moved' \in BOOLEAN /\ (moved => moved')
    BY <1>0, <2>1 DEF Moves, ReconciliationTypeOK
  <2>5. ReconciliationTypeOK'
    BY <1>0, <2>2, <2>3, <2>4 DEF ReconciliationTypeOK
  <2>6. CASE e.shortage
    <3>1. CashBase' = CashBase
      BY <2>2, <2>3, <2>6 DEF CashBase, AmountOf
    <3>. QED BY <1>0, <2>3, <2>4, <2>5, <3>1, NothingReconciled
  <2>7. CASE ~ e.shortage
    <3>1. /\ reconciled # "not yet" => moved'
          /\ (\E s \in Session : Runs(s, "reconcile")) => moved'
      BY <2>1, <2>7 DEF Moves
    <3>. QED BY <1>0, <2>3, <2>4, <2>5, <3>1, NothingReconciled
  <2>. QED BY <2>6, <2>7
<1>4. CASE RejectExpense
  <2>1. PICK e \in expenses : e.status = "pending" /\ Decide(e, "rejected")
    BY <1>4 DEF RejectExpense
  <2>2. UNCHANGED <<sold, moved>>
    BY <1>4 DEF RejectExpense
  <2>3. /\ ExpensesAreNumbered' /\ expenses' \subseteq ExpenseRow /\ ShortageFollows'
        /\ CashExpenses' = CashExpenses
    BY <1>0, <2>1, ExpenseDecided
  <2>4. ReconciliationTypeOK'
    BY <1>0, <2>2, <2>3 DEF ReconciliationTypeOK
  <2>5. CashBase' = CashBase
    BY <2>2, <2>3 DEF CashBase, AmountOf
  <2>. QED BY <1>0, <2>2, <2>3, <2>4, <2>5, NothingReconciled
<1>. QED BY <1>1, <1>2, <1>3, <1>4

\* A shift has one expense for a shortage.
LEMMA OneShortage ==
    ASSUME ExpensesAreNumbered, ShortageFollows,
           NEW d \in expenses, NEW e \in expenses, d.shortage, e.shortage
    PROVE  d = e
<1>1. /\ receivables = {[expense |-> d.id, amount |-> d.amount]}
      /\ receivables = {[expense |-> e.id, amount |-> e.amount]}
  BY DEF ShortageFollows
<1>2. PICK x \in receivables : x = [expense |-> d.id, amount |-> d.amount]
  BY <1>1
<1>3. x = [expense |-> e.id, amount |-> e.amount]
  BY <1>1, <1>2
<1>4. d.id = e.id
  BY <1>2, <1>3
<1>. QED BY <1>4 DEF ExpensesAreNumbered

\* What a shift's expected cash is made of: a shortage that was approved is
\* one expense beside the others.
LEMMA CashExpected ==
    ASSUME ReconciliationTables
    PROVE  /\ CashBase \in Int /\ \A t \in Tender : Expected(t) \in Int
           /\ (\A e \in expenses : ~ e.shortage) => Expected("Cash") = CashBase
           /\ \A e \in expenses : e.shortage /\ e.status = "approved" =>
                 Expected("Cash") = CashBase - e.amount
<1>1. /\ ReconciliationTypeOK /\ IsFiniteSet(expenses) /\ ShortageFollows /\ ExpensesAreNumbered
      /\ SaleAmount \in Int
  <2>1. SaleAmount \in Int
    BY ReconciliationAssumption
  <2>2. ReconciliationTypeOK /\ ShortageFollows /\ ExpensesAreNumbered
    BY DEF ReconciliationTables
  <2>3. IsFiniteSet(expenses)
    BY <2>2 DEF ExpensesAreNumbered
  <2>. QED BY <2>1, <2>2, <2>3
<1>2. \A e \in expenses : e.amount \in Nat
  BY <1>1 DEF ReconciliationTypeOK, ExpenseRow
<1>3. ASSUME NEW S \in SUBSET expenses
      PROVE  /\ IsFiniteSet(S) /\ SumFunction([e \in S |-> AmountOf(e)]) \in Int
             /\ SumFunction([e \in S |-> AmountOf(e)])
                  = SumFunctionOnSet([e \in expenses |-> AmountOf(e)], S)
  <2>1. IsFiniteSet(S)
    BY <1>1, FS_Subset
  <2>2. \A x \in S : [e \in S |-> AmountOf(e)][x] \in Int
    BY <1>2 DEF AmountOf
  <2>3. SumFunctionOnSet([e \in S |-> AmountOf(e)], S) \in Int
    BY <2>1, <2>2, SumIsInt
  <2>4. SumFunction([e \in S |-> AmountOf(e)]) = SumFunctionOnSet([e \in S |-> AmountOf(e)], S)
    BY DEF SumFunction
  <2>5. \A x \in S : [e \in S |-> AmountOf(e)][x] = [e \in expenses |-> AmountOf(e)][x]
    OBVIOUS
  <2>6. SumFunctionOnSet([e \in S |-> AmountOf(e)], S)
          = SumFunctionOnSet([e \in expenses |-> AmountOf(e)], S)
    BY <2>1, <2>5, SumAgrees
  <2>. QED BY <2>1, <2>3, <2>4, <2>6
<1>4. \A t \in Tender : sold[t] * SaleAmount \in Int
  <2>1. \A t \in Tender : sold[t] \in 0 .. MaxTenderSales
    BY <1>1 DEF ReconciliationTypeOK
  <2>. QED BY <1>1, <2>1
<1>5. "Cash" \in Tender
  BY DEF Tender
<1>6. CashBase \in Int
  <2>1. CashExpenses \in SUBSET expenses
    BY DEF CashExpenses
  <2>2. SumFunction([e \in CashExpenses |-> AmountOf(e)]) \in Int
    BY <1>3, <2>1
  <2>. QED BY <1>4, <1>5, <2>2 DEF CashBase
<1>7. ASSUME NEW t \in Tender PROVE Expected(t) \in Int
  <2>1. {x \in expenses : x.tender = t /\ Counted(x)} \in SUBSET expenses
    OBVIOUS
  <2>2. SumFunction([e \in {x \in expenses : x.tender = t /\ Counted(x)} |-> AmountOf(e)]) \in Int
    BY <1>3, <2>1
  <2>. QED BY <1>4, <1>7, <2>2 DEF Expected
<1>8. ASSUME \A e \in expenses : ~ e.shortage PROVE Expected("Cash") = CashBase
  <2>1. {x \in expenses : x.tender = "Cash" /\ Counted(x)} = CashExpenses
    BY <1>8 DEF CashExpenses
  <2>. QED BY <2>1 DEF Expected, CashBase
<1>9. ASSUME NEW e \in expenses, e.shortage, e.status = "approved"
      PROVE  Expected("Cash") = CashBase - e.amount
  <2>. DEFINE amounts == [x \in expenses |-> AmountOf(x)]
  <2>1. \A d \in expenses : d.shortage => d = e
    BY <1>1, <1>9, OneShortage
  <2>2. e.tender = "Cash" /\ Counted(e) /\ amounts[e] = e.amount
    BY <1>1, <1>9 DEF ShortageFollows, Counted, AmountOf
  <2>3. /\ {x \in expenses : x.tender = "Cash" /\ Counted(x)} = CashExpenses \cup {e}
        /\ e \notin CashExpenses
    BY <1>9, <2>1, <2>2 DEF CashExpenses
  <2>4. CashExpenses \in SUBSET expenses /\ CashExpenses \cup {e} \in SUBSET expenses
    BY <1>9 DEF CashExpenses
  <2>5. \A x \in CashExpenses \cup {e} : amounts[x] \in Int
    BY <1>2, <2>4 DEF AmountOf
  <2>6. SumFunctionOnSet(amounts, CashExpenses \cup {e})
          = SumFunctionOnSet(amounts, CashExpenses) + e.amount
    <3>. HIDE DEF amounts
    <3>1. IsFiniteSet(CashExpenses)
      BY <1>3, <2>4
    <3>2. SumFunctionOnSet(amounts, CashExpenses \cup {e})
            = SumFunctionOnSet(amounts, CashExpenses) + amounts[e]
      BY <2>3, <2>5, <3>1, SumGrows
    <3>. QED BY <2>2, <3>2
  <2>7. /\ SumFunction([x \in CashExpenses |-> AmountOf(x)]) = SumFunctionOnSet(amounts, CashExpenses)
        /\ SumFunction([x \in CashExpenses |-> AmountOf(x)]) \in Int
        /\ SumFunction([x \in CashExpenses \cup {e} |-> AmountOf(x)])
             = SumFunctionOnSet(amounts, CashExpenses \cup {e})
    BY <1>3, <2>4
  <2>8. /\ Expected("Cash") = sold["Cash"] * SaleAmount
             - SumFunction([x \in CashExpenses \cup {e} |-> AmountOf(x)])
        /\ CashBase = sold["Cash"] * SaleAmount
             - SumFunction([x \in CashExpenses |-> AmountOf(x)])
    BY <2>3 DEF Expected, CashBase
  <2>9. e.amount \in Int /\ sold["Cash"] * SaleAmount \in Int
    BY <1>2, <1>4, <1>5, <1>9
  <2>. HIDE DEF amounts
  <2>. QED BY <2>6, <2>7, <2>8, <2>9
<1>. QED BY <1>6, <1>7, <1>8, <1>9

\* The tables a request leaves alone keep all that is said of them, and what
\* the requests that have read rely on.
LEMMA ReconciliationTablesStay ==
    ASSUME ReconciliationTables, UNCHANGED reconciliationVars
    PROVE  ReconciliationTables' /\ \A j : ReconciliationJob(j) => ReconciliationJob(j)'
<1>1. UNCHANGED <<sold, expenses, reconciled, tenderLines, receivables, moved>>
  BY DEF reconciliationVars
<1>2. CashBase' = CashBase
  BY <1>1 DEF CashBase, CashExpenses, Counted, AmountOf
<1>3. \A found : LinesAddUp(found)' = LinesAddUp(found)
  BY <1>1, <1>2 DEF LinesAddUp
<1>4. LinesAddUp(tenderLines)' = LinesAddUp(tenderLines)
  BY <1>1, <1>2 DEF LinesAddUp
<1>5. ReconciliationTables'
  BY <1>1, <1>4 DEF ReconciliationTables, ReconciliationTypeOK, ExpensesAreNumbered, ShortageFollows
<1>. QED BY <1>1, <1>3, <1>5 DEF ReconciliationJob

\* A request that reads relies on what it has just read.
LEMMA ReconciliationRead ==
    ASSUME ReconciliationInv, NEW s \in Session, NEW j, Begin(s, j), ReconciliationJob(j),
           UNCHANGED reconciliationVars
    PROVE  ReconciliationInv'
<1>1. /\ DesksInv' /\ job'[s] = j
      /\ \A t \in Session : t # s => job'[t] = job[t]
  BY BeginJob DEF ReconciliationInv
<1>2. ReconciliationTables' /\ \A i : ReconciliationJob(i) => ReconciliationJob(i)'
  BY ReconciliationTablesStay DEF ReconciliationInv
<1>. QED BY <1>1, <1>2 DEF ReconciliationInv

\* A request that writes and ends leaves the others what they rely on.
LEMMA ReconciliationEnd ==
    ASSUME ReconciliationInv, NEW s \in Session, End(s), ReconciliationTables',
           \A t \in Session : \A j \in {job[t]} :
              t # s /\ j # Idle => ReconciliationJob(j)'
    PROVE  ReconciliationInv'
<1>1. /\ DesksInv' /\ job'[s] = Idle
      /\ \A t \in Session : t # s => job'[t] = job[t]
  BY EndJob DEF ReconciliationInv
<1>. QED BY <1>1 DEF ReconciliationInv

\* A shift is read for its reconciliation, or a line for its shortage.
LEMMA ReconciliationReads ==
    ASSUME ReconciliationInv, NEW s \in Session, ReconcileRead(s) \/ ShortageRead(s)
    PROVE  ReconciliationInv'
<1>1. CASE ReconcileRead(s)
  <2>1. PICK off \in [TenderInUse -> Variances] :
          Begin(s, [kind |-> "reconcile", key |-> NoRecord,
                    lines |-> [t \in TenderInUse |-> [expected |-> Expected(t), variance |-> off[t],
                                                 declared |-> Expected(t) + off[t]]]])
    BY <1>1 DEF ReconcileRead
  <2>2. PICK found : found = [t \in TenderInUse |-> [expected |-> Expected(t), variance |-> off[t],
                                                declared |-> Expected(t) + off[t]]]
    OBVIOUS
  <2>3. PICK j : j = [kind |-> "reconcile", key |-> NoRecord, lines |-> found]
    OBVIOUS
  <2>4. Begin(s, j) /\ j.kind = "reconcile" /\ j.lines = found /\ reconciled = "not yet"
        /\ UNCHANGED reconciliationVars
    BY <1>1, <2>1, <2>2, <2>3 DEF ReconcileRead
  <2>5. ReconciliationTables /\ ShortageFollows
    BY DEF ReconciliationInv, ReconciliationTables
  <2>6. DOMAIN found = TenderInUse /\ TenderInUse \subseteq Tender
    BY <2>2 DEF TenderInUse
  <2>7. \A e \in expenses : ~ e.shortage
    BY <2>4, <2>5 DEF ShortageFollows
  <2>8. Expected("Cash") = CashBase /\ \A t \in Tender : Expected(t) \in Int
    BY <2>5, <2>7, CashExpected
  <2>9. \A t \in TenderInUse : off[t] \in Int
    BY ReconciliationAssumption
  <2>10. \A t \in TenderInUse :
           /\ found[t].expected = Expected(t) /\ found[t].variance = off[t]
           /\ found[t].declared = Expected(t) + off[t]
    BY <2>2
  <2>11. LinesAddUp(found)
    BY <2>6, <2>8, <2>9, <2>10 DEF LinesAddUp
  <2>12. ReconciliationJob(j)
    BY <2>4, <2>11 DEF ReconciliationJob
  <2>. QED BY <2>4, <2>12, ReconciliationRead
<1>2. CASE ShortageRead(s)
  <2>1. PICK j : j = [kind |-> "shortage", key |-> NoRecord]
    OBVIOUS
  <2>2. /\ Begin(s, j) /\ j.kind = "shortage" /\ UNCHANGED reconciliationVars
        /\ reconciled # "not yet" /\ "Cash" \in DOMAIN tenderLines
        /\ tenderLines["Cash"].variance < 0
    BY <1>2, <2>1 DEF ShortageRead, IsShort
  <2>. QED BY <2>2, ReconciliationRead DEF ReconciliationJob
<1>. QED BY <1>1, <1>2

\* A line that is accepted is off by one percent at most.
LEMMA MildIsSmall ==
    ASSUME NEW e \in Int, NEW v \in Int, Severity(e, v) \in {"normal", "warning"}
    PROVE  100 * Magnitude(v) <= Magnitude(e)
<1>1. Magnitude(v) \in Nat /\ Magnitude(e) \in Nat
  BY DEF Magnitude
<1>2. PICK off \in Nat, base \in Nat : off = Magnitude(v) /\ base = Magnitude(e)
  BY <1>1
<1>3. Severity(e, v) = CASE 200 * off <= base -> "normal"
          [] 200 * off > base /\ 100 * off <= base -> "warning"
          [] 100 * off > base /\ 50 * off <= base -> "investigation"
          [] OTHER -> "approval"
  BY <1>2 DEF Severity
<1>4. 100 * off > base => ~ (200 * off <= base) /\ ~ (200 * off > base /\ 100 * off <= base)
  OBVIOUS
<1>5. 100 * off > base => Severity(e, v) \in {"investigation", "approval"}
  BY <1>3, <1>4
<1>. QED BY <1>2, <1>5

\* What was compared becomes the shift's reconciliation, the first time only
\* (perform_shift_reconciliation).
LEMMA ShiftReconciled ==
    ASSUME ReconciliationInv, NEW s \in Session, ReconcileWrite(s)
    PROVE  ReconciliationInv'
<1>1. PICK j : j = job[s]
  OBVIOUS
<1>2. /\ j # Idle /\ j.kind = "reconcile" /\ End(s) /\ reconciled = "not yet"
      /\ ReconciliationJob(j) /\ ReconciliationTables /\ ReconciliationTypeOK
      /\ ExpensesAreNumbered /\ ShortageFollows
  BY <1>1 DEF ReconcileWrite, Runs, MayReconcile, ReconciliationInv, ReconciliationTables
<1>3. /\ tenderLines' = j.lines /\ UNCHANGED <<sold, expenses, receivables, moved>>
      /\ reconciled' = IF Accepted(j.lines) THEN "accepted" ELSE "pending approval"
  BY <1>1 DEF ReconcileWrite
<1>4. LinesAddUp(j.lines)
  BY <1>2 DEF ReconciliationJob
<1>5. CashBase' = CashBase
  BY <1>3 DEF CashBase, CashExpenses, Counted, AmountOf
<1>6. (reconciled # "not yet" => LinesAddUp(tenderLines))'
  BY <1>3, <1>4, <1>5 DEF LinesAddUp
<1>7. ReconciliationTypeOK'
  <2>1. DOMAIN j.lines \subseteq Tender
    BY <1>4 DEF LinesAddUp
  <2>2. ASSUME Accepted(j.lines), NEW t \in DOMAIN j.lines
        PROVE  100 * Magnitude(j.lines[t].variance) <= Magnitude(j.lines[t].expected)
    <3>1. Severity(j.lines[t].expected, j.lines[t].variance) \in {"normal", "warning"}
      BY <2>2 DEF Accepted
    <3>2. j.lines[t].expected \in Int /\ j.lines[t].variance \in Int
      BY <1>4 DEF LinesAddUp
    <3>. QED BY <3>1, <3>2, MildIsSmall
  <2>. QED BY <1>2, <1>3, <2>1, <2>2 DEF ReconciliationTypeOK, Magnitude
<1>8. ExpensesAreNumbered' /\ ShortageFollows'
  <2>1. receivables = {} /\ \A e \in expenses : ~ e.shortage
    BY <1>2 DEF ShortageFollows
  <2>. QED BY <1>2, <1>3, <2>1 DEF ExpensesAreNumbered, ShortageFollows
<1>9. ASSUME NEW t \in Session, NEW i \in {job[t]}, t # s, i # Idle PROVE ReconciliationJob(i)'
  <2>1. ReconciliationJob(i)
    BY <1>9 DEF ReconciliationInv
  <2>2. i.kind = "reconcile" => DOMAIN i.lines \subseteq Tender
    BY <1>2, <2>1 DEF ReconciliationJob, LinesAddUp
  <2>3. i.kind # "shortage" /\ reconciled' # "not yet"
    BY <1>2, <1>3, <2>1 DEF ReconciliationJob
  <2>. QED BY <2>2, <2>3 DEF ReconciliationJob
<1>10. ReconciliationTables'
  BY <1>6, <1>7, <1>8 DEF ReconciliationTables
<1>. QED BY <1>2, <1>9, <1>10, ReconciliationEnd

\* A shortage is booked: an expense and what the employee owes, together
\* (record_shortage).
LEMMA ShortageBooked ==
    ASSUME ReconciliationInv, NEW s \in Session, ShortageWrite(s)
    PROVE  ReconciliationInv' /\ reconciled # "not yet" /\ reconciled' = reconciled
           /\ tenderLines' = tenderLines
<1>1. PICK j : j = job[s]
  OBVIOUS
<1>2. /\ j # Idle /\ j.kind = "shortage" /\ End(s) /\ receivables = {}
      /\ ReconciliationJob(j) /\ ReconciliationTables /\ ReconciliationTypeOK
      /\ ExpensesAreNumbered /\ ShortageFollows
      /\ UNCHANGED <<sold, reconciled, tenderLines, moved>> /\ Cardinality(expenses) < MaxExpenses
  BY <1>1 DEF ShortageWrite, Runs, MayBook, ReconciliationInv, ReconciliationTables
<1>3. reconciled # "not yet" /\ "Cash" \in DOMAIN tenderLines /\ tenderLines["Cash"].variance < 0
  BY <1>2 DEF ReconciliationJob
<1>4. LinesAddUp(tenderLines) /\ tenderLines["Cash"].variance \in Int
  BY <1>2, <1>3 DEF ReconciliationTables, LinesAddUp
<1>5. PICK n \in Nat \ {0} : n = - tenderLines["Cash"].variance /\ n = Magnitude(tenderLines["Cash"].variance)
  <2>1. PICK v \in Int : v = tenderLines["Cash"].variance /\ v < 0
    BY <1>3, <1>4
  <2>2. Magnitude(v) = - v /\ - v \in Nat \ {0}
    BY <2>1 DEF Magnitude
  <2>. QED BY <2>1, <2>2
<1>6. PICK b \in BOOLEAN : b = TRUE
  OBVIOUS
<1>7. PICK t \in Tender : t = "Cash"
  BY DEF Tender
<1>8. PICK e : e = NewExpense(t, n, b)
  OBVIOUS
<1>9. /\ expenses' = expenses \cup {e}
      /\ receivables' = receivables \cup {[expense |-> e.id, amount |-> e.amount]}
  BY <1>5, <1>6, <1>7, <1>8 DEF ShortageWrite
<1>10. /\ e.tender = "Cash" /\ e.amount = n /\ e.shortage
       /\ ExpensesAreNumbered' /\ expenses' \subseteq ExpenseRow /\ CashExpenses' = CashExpenses
  <2>1. /\ e.tender = t /\ e.amount = n /\ e.shortage = b
        /\ ExpensesAreNumbered' /\ expenses' \subseteq ExpenseRow /\ CashExpenses' = CashExpenses
    BY <1>2, <1>8, <1>9, ExpenseAdded
  <2>. QED BY <1>6, <1>7, <2>1
<1>11. \A d \in expenses : ~ d.shortage
  BY <1>2 DEF ShortageFollows
<1>12. receivables' = {[expense |-> e.id, amount |-> e.amount]}
  BY <1>2, <1>9
<1>13. ShortageFollows'
  <2>1. \A d \in expenses' : d.shortage => d = e
    BY <1>9, <1>11
  <2>2. e \in expenses'
    BY <1>9
  <2>. QED BY <1>2, <1>3, <1>5, <1>10, <1>12, <2>1, <2>2 DEF ShortageFollows
<1>14. ReconciliationTypeOK'
  BY <1>2, <1>10 DEF ReconciliationTypeOK
<1>15. CashBase' = CashBase
  BY <1>2, <1>10 DEF CashBase, AmountOf
<1>16. ASSUME NEW found PROVE LinesAddUp(found) => LinesAddUp(found)'
  BY <1>2, <1>15 DEF LinesAddUp
<1>17. (reconciled # "not yet" => LinesAddUp(tenderLines))'
  BY <1>2, <1>4, <1>15 DEF LinesAddUp
<1>18. ASSUME NEW u \in Session, NEW i \in {job[u]}, u # s, i # Idle PROVE ReconciliationJob(i)'
  <2>1. ReconciliationJob(i)
    BY <1>18 DEF ReconciliationInv
  <2>. QED BY <1>2, <1>3, <2>1 DEF ReconciliationJob
<1>19. ReconciliationTables'
  BY <1>10, <1>13, <1>14, <1>17 DEF ReconciliationTables
<1>. QED BY <1>2, <1>3, <1>18, <1>19, ReconciliationEnd

\* What the reconciliation starts with, and that every step keeps: a shift
\* that has been reconciled stays so.
LEMMA ReconciliationInductive ==
    /\ DesksInit /\ ReconciliationInit => ReconciliationInv
    /\ ReconciliationInv /\ [ReconciliationNext]_<<deskVars, reconciliationVars>> =>
         /\ ReconciliationInv'
         /\ reconciled # "not yet" => reconciled' # "not yet" /\ tenderLines' = tenderLines
<1>1. ASSUME DesksInit, ReconciliationInit PROVE ReconciliationInv
  <2>1. DesksInv /\ \A s \in Session : job[s] = Idle
    BY <1>1, DesksStart DEF DesksInit
  <2>2. /\ sold = [t \in Tender |-> 0] /\ expenses = {} /\ reconciled = "not yet"
        /\ DOMAIN tenderLines = {} /\ receivables = {} /\ moved = FALSE
    BY <1>1 DEF ReconciliationInit
  <2>3. 0 \in 0 .. MaxTenderSales
    BY ReconciliationAssumption
  <2>4. ReconciliationTypeOK
    BY <2>2, <2>3 DEF ReconciliationTypeOK
  <2>5. ExpensesAreNumbered /\ ShortageFollows
    BY <2>2, FS_EmptySet DEF ExpensesAreNumbered, ShortageFollows
  <2>. QED BY <2>1, <2>2, <2>4, <2>5 DEF ReconciliationInv, ReconciliationTables
<1>2. ASSUME ReconciliationInv, [ReconciliationNext]_<<deskVars, reconciliationVars>>
      PROVE  /\ ReconciliationInv'
             /\ reconciled # "not yet" => reconciled' # "not yet" /\ tenderLines' = tenderLines
  <2>1. CASE UNCHANGED <<deskVars, reconciliationVars>>
    <3>1. UNCHANGED <<mainPC, job>> /\ DesksInv' /\ UNCHANGED reconciliationVars
      BY <1>2, <2>1, DesksStay DEF deskVars, ReconciliationInv
    <3>2. ReconciliationInv'
      BY <1>2, <3>1, ReconciliationTablesStay DEF ReconciliationInv
    <3>. QED BY <3>1, <3>2 DEF reconciliationVars
  <2>2. ASSUME NEW s \in Session, GiveUp(s), UNCHANGED reconciliationVars
        PROVE  ReconciliationInv'
    <3>1. End(s) /\ ReconciliationTables' /\ \A j : ReconciliationJob(j) => ReconciliationJob(j)'
      BY <1>2, <2>2, ReconciliationTablesStay DEF GiveUp, ReconciliationInv
    <3>. QED BY <1>2, <2>2, <3>1, ReconciliationEnd DEF ReconciliationInv
  <2>3. CASE Sell \/ CancelSale \/ CreateExpense \/ ApproveExpense \/ RejectExpense
    <3>1. UNCHANGED <<reconciled, tenderLines>>
      BY <2>3 DEF Sell, CancelSale, CreateExpense, ApproveExpense, RejectExpense
    <3>. QED BY <1>2, <2>3, <3>1, ReconciliationBeside
  <2>4. CASE ApproveReconciliation
    <3>1. /\ UNCHANGED <<mainPC, job, sold, expenses, tenderLines, receivables, moved>>
          /\ reconciled = "pending approval" /\ reconciled' = "approved"
      BY <2>4 DEF ApproveReconciliation, AtOnce, deskVars
    <3>2. /\ ReconciliationTypeOK /\ ExpensesAreNumbered /\ ShortageFollows /\ LinesAddUp(tenderLines)
          /\ DesksInv'
      BY <1>2, <3>1, DesksStay DEF ReconciliationInv, ReconciliationTables, deskVars
    <3>3. CashBase' = CashBase
      BY <3>1 DEF CashBase, CashExpenses, Counted, AmountOf
    <3>4. LinesAddUp(tenderLines)'
      BY <3>1, <3>2, <3>3 DEF LinesAddUp
    <3>5. ReconciliationTypeOK' /\ ExpensesAreNumbered' /\ ShortageFollows'
      BY <3>1, <3>2 DEF ReconciliationTypeOK, ExpensesAreNumbered, ShortageFollows
    <3>6. \A j : ReconciliationJob(j) => ReconciliationJob(j)'
      BY <3>1 DEF ReconciliationJob
    <3>7. ReconciliationInv'
      BY <1>2, <3>1, <3>2, <3>4, <3>5, <3>6 DEF ReconciliationInv, ReconciliationTables
    <3>. QED BY <3>1, <3>7
  <2>5. ASSUME NEW s \in Session, ReconcileRead(s) \/ ShortageRead(s)
        PROVE  ReconciliationInv' /\ UNCHANGED reconciliationVars
    BY <1>2, <2>5, ReconciliationReads DEF ReconcileRead, ShortageRead
  <2>6. ASSUME NEW s \in Session, ReconcileWrite(s)
        PROVE  ReconciliationInv' /\ reconciled = "not yet"
    BY <1>2, <2>6, ShiftReconciled DEF ReconcileWrite, MayReconcile
  <2>7. ASSUME NEW s \in Session, ShortageWrite(s)
        PROVE  ReconciliationInv' /\ UNCHANGED <<reconciled, tenderLines>>
    BY <1>2, <2>7, ShortageBooked
  <2>. QED BY <1>2, <2>1, <2>2, <2>3, <2>4, <2>5, <2>6, <2>7
           DEF ReconciliationNext, reconciliationVars
<1>. QED BY <1>1, <1>2

\* A shift is reconciled once, and a shortage it finds is one expense that
\* accounts for it, for any number of PCs, sales and expenses.
THEOREM ShortageStaysBookedOnce == ReconciliationSpec => ShortageIsBookedOnce
<1>1. ReconciliationInv => ShortageCostsOnce
  <2>1. SUFFICES ASSUME ReconciliationInv PROVE ShortageCostsOnce
    OBVIOUS
  <2>2. ExpensesAreNumbered /\ ShortageFollows
    BY <2>1 DEF ReconciliationInv, ReconciliationTables
  <2>3. Cardinality({e \in expenses : e.shortage}) <= 1
    <3>1. CASE {e \in expenses : e.shortage} = {}
      <4>1. Cardinality({e \in expenses : e.shortage}) = 0
        BY <3>1, FS_EmptySet
      <4>. QED BY <4>1
    <3>2. CASE {e \in expenses : e.shortage} # {}
      <4>1. PICK d \in {e \in expenses : e.shortage} : TRUE
        BY <3>2
      <4>2. \A e \in expenses : e.shortage => e = d
        BY <2>2, <4>1, OneShortage
      <4>3. {e \in expenses : e.shortage} = {d}
        BY <4>1, <4>2
      <4>4. Cardinality({e \in expenses : e.shortage}) = 1
        BY <4>3, FS_Singleton
      <4>. QED BY <4>4
    <3>. QED BY <3>1, <3>2
  <2>4. \A e \in expenses : e.shortage => [expense |-> e.id, amount |-> e.amount] \in receivables
    <3>1. SUFFICES ASSUME NEW e \in expenses, e.shortage
                   PROVE  [expense |-> e.id, amount |-> e.amount] \in receivables
      OBVIOUS
    <3>2. receivables = {[expense |-> e.id, amount |-> e.amount]}
      BY <2>2, <3>1 DEF ShortageFollows
    <3>. QED BY <3>2
  <2>. QED BY <2>3, <2>4 DEF ShortageCostsOnce
<1>2. ReconciliationInv => ShortageBalances
  <2>1. SUFFICES ASSUME ReconciliationTables, NEW x \in receivables, NEW e \in expenses,
                        e.id = x.expense, e.status = "approved", ~ moved
                 PROVE  Expected("Cash") = tenderLines["Cash"].declared
    BY DEF ReconciliationInv, ShortageBalances
  <2>2. ExpensesAreNumbered /\ ShortageFollows /\ (reconciled # "not yet" => LinesAddUp(tenderLines))
    BY <2>1 DEF ReconciliationTables
  <2>3. PICK d \in expenses : d.shortage /\ x = [expense |-> d.id, amount |-> d.amount]
    BY <2>1, <2>2 DEF ShortageFollows
  <2>4. x.expense = d.id
    BY <2>3
  <2>5. d = e
    BY <2>1, <2>2, <2>4 DEF ExpensesAreNumbered
  <2>6. e.shortage /\ reconciled # "not yet"
    BY <2>1, <2>2, <2>3, <2>5 DEF ShortageFollows
  <2>7. e.amount = - tenderLines["Cash"].variance /\ "Cash" \in DOMAIN tenderLines
    BY <2>2, <2>6 DEF ShortageFollows
  <2>8. /\ tenderLines["Cash"].variance \in Int /\ tenderLines["Cash"].expected = CashBase
        /\ tenderLines["Cash"].declared
             = tenderLines["Cash"].expected + tenderLines["Cash"].variance
    BY <2>1, <2>2, <2>6, <2>7 DEF LinesAddUp
  <2>9. Expected("Cash") = CashBase - e.amount /\ CashBase \in Int
    BY <2>1, <2>6, CashExpected
  <2>. QED BY <2>7, <2>8, <2>9
<1>3. ReconciliationInv /\ [ReconciliationNext]_<<deskVars, reconciliationVars>> =>
         [reconciled # "not yet" => reconciled' # "not yet" /\ tenderLines' = tenderLines]_<<deskVars, reconciliationVars>>
  BY ReconciliationInductive
<1>. QED BY <1>1, <1>2, <1>3, ReconciliationInductive, PTL
         DEF ReconciliationSpec, ShortageIsBookedOnce, ReconciledOnce

-----------------------------------------------------------------------------
(***************************************************************************)
(* The close desk: no litre, no total and no cash is counted twice.        *)
(***************************************************************************)

TotalRow == [id : 1 .. MaxEntries, shift : shifts, tender : TypedTender, amount : 1 .. 2,
             live : BOOLEAN]

\* What a request of the desk goes on with.  In one window nothing has moved
\* since it looked.
DeskJob(j) ==
    j.kind = "desk" =>
        /\ j.shift \in shifts /\ j.input.tender \in TypedTender
        /\ j.input.closing # NotTyped =>
             /\ j.opening \in 0 .. MaxMeter /\ j.input.closing \in 0 .. MaxMeter
             /\ j.opening <= j.input.closing
             /\ ~ mainPC /\ j.input.opening = NotTyped => j.opening = LastClosing
        /\ j.input.total # NotTyped => j.input.total \in 1 .. 2
        /\ j.active \subseteq TotalRow /\ IsFiniteSet(j.active)
        /\ ~ mainPC => j.active = ActiveTotal(j.shift, j.input.tender)

\* Readings are known by the order they were typed in, and none runs back.
ReadingsFollow ==
    /\ IsFiniteSet(readings)
    /\ \A q, r \in readings : q.at = r.at => q = r
    /\ \A r \in readings : r.at <= Cardinality(readings) /\ r.opening <= r.closing
    /\ MeterBilledOnce

TotalsFollow ==
    /\ IsFiniteSet(entries)
    /\ ~ mainPC => \A d, e \in entries :
          d.live /\ e.live /\ d.shift = e.shift /\ d.tender = e.tender => d = e

CloseDeskTables ==
    /\ CloseDeskTypeOK /\ DOMAIN books = ShiftNo /\ ReadingsFollow /\ TotalsFollow

CloseDeskInv ==
    /\ DesksInv /\ CloseDeskTables
    /\ \A s \in Session : \A j \in {job[s]} : j # Idle => DeskJob(j)

\* What the screens let somebody type.
LEMMA SheetFields ==
    ASSUME NEW firsts, NEW lasts, NEW totals, NEW previews, NEW cashes,
           NEW i \in Typed(firsts, lasts, totals, previews, cashes)
    PROVE  /\ i.opening \in firsts \cup {NotTyped} /\ i.closing \in lasts \cup {NotTyped}
           /\ i.tender \in TypedTender /\ i.total \in totals \cup {NotTyped}
<1>1. ASSUME NEW screen, NEW r \in (firsts \cup {NotTyped}) \X (lasts \cup {NotTyped}),
             NEW t \in TypedTender \X (totals \cup {NotTyped}), NEW preview, NEW cash,
             i = Sheet(screen, r, t, preview, cash)
      PROVE  /\ i.opening \in firsts \cup {NotTyped} /\ i.closing \in lasts \cup {NotTyped}
             /\ i.tender \in TypedTender /\ i.total \in totals \cup {NotTyped}
  <2>1. i.opening = r[1] /\ i.closing = r[2] /\ i.tender = t[1] /\ i.total = t[2]
    BY <1>1 DEF Sheet
  <2>. QED BY <1>1, <2>1
<1>2. /\ NoReading \in (firsts \cup {NotTyped}) \X (lasts \cup {NotTyped})
      /\ NoTotal \in TypedTender \X (totals \cup {NotTyped})
      /\ "Card" \in TypedTender
  BY DEF NoReading, NoTotal, TypedTender
<1>3. CASE i \in ShiftCloseSheets(firsts, lasts)
  <2>1. PICK r \in (firsts \cup {NotTyped}) \X lasts :
           i = Sheet("shift-close", r, NoTotal, FALSE, FALSE)
    BY <1>3 DEF ShiftCloseSheets, ReadingsTyped
  <2>2. r \in (firsts \cup {NotTyped}) \X (lasts \cup {NotTyped})
    OBVIOUS
  <2>. QED BY <1>1, <1>2, <2>1, <2>2
<1>4. CASE i \in TotalsSheets(totals)
  <2>1. PICK t \in TypedTender \X totals : i = Sheet("shift-totals", NoReading, t, FALSE, FALSE)
    BY <1>4 DEF TotalsSheets
  <2>2. t \in TypedTender \X (totals \cup {NotTyped})
    OBVIOUS
  <2>. QED BY <1>1, <1>2, <2>1, <2>2
<1>5. CASE i \in CloseShiftSheets(firsts, lasts, totals, previews, cashes)
  <2>1. PICK r \in ((firsts \cup {NotTyped}) \X lasts) \cup {NoReading},
             t \in {NoTotal} \cup {"Card"} \X totals, preview \in previews, cash \in cashes :
           i = Sheet("close-shift", r, t, preview, cash)
    BY <1>5 DEF CloseShiftSheets, ReadingsTyped
  <2>2. r \in (firsts \cup {NotTyped}) \X (lasts \cup {NotTyped})
    BY <1>2
  <2>3. t \in TypedTender \X (totals \cup {NotTyped})
    BY <1>2
  <2>. QED BY <1>1, <2>1, <2>2, <2>3
<1>. QED BY <1>3, <1>4, <1>5 DEF Typed

\* The reading that was typed last.
LEMMA LastReading ==
    ASSUME CloseDeskTypeOK, ReadingsFollow, readings # {}
    PROVE  \E l \in readings : LastClosing = l.closing /\ \A q \in readings : q.at <= l.at
<1>. DEFINE at == [r \in readings |-> r.at]
<1>1. \A r \in readings : r.at \in Int /\ at[r] = r.at
  <2>1. \A r \in readings : r.at \in 1 .. MaxReadings
    BY DEF CloseDeskTypeOK
  <2>. QED BY <2>1
<1>2. \E m \in readings : \A x \in readings : at[x] <= at[m]
  <2>1. IsFiniteSet(readings) /\ \A x \in readings : at[x] \in Int
    BY <1>1 DEF ReadingsFollow
  <2>. HIDE DEF at
  <2>. QED BY <2>1, GreatestOfFew
<1>3. \E m \in readings : \A q \in readings : q.at <= m.at
  BY <1>1, <1>2
<1>4. PICK l : l = CHOOSE r \in readings : \A q \in readings : q.at <= r.at
  OBVIOUS
<1>5. l \in readings /\ \A q \in readings : q.at <= l.at
  BY <1>3, <1>4
<1>6. LastClosing = l.closing
  BY <1>4 DEF LastClosing
<1>. QED BY <1>5, <1>6

\* The tables a request leaves alone keep all that is said of them, and what
\* the requests that have read rely on.
LEMMA CloseDeskTablesStay ==
    ASSUME CloseDeskTables, UNCHANGED closeDeskVars, mainPC' = mainPC
    PROVE  CloseDeskTables' /\ \A j : DeskJob(j) => DeskJob(j)'
<1>1. /\ UNCHANGED <<shifts, openShifts, readings, entries, dtpSold, books, cashMoves>>
      /\ (~ mainPC)' = (~ mainPC)
  BY DEF closeDeskVars
<1>2. CloseDeskTables'
  BY <1>1 DEF CloseDeskTables, CloseDeskTypeOK, ReadingsFollow, TotalsFollow, MeterBilledOnce
<1>3. TotalRow' = TotalRow /\ LastClosing' = LastClosing
      /\ \A n, t : ActiveTotal(n, t)' = ActiveTotal(n, t)
  BY <1>1 DEF TotalRow, LastClosing, ActiveTotal
<1>. QED BY <1>1, <1>2, <1>3 DEF DeskJob

\* A request that reads relies on what it has just read.
LEMMA DeskReadKeeps ==
    ASSUME CloseDeskInv, NEW s \in Session, NEW j, Begin(s, j), DeskJob(j),
           UNCHANGED closeDeskVars
    PROVE  CloseDeskInv'
<1>1. /\ DesksInv' /\ mainPC' = mainPC /\ job'[s] = j
      /\ \A t \in Session : t # s => job'[t] = job[t]
  BY BeginJob DEF CloseDeskInv
<1>2. CloseDeskTables' /\ \A i : DeskJob(i) => DeskJob(i)'
  BY <1>1, CloseDeskTablesStay DEF CloseDeskInv
<1>. QED BY <1>1, <1>2 DEF CloseDeskInv

\* On the Main PC a request relies on nothing that others may change.
LEMMA DeskJobKept ==
    ASSUME mainPC = TRUE, mainPC' = mainPC, shifts \subseteq shifts', NEW j, DeskJob(j)
    PROVE  DeskJob(j)'
<1>1. (~ mainPC)' = FALSE /\ (~ mainPC) = FALSE
  OBVIOUS
<1>2. TotalRow \subseteq TotalRow'
  BY DEF TotalRow
<1>. QED BY <1>1, <1>2 DEF DeskJob

\* A request that ends, having written or not, leaves the others, which run
\* on the Main PC only, what they rely on.
LEMMA DeskEnd ==
    ASSUME CloseDeskInv, NEW s \in Session, job[s] # Idle, End(s), CloseDeskTables',
           shifts \subseteq shifts'
    PROVE  CloseDeskInv'
<1>1. /\ DesksInv' /\ job'[s] = Idle /\ mainPC' = mainPC
      /\ \A t \in Session : t # s => job'[t] = job[t]
  BY EndJob DEF CloseDeskInv
<1>2. ASSUME NEW t \in Session, NEW j \in {job'[t]}, j # Idle PROVE DeskJob(j)'
  <2>1. t # s /\ job[t] = j /\ mainPC = TRUE
    BY <1>1, <1>2 DEF CloseDeskInv, DesksInv
  <2>2. DeskJob(j)
    BY <1>2, <2>1 DEF CloseDeskInv
  <2>. QED BY <1>1, <2>1, <2>2, DeskJobKept
<1>. QED BY <1>1, <1>2 DEF CloseDeskInv

\* What is typed for a shift is looked at against the tables (submit,
\* set_total).
LEMMA SheetRead ==
    ASSUME CloseDeskInv, NEW s \in Session, NEW typed,
           typed \subseteq Typed(0 .. MaxMeter, 0 .. MaxMeter, 1 .. 2, BOOLEAN, BOOLEAN),
           DeskRead(s, typed)
    PROVE  CloseDeskInv'
<1>1. PICK i \in typed, n \in shifts :
         /\ i.closing # NotTyped =>
              MayComplete(n, OpeningOf(i.closing # NotTyped, i.opening), i.closing)
         /\ Begin(s, [kind |-> "desk", key |-> <<i.screen, n>>, shift |-> n, input |-> i,
                      open |-> n \in openShifts,
                      opening |-> OpeningOf(i.closing # NotTyped, i.opening),
                      active |-> ActiveTotal(n, i.tender)])
  BY DEF DeskRead
<1>2. PICK j : j = [kind |-> "desk", key |-> <<i.screen, n>>, shift |-> n, input |-> i,
                    open |-> n \in openShifts,
                    opening |-> OpeningOf(i.closing # NotTyped, i.opening),
                    active |-> ActiveTotal(n, i.tender)]
  OBVIOUS
<1>3. /\ Begin(s, j) /\ j.shift = n /\ j.input = i /\ j.active = ActiveTotal(n, i.tender)
      /\ j.opening = OpeningOf(i.closing # NotTyped, i.opening)
  BY <1>1, <1>2
<1>4. /\ i.opening \in 0 .. MaxMeter \cup {NotTyped} /\ i.closing \in 0 .. MaxMeter \cup {NotTyped}
      /\ i.tender \in TypedTender /\ i.total \in (1 .. 2) \cup {NotTyped}
  BY SheetFields
<1>5. CloseDeskTypeOK /\ ReadingsFollow /\ TotalsFollow
  BY DEF CloseDeskInv, CloseDeskTables
<1>6. ASSUME i.closing # NotTyped
      PROVE  /\ j.opening \in 0 .. MaxMeter /\ j.opening <= i.closing
             /\ i.opening = NotTyped => j.opening = LastClosing
  <2>1. j.opening # NotTyped /\ i.closing >= j.opening
    BY <1>1, <1>3, <1>6 DEF MayComplete
  <2>2. /\ i.opening # NotTyped => j.opening = i.opening
        /\ i.opening = NotTyped => j.opening = LastClosing
    BY <1>3, <1>6 DEF OpeningOf
  <2>3. i.opening = NotTyped => j.opening \in 0 .. MaxMeter
    <3>1. SUFFICES ASSUME i.opening = NotTyped PROVE j.opening \in 0 .. MaxMeter
      OBVIOUS
    <3>2. readings # {}
      BY <2>1, <2>2, <3>1 DEF LastClosing
    <3>3. PICK l \in readings : LastClosing = l.closing
      BY <1>5, <3>2, LastReading
    <3>. QED BY <1>5, <2>2, <3>1, <3>3 DEF CloseDeskTypeOK
  <2>4. j.opening \in 0 .. MaxMeter
    BY <1>4, <2>2, <2>3
  <2>5. i.closing \in Int /\ j.opening \in Int
    BY <1>4, <1>6, <2>4
  <2>. QED BY <2>1, <2>2, <2>4, <2>5
<1>7. j.active \subseteq TotalRow /\ IsFiniteSet(j.active)
  <2>1. j.active \subseteq entries
    BY <1>3 DEF ActiveTotal
  <2>. QED BY <1>5, <2>1, FS_Subset DEF CloseDeskTypeOK, TotalsFollow, TotalRow
<1>8. DeskJob(j)
  BY <1>3, <1>4, <1>6, <1>7 DEF DeskJob
<1>. QED BY <1>3, <1>8, DeskReadKeeps DEF DeskRead

\* The reading that is typed is the nozzle's newest (submit).
LEMMA ReadingTyped ==
    ASSUME CloseDeskTypeOK, ReadingsFollow, NEW j, j.kind = "desk", DeskJob(j), mainPC' = mainPC,
           Cardinality(readings) < MaxReadings, readings' = readings \cup Completed(j)
    PROVE  /\ ReadingsFollow'
           /\ readings' \subseteq [shift : shifts, opening : 0 .. MaxMeter, closing : 0 .. MaxMeter,
                                   typed : BOOLEAN, at : 1 .. MaxReadings]
<1>1. CASE j.input.closing = NotTyped
  <2>1. readings' = readings
    BY <1>1 DEF Completed
  <2>2. (~ mainPC)' = (~ mainPC)
    OBVIOUS
  <2>. QED BY <2>1, <2>2 DEF ReadingsFollow, MeterBilledOnce, CloseDeskTypeOK
<1>2. CASE j.input.closing # NotTyped
  <2>1. PICK b \in BOOLEAN : b = (j.input.opening # NotTyped)
    OBVIOUS
  <2>2. PICK r : r = [shift |-> j.shift, opening |-> j.opening, closing |-> j.input.closing,
                      typed |-> b, at |-> Cardinality(readings) + 1]
    OBVIOUS
  <2>3. /\ readings' = readings \cup {r} /\ r.shift = j.shift /\ r.opening = j.opening
        /\ r.closing = j.input.closing /\ r.typed = b /\ r.at = Cardinality(readings) + 1
    BY <1>2, <2>1, <2>2 DEF Completed
  <2>4. /\ j.shift \in shifts /\ j.opening \in 0 .. MaxMeter /\ j.input.closing \in 0 .. MaxMeter
        /\ j.opening <= j.input.closing
        /\ ~ mainPC /\ j.input.opening = NotTyped => j.opening = LastClosing
    BY <1>2 DEF DeskJob
  <2>5. /\ Cardinality(readings) \in Nat /\ MaxReadings \in Nat
        /\ \A q \in readings : q.at \in Int /\ q.at <= Cardinality(readings)
    <3>1. \A q \in readings : q.at \in 1 .. MaxReadings
      BY DEF CloseDeskTypeOK
    <3>. QED BY <3>1, FS_CardinalityType, CloseDeskAssumption DEF ReadingsFollow
  <2>6. r.at \in 1 .. MaxReadings /\ \A q \in readings : q.at < r.at
    BY <2>3, <2>5
  <2>7. r \in [shift : shifts, opening : 0 .. MaxMeter, closing : 0 .. MaxMeter,
               typed : BOOLEAN, at : 1 .. MaxReadings]
    BY <2>1, <2>2, <2>3, <2>4, <2>6
  <2>8. r \notin readings
    BY <2>5, <2>6
  <2>9. IsFiniteSet(readings') /\ Cardinality(readings') = Cardinality(readings) + 1
    <3>1. IsFiniteSet(readings)
      BY DEF ReadingsFollow
    <3>2. /\ IsFiniteSet(readings \cup {r})
          /\ Cardinality(readings \cup {r}) = Cardinality(readings) + 1
      BY <2>8, <3>1, FS_AddElement
    <3>3. readings' = readings \cup {r}
      BY <2>3
    <3>. QED BY <3>2, <3>3, Zenon
  <2>10. \A p, q \in readings' : p.at = q.at => p = q
    BY <2>3, <2>5, <2>6 DEF ReadingsFollow
  <2>11. \A q \in readings' : q.at <= Cardinality(readings') /\ q.opening <= q.closing
    BY <2>3, <2>4, <2>5, <2>9 DEF ReadingsFollow
  <2>12. MeterBilledOnce'
    <3>1. (~ mainPC)' = (~ mainPC)
      OBVIOUS
    <3>2. SUFFICES ASSUME ~ mainPC, \A q \in readings' : q.typed => q.at = 1,
                          NEW q \in readings', NEW p \in readings', q.at < p.at
                   PROVE  q.closing <= p.opening
      BY <3>1 DEF MeterBilledOnce
    <3>3. MeterBilledOnce /\ \A o \in readings : o.typed => o.at = 1
      BY <2>3, <3>2 DEF ReadingsFollow
    <3>4. CASE p \in readings
      <4>1. q \in readings
        <5>1. q # r
          BY <2>5, <2>6, <3>2, <3>4
        <5>. QED BY <2>3, <5>1
      <4>. QED BY <3>2, <3>3, <3>4, <4>1 DEF MeterBilledOnce
    <3>5. CASE p = r
      <4>1. q \in readings
        <5>1. q # r
          BY <2>3, <2>5, <3>2, <3>5
        <5>. QED BY <2>3, <5>1
      <4>2. r.at # 1
        <5>1. q.at \in 1 .. MaxReadings
          BY <4>1 DEF CloseDeskTypeOK
        <5>. QED BY <2>6, <4>1, <5>1
      <4>3. j.opening = LastClosing
        BY <2>1, <2>3, <2>4, <3>2, <4>2
      <4>4. PICK l \in readings : LastClosing = l.closing /\ \A o \in readings : o.at <= l.at
        BY <4>1, LastReading
      <4>5. q = l \/ q.at < l.at
        <5>1. q.at <= l.at /\ q.at \in Int /\ l.at \in Int
          BY <2>5, <4>1, <4>4
        <5>2. q.at = l.at => q = l
          BY <4>1 DEF ReadingsFollow
        <5>. QED BY <5>1, <5>2
      <4>6. /\ q.closing \in 0 .. MaxMeter /\ l.opening \in 0 .. MaxMeter /\ l.closing \in 0 .. MaxMeter
            /\ l.opening <= l.closing
        BY <4>1 DEF CloseDeskTypeOK, ReadingsFollow
      <4>7. q.at < l.at => q.closing <= l.opening
        BY <3>2, <3>3, <4>1 DEF MeterBilledOnce
      <4>8. q.closing <= l.closing
        BY <4>5, <4>6, <4>7
      <4>. QED BY <2>3, <3>5, <4>3, <4>4, <4>8
    <3>. QED BY <2>3, <3>2, <3>4, <3>5
  <2>13. readings' \subseteq [shift : shifts, opening : 0 .. MaxMeter, closing : 0 .. MaxMeter,
                              typed : BOOLEAN, at : 1 .. MaxReadings]
    BY <2>3, <2>7 DEF CloseDeskTypeOK
  <2>. QED BY <2>9, <2>10, <2>11, <2>12, <2>13 DEF ReadingsFollow
<1>. QED BY <1>1, <1>2

\* The total that is typed replaces the one that counted (set_total).
LEMMA TotalTyped ==
    ASSUME CloseDeskTypeOK, TotalsFollow, NEW j, j.kind = "desk", DeskJob(j), mainPC' = mainPC,
           Cardinality(entries) < MaxEntries,
           NEW active, active = j.active \/ active = ActiveTotal(j.shift, j.input.tender),
           NEW old \in SUBSET active, Cardinality(old) <= 1, old = {} => active = {},
           entries' = Retyped(j, old)
    PROVE  TotalsFollow' /\ entries' \subseteq TotalRow
<1>1. entries \subseteq TotalRow /\ IsFiniteSet(entries) /\ Cardinality(entries) \in Nat
  BY FS_CardinalityType DEF CloseDeskTypeOK, TotalsFollow, TotalRow
<1>2. /\ j.shift \in shifts /\ j.input.tender \in TypedTender
      /\ j.input.total # NotTyped => j.input.total \in 1 .. 2
      /\ j.active \subseteq TotalRow /\ IsFiniteSet(j.active)
      /\ ~ mainPC => j.active = ActiveTotal(j.shift, j.input.tender)
  BY DEF DeskJob
<1>3. active \subseteq TotalRow /\ IsFiniteSet(active)
  <2>1. ActiveTotal(j.shift, j.input.tender) \subseteq entries
    BY DEF ActiveTotal
  <2>. QED BY <1>1, <1>2, <2>1, FS_Subset
<1>4. IsFiniteSet(old) /\ (old = {} \/ \E o : old = {o})
  <2>1. IsFiniteSet(old)
    BY <1>3, FS_Subset
  <2>2. Cardinality(old) \in Nat
    BY <2>1, FS_CardinalityType
  <2>3. Cardinality(old) = 0 \/ Cardinality(old) = 1
    BY <2>2
  <2>. QED BY <2>1, <2>3, FS_EmptySet, FS_Singleton
<1>5. (~ mainPC)' = (~ mainPC)
  OBVIOUS
<1>6. CASE j.input.total = NotTyped \/ \E o \in old : o.amount = j.input.total
  <2>1. entries' = entries
    BY <1>6 DEF Retyped
  <2>. QED BY <1>1, <1>5, <2>1 DEF TotalsFollow
<1>7. CASE ~ (j.input.total = NotTyped \/ \E o \in old : o.amount = j.input.total)
  <2>1. PICK e : e = [id |-> Cardinality(entries) + 1, shift |-> j.shift,
                      tender |-> j.input.tender, amount |-> j.input.total, live |-> TRUE]
    OBVIOUS
  <2>2. entries' = (entries \ old) \cup Voided(old) \cup {e}
    BY <1>7, <2>1 DEF Retyped
  <2>3. Cardinality(entries) + 1 \in 1 .. MaxEntries
    BY <1>1, CloseDeskAssumption
  <2>4. e \in TotalRow /\ e.shift = j.shift /\ e.tender = j.input.tender
    BY <1>2, <1>7, <2>1, <2>3 DEF TotalRow
  <2>5. IsFiniteSet(Voided(old)) /\ \A v \in Voided(old) : v \in TotalRow /\ ~ v.live
    <3>1. CASE old = {}
      <4>1. Voided(old) = {}
        BY <3>1 DEF Voided
      <4>. QED BY <4>1, FS_EmptySet
    <3>2. CASE \E o : old = {o}
      <4>1. PICK o : old = {o}
        BY <3>2
      <4>2. o \in TotalRow
        BY <1>3, <4>1
      <4>3. PICK v : v = [o EXCEPT !.live = FALSE]
        OBVIOUS
      <4>4. Voided(old) = {v}
        BY <4>1, <4>3 DEF Voided
      <4>5. v \in TotalRow /\ v.live = FALSE
        BY <4>2, <4>3 DEF TotalRow
      <4>. QED BY <4>4, <4>5, FS_Singleton
    <3>. QED BY <1>4, <3>1, <3>2
  <2>6. IsFiniteSet(entries')
    <3>1. IsFiniteSet(entries \ old)
      BY <1>1, FS_Subset
    <3>2. IsFiniteSet((entries \ old) \cup Voided(old))
      BY <2>5, <3>1, FS_Union
    <3>. QED BY <2>2, <3>2, FS_AddElement
  <2>7. entries' \subseteq TotalRow
    BY <1>1, <2>2, <2>4, <2>5
  <2>8. ~ mainPC => \A c, d \in entries' :
           c.live /\ d.live /\ c.shift = d.shift /\ c.tender = d.tender => c = d
    <3>1. SUFFICES ASSUME ~ mainPC, NEW c \in entries', NEW d \in entries', c.live, d.live,
                          c.shift = d.shift, c.tender = d.tender
                   PROVE  c = d
      OBVIOUS
    <3>2. \A a, b \in entries :
             a.live /\ b.live /\ a.shift = b.shift /\ a.tender = b.tender => a = b
      BY <3>1 DEF TotalsFollow
    <3>3. active = ActiveTotal(j.shift, j.input.tender)
      BY <1>2, <3>1
    <3>4. \A a, b \in active : a = b
      BY <3>2, <3>3 DEF ActiveTotal
    <3>5. old = active
      BY <3>4
    <3>6. \A a \in entries \ old : ~ (a.live /\ a.shift = e.shift /\ a.tender = e.tender)
      BY <2>4, <3>3, <3>5 DEF ActiveTotal
    <3>7. c \in (entries \ old) \cup {e} /\ d \in (entries \ old) \cup {e}
      BY <2>2, <2>5, <3>1
    <3>. QED BY <3>1, <3>2, <3>6, <3>7
  <2>. QED BY <1>5, <2>6, <2>7, <2>8 DEF TotalsFollow
<1>. QED BY <1>6, <1>7

\* What is typed for a shift is written, all of it (CloseDeskService.close).
LEMMA SheetWritten ==
    ASSUME CloseDeskInv, NEW s \in Session, DeskWrite(s)
    PROVE  CloseDeskInv' /\ \A n \in ShiftNo : books[n] # NoBook => books'[n] = books[n]
<1>1. PICK j : j = job[s]
  OBVIOUS
<1>2. /\ j # Idle /\ j.kind = "desk" /\ DeskJob(j) /\ End(s) /\ mainPC' = mainPC
      /\ CloseDeskTypeOK /\ DOMAIN books = ShiftNo /\ ReadingsFollow /\ TotalsFollow
      /\ UNCHANGED <<shifts, dtpSold, cashMoves>> /\ j.shift \in shifts
  BY <1>1 DEF DeskWrite, Runs, End, CloseDeskInv, CloseDeskTables, DeskJob
<1>3. PICK active : active = IF j.input.closing = NotTyped THEN j.active
                             ELSE ActiveTotal(j.shift, j.input.tender)
  OBVIOUS
<1>4. PICK page : page = [advance |-> 1, final |-> 1]
  OBVIOUS
<1>5. /\ Cardinality(readings) < MaxReadings /\ Cardinality(entries) < MaxEntries
      /\ readings' = readings \cup Completed(j)
      /\ \E old \in SUBSET active : /\ Cardinality(old) <= 1 /\ (old = {} => active = {})
                                    /\ entries' = Retyped(j, old)
      /\ j.input.cash => MayRecordBook(j.shift, page)
      /\ books' = IF j.input.cash THEN [books EXCEPT ![j.shift] = page] ELSE books
      /\ openShifts' \subseteq openShifts
  BY <1>1, <1>3, <1>4 DEF DeskWrite
<1>6. /\ ReadingsFollow'
      /\ readings' \subseteq [shift : shifts, opening : 0 .. MaxMeter, closing : 0 .. MaxMeter,
                              typed : BOOLEAN, at : 1 .. MaxReadings]
  BY <1>2, <1>5, ReadingTyped
<1>7. TotalsFollow' /\ entries' \subseteq TotalRow
  <2>1. PICK old \in SUBSET active :
          Cardinality(old) <= 1 /\ (old = {} => active = {}) /\ entries' = Retyped(j, old)
    BY <1>5
  <2>2. active = j.active \/ active = ActiveTotal(j.shift, j.input.tender)
    BY <1>3
  <2>. QED BY <1>2, <1>5, <2>1, <2>2, TotalTyped
<1>8. page \in [advance : 0 .. 1, final : 0 .. 1]
  BY <1>4
<1>9. /\ DOMAIN books' = ShiftNo
      /\ \A n \in ShiftNo : books'[n] = books[n] \/ (n = j.shift /\ books'[n] = page)
  BY <1>2, <1>5 DEF CloseDeskTypeOK
<1>10. ASSUME NEW n \in ShiftNo, books[n] # NoBook PROVE books'[n] = books[n]
  <2>1. CASE j.input.cash /\ n = j.shift
    <3>1. books[n] = page
      BY <1>5, <1>10, <2>1 DEF MayRecordBook
    <3>. QED BY <1>9, <3>1
  <2>2. CASE ~ (j.input.cash /\ n = j.shift)
    BY <1>2, <1>5, <2>2
  <2>. QED BY <2>1, <2>2
<1>11. CloseDeskTypeOK'
  <2>1. \A n \in ShiftNo : books'[n] = NoBook \/ books'[n] \in [advance : 0 .. 1, final : 0 .. 1]
    BY <1>2, <1>8, <1>9 DEF CloseDeskTypeOK
  <2>2. \A n \in ShiftNo : books'[n] = NoBook => cashMoves[n] = [deposit |-> 0, recovery |-> 0]
    BY <1>2, <1>9, <1>10 DEF CloseDeskTypeOK
  <2>3. /\ openShifts' \subseteq shifts /\ shifts \subseteq ShiftNo /\ dtpSold \subseteq shifts
        /\ cashMoves \in [ShiftNo -> [deposit : 0 .. MaxCash, recovery : 0 .. MaxCash]]
    BY <1>2, <1>5 DEF CloseDeskTypeOK
  <2>. QED BY <1>2, <1>6, <1>7, <2>1, <2>2, <2>3 DEF CloseDeskTypeOK, TotalRow
<1>12. CloseDeskTables'
  BY <1>6, <1>7, <1>9, <1>11 DEF CloseDeskTables
<1>. QED BY <1>1, <1>2, <1>10, <1>12, DeskEnd

\* Shifts are made and reopened, the Terminal sells, and the cash book's own
\* screen is used.
LEMMA CloseDeskBeside ==
    ASSUME CloseDeskInv, CreateShift \/ ReopenShift \/ DtpSale \/ RecordMovements \/ MoveCash
    PROVE  CloseDeskInv' /\ \A n \in ShiftNo : books[n] # NoBook => books'[n] = books[n]
<1>1. /\ UNCHANGED <<mainPC, job, readings, entries>> /\ (~ mainPC)' = (~ mainPC)
      /\ mainPC \/ \A s \in Session : job[s] = Idle
  BY DEF CreateShift, ReopenShift, DtpSale, RecordMovements, MoveCash, AtOnce, deskVars
<1>2. CloseDeskTypeOK /\ DOMAIN books = ShiftNo /\ ReadingsFollow /\ TotalsFollow /\ DesksInv
  BY DEF CloseDeskInv, CloseDeskTables
<1>3. DesksInv' /\ ReadingsFollow' /\ TotalsFollow'
  BY <1>1, <1>2, DesksStay DEF deskVars, ReadingsFollow, TotalsFollow, MeterBilledOnce
<1>4. /\ openShifts' \subseteq shifts' /\ shifts' \subseteq ShiftNo /\ dtpSold' \subseteq shifts'
      /\ shifts \subseteq shifts'
  BY <1>2 DEF CreateShift, ReopenShift, DtpSale, RecordMovements, MoveCash, CloseDeskTypeOK
<1>5. /\ DOMAIN books' = ShiftNo
      /\ \A n \in ShiftNo : books[n] # NoBook => books'[n] = books[n]
      /\ \A n \in ShiftNo : books'[n] = NoBook \/ books'[n] \in [advance : 0 .. 1, final : 0 .. 1]
  <2>1. CASE UNCHANGED books
    BY <1>2, <2>1 DEF CloseDeskTypeOK
  <2>2. CASE RecordMovements
    <3>1. PICK n \in shifts, advance \in 0 .. 1, final \in 0 .. 1 :
            /\ books[n] = NoBook
            /\ books' = [books EXCEPT ![n] = [advance |-> advance, final |-> final]]
      BY <2>2 DEF RecordMovements
    <3>. QED BY <1>2, <3>1 DEF CloseDeskTypeOK
  <2>. QED BY <2>1, <2>2 DEF CreateShift, ReopenShift, DtpSale, MoveCash
<1>6. /\ cashMoves' \in [ShiftNo -> [deposit : 0 .. MaxCash, recovery : 0 .. MaxCash]]
      /\ \A n \in ShiftNo : books'[n] = NoBook => cashMoves'[n] = [deposit |-> 0, recovery |-> 0]
  <2>1. CASE UNCHANGED cashMoves
    BY <1>2, <1>5, <2>1 DEF CloseDeskTypeOK
  <2>2. CASE MoveCash
    <3>1. PICK n \in shifts, way \in {"deposit", "recovery"} :
            /\ HasBook(n) /\ cashMoves[n][way] < MaxCash
            /\ cashMoves' = [cashMoves EXCEPT ![n][way] = @ + 1]
      BY <2>2 DEF MoveCash
    <3>2. n \in ShiftNo /\ books[n] # NoBook /\ books' = books
      BY <1>2, <2>2, <3>1 DEF CloseDeskTypeOK, HasBook, MoveCash
    <3>3. /\ cashMoves \in [ShiftNo -> [deposit : 0 .. MaxCash, recovery : 0 .. MaxCash]]
          /\ MaxCash \in Nat
      BY <1>2, CloseDeskAssumption DEF CloseDeskTypeOK
    <3>4. cashMoves' \in [ShiftNo -> [deposit : 0 .. MaxCash, recovery : 0 .. MaxCash]]
      <4>1. cashMoves[n][way] \in 0 .. MaxCash
        BY <3>1, <3>2, <3>3
      <4>2. cashMoves[n][way] + 1 \in 0 .. MaxCash
        BY <3>1, <3>3, <4>1
      <4>3. PICK new : new = [cashMoves[n] EXCEPT ![way] = cashMoves[n][way] + 1]
        OBVIOUS
      <4>4. new \in [deposit : 0 .. MaxCash, recovery : 0 .. MaxCash]
        BY <3>1, <3>2, <3>3, <4>2, <4>3
      <4>5. cashMoves' = [cashMoves EXCEPT ![n] = new]
        BY <3>1, <4>3
      <4>. QED BY <3>2, <3>3, <4>4, <4>5
    <3>5. \A m \in ShiftNo : m # n => cashMoves'[m] = cashMoves[m]
      BY <3>1, <3>3
    <3>. QED BY <1>2, <3>2, <3>4, <3>5 DEF CloseDeskTypeOK
  <2>. QED BY <2>1, <2>2 DEF CreateShift, ReopenShift, DtpSale, RecordMovements
<1>7. CloseDeskTypeOK'
  BY <1>1, <1>2, <1>4, <1>5, <1>6 DEF CloseDeskTypeOK
<1>8. ASSUME NEW s \in Session, NEW j \in {job'[s]}, j # Idle PROVE DeskJob(j)'
  <2>1. mainPC = TRUE /\ DeskJob(j)
    BY <1>1, <1>2, <1>8 DEF CloseDeskInv, DesksInv
  <2>. QED BY <1>1, <1>4, <2>1, DeskJobKept
<1>. QED BY <1>3, <1>5, <1>7, <1>8 DEF CloseDeskInv, CloseDeskTables

\* What the close desk starts with, and that every step keeps.  It is said of
\* whatever can be typed within the bounds.
LEMMA CloseDeskInductive ==
    /\ DesksInit /\ CloseDeskInit => CloseDeskInv
    /\ CloseDeskInv /\ [CloseDeskNext]_<<deskVars, closeDeskVars>> =>
         /\ CloseDeskInv'
         /\ \A n \in ShiftNo : books[n] # NoBook => books'[n] = books[n]
<1>1. ASSUME DesksInit, CloseDeskInit PROVE CloseDeskInv
  <2>1. DesksInv /\ \A s \in Session : job[s] = Idle
    BY <1>1, DesksStart DEF DesksInit
  <2>2. /\ shifts = {} /\ openShifts = {} /\ readings = {} /\ entries = {} /\ dtpSold = {}
        /\ books = [n \in ShiftNo |-> NoBook]
        /\ cashMoves = [n \in ShiftNo |-> [deposit |-> 0, recovery |-> 0]]
    BY <1>1 DEF CloseDeskInit
  <2>3. 0 \in 0 .. MaxCash
    BY CloseDeskAssumption
  <2>4. CloseDeskTypeOK
    BY <2>2, <2>3 DEF CloseDeskTypeOK
  <2>5. ReadingsFollow /\ TotalsFollow
    BY <2>2, FS_EmptySet DEF ReadingsFollow, TotalsFollow, MeterBilledOnce
  <2>. QED BY <2>1, <2>2, <2>4, <2>5 DEF CloseDeskInv, CloseDeskTables
<1>2. ASSUME CloseDeskInv, [CloseDeskNext]_<<deskVars, closeDeskVars>>
      PROVE  /\ CloseDeskInv'
             /\ \A n \in ShiftNo : books[n] # NoBook => books'[n] = books[n]
  <2>1. CASE UNCHANGED <<deskVars, closeDeskVars>>
    <3>1. UNCHANGED <<mainPC, job>> /\ DesksInv' /\ UNCHANGED closeDeskVars
      BY <1>2, <2>1, DesksStay DEF deskVars, CloseDeskInv
    <3>2. CloseDeskInv'
      BY <1>2, <3>1, CloseDeskTablesStay DEF CloseDeskInv
    <3>. QED BY <3>1, <3>2 DEF closeDeskVars
  <2>2. ASSUME NEW s \in Session, GiveUp(s) \/ Preview(s), UNCHANGED closeDeskVars
        PROVE  CloseDeskInv' /\ UNCHANGED books
    <3>1. job[s] # Idle /\ End(s) /\ mainPC' = mainPC
      BY <2>2 DEF GiveUp, Preview, Runs, End
    <3>2. CloseDeskTables' /\ UNCHANGED <<shifts, books>>
      BY <1>2, <2>2, <3>1, CloseDeskTablesStay DEF CloseDeskInv, closeDeskVars
    <3>. QED BY <1>2, <2>2, <3>1, <3>2, DeskEnd
  <2>3. CASE CreateShift \/ ReopenShift \/ DtpSale \/ RecordMovements \/ MoveCash
    BY <1>2, <2>3, CloseDeskBeside
  <2>4. ASSUME NEW s \in Session,
               DeskRead(s, Typed(0 .. MaxMeter, 0 .. MaxMeter, 1 .. 2, BOOLEAN, BOOLEAN))
        PROVE  CloseDeskInv' /\ UNCHANGED books
    <3>1. UNCHANGED books
      BY <2>4 DEF DeskRead, closeDeskVars
    <3>. QED BY <1>2, <2>4, <3>1, SheetRead
  <2>5. ASSUME NEW s \in Session, Preview(s) PROVE UNCHANGED closeDeskVars
    BY <2>5 DEF Preview
  <2>6. ASSUME NEW s \in Session, DeskWrite(s)
        PROVE  CloseDeskInv' /\ \A n \in ShiftNo : books[n] # NoBook => books'[n] = books[n]
    BY <1>2, <2>6, SheetWritten
  <2>. QED BY <1>2, <2>1, <2>2, <2>3, <2>4, <2>5, <2>6
           DEF CloseDeskNext, TypingNext, CashBookNext
<1>. QED BY <1>1, <1>2

\* A shift opens with the cash the last one before it closed with
\* (_opening_balance, get_cash_book_summary).
LEMMA CashIsCarried ==
    ASSUME CloseDeskTypeOK, NEW n \in shifts, NEW m \in Earlier(n),
           \A k \in Earlier(n) : k <= m, books[m] # NoBook
    PROVE  OpeningBalance(n) = ClosingCash(m)
<1>1. shifts \subseteq ShiftNo /\ \A k \in shifts : k \in Int
  BY DEF CloseDeskTypeOK, ShiftNo
<1>2. m \in shifts /\ m < n /\ m \notin Earlier(m)
  BY <1>1 DEF Earlier
<1>3. Earlier(n) = Earlier(m) \cup {m}
  BY <1>1, <1>2 DEF Earlier
<1>4. RunBefore(n) = RunBefore(m) \cup {m} /\ m \notin RunBefore(m)
  <2>1. \A k \in Earlier(m) : k < m /\ k \in Int /\ m \in Int
    BY <1>1, <1>2 DEF Earlier
  <2>2. m \in RunBefore(n)
    <3>1. \A k \in Earlier(n) : k >= m => k = m
      BY <1>2, <1>3, <2>1
    <3>. QED BY <1>3, <3>1 DEF RunBefore
  <2>3. \A x \in Earlier(m) : x \in RunBefore(n) <=> x \in RunBefore(m)
    BY <1>3, <2>1 DEF RunBefore
  <2>4. RunBefore(n) \subseteq Earlier(n) /\ RunBefore(m) \subseteq Earlier(m)
    BY DEF RunBefore
  <2>. QED BY <1>2, <1>3, <2>2, <2>3, <2>4
<1>5. IsFiniteSet(RunBefore(n)) /\ IsFiniteSet(RunBefore(m))
  <2>1. MaxShift \in Int
    BY CloseDeskAssumption
  <2>2. IsFiniteSet(ShiftNo)
    BY <2>1, FS_Interval DEF ShiftNo
  <2>3. RunBefore(n) \subseteq ShiftNo /\ RunBefore(m) \subseteq ShiftNo
    BY <1>1 DEF RunBefore, Earlier
  <2>. QED BY <2>2, <2>3, FS_Subset
<1>6. \A x \in RunBefore(n) :
         /\ books[x].advance \in Int /\ books[x].final \in Int
         /\ cashMoves[x].recovery \in Int /\ cashMoves[x].deposit \in Int
  <2>1. SUFFICES ASSUME NEW x \in RunBefore(n)
                 PROVE  /\ books[x].advance \in Int /\ books[x].final \in Int
                        /\ cashMoves[x].recovery \in Int /\ cashMoves[x].deposit \in Int
    OBVIOUS
  <2>2. x \in ShiftNo /\ books[x] # NoBook
    BY <1>1 DEF RunBefore, Earlier
  <2>3. books[x] \in [advance : 0 .. 1, final : 0 .. 1]
    BY <2>2 DEF CloseDeskTypeOK
  <2>4. cashMoves[x] \in [deposit : 0 .. MaxCash, recovery : 0 .. MaxCash]
    BY <2>2 DEF CloseDeskTypeOK
  <2>. QED BY <2>3, <2>4
<1>7. \A x \in RunBefore(n) : Carried(x) \in Int
  BY <1>6 DEF Carried
<1>. DEFINE all == [x \in RunBefore(n) |-> Carried(x)]
            before == [x \in RunBefore(m) |-> Carried(x)]
<1>8. /\ \A x \in RunBefore(n) : all[x] = Carried(x) /\ all[x] \in Int
      /\ \A x \in RunBefore(m) : before[x] = all[x] /\ before[x] \in Int
      /\ all[m] = Carried(m)
  BY <1>4, <1>7
<1>9. /\ OpeningBalance(n) = SumFunctionOnSet(all, RunBefore(n))
      /\ OpeningBalance(m) = SumFunctionOnSet(before, RunBefore(m))
  BY DEF OpeningBalance, SumFunction
<1>. HIDE DEF all, before
<1>10. SumFunctionOnSet(before, RunBefore(m)) = SumFunctionOnSet(all, RunBefore(m))
  BY <1>5, <1>8, SumAgrees
<1>11. SumFunctionOnSet(all, RunBefore(m) \cup {m}) = SumFunctionOnSet(all, RunBefore(m)) + all[m]
  BY <1>4, <1>5, <1>8, SumGrows
<1>12. OpeningBalance(m) \in Int
  BY <1>5, <1>8, <1>9, SumIsInt
<1>13. OpeningBalance(n) = OpeningBalance(m) + Carried(m)
  BY <1>4, <1>8, <1>9, <1>10, <1>11
<1>14. m \in RunBefore(n)
  BY <1>4
<1>. QED BY <1>6, <1>12, <1>13, <1>14 DEF ClosingCash, Carried

\* No litre of the nozzle, no total and no cash is counted twice, for any
\* number of shifts, readings, totals and requests.
THEOREM NothingIsCountedTwice == CloseDeskSpec => NothingCountedTwice
<1>1. CloseDeskInv => MeterBilledOnce /\ OneActiveTotal /\ OpeningIsClosing
  <2>1. SUFFICES ASSUME CloseDeskInv PROVE MeterBilledOnce /\ OneActiveTotal /\ OpeningIsClosing
    OBVIOUS
  <2>2. CloseDeskTypeOK /\ MeterBilledOnce /\ TotalsFollow
    BY <2>1 DEF CloseDeskInv, CloseDeskTables, ReadingsFollow
  <2>3. OneActiveTotal
    <3>1. SUFFICES ASSUME ~ mainPC, NEW n \in shifts, NEW t \in TypedTender
                   PROVE  Cardinality(ActiveTotal(n, t)) <= 1
      BY DEF OneActiveTotal
    <3>2. \A d, e \in ActiveTotal(n, t) : d = e
      BY <2>2, <3>1 DEF TotalsFollow, ActiveTotal
    <3>3. CASE ActiveTotal(n, t) = {}
      <4>1. Cardinality(ActiveTotal(n, t)) = 0
        BY <3>3, FS_EmptySet
      <4>. QED BY <4>1
    <3>4. CASE ActiveTotal(n, t) # {}
      <4>1. PICK d : ActiveTotal(n, t) = {d}
        BY <3>2, <3>4
      <4>2. Cardinality(ActiveTotal(n, t)) = 1
        BY <4>1, FS_Singleton
      <4>. QED BY <4>2
    <3>. QED BY <3>3, <3>4
  <2>4. OpeningIsClosing
    BY <2>2, CashIsCarried DEF OpeningIsClosing
  <2>. QED BY <2>2, <2>3, <2>4
<1>2. CloseDeskInv /\ [CloseDeskNext]_<<deskVars, closeDeskVars>> =>
         [\A n \in ShiftNo : books[n] # NoBook => books'[n] = books[n]]_<<deskVars, closeDeskVars>>
  BY CloseDeskInductive
<1>. QED BY <1>1, <1>2, CloseDeskInductive, PTL
         DEF CloseDeskSpec, NothingCountedTwice, BookWrittenOnce

-----------------------------------------------------------------------------
(***************************************************************************)
(* Credit: the limit, the first sale, the ledger and the follow-ups.       *)
(***************************************************************************)

\* What a request that has read goes on with (credit_control_service.py,
\* counter_customer_service.py).  In one window nothing has moved since.
CreditJob(j) ==
    /\ j.kind = "open account" =>
         DOMAIN j = {"kind", "key", "limit", "made"} /\ j.limit \in 1 .. MaxAmount
    /\ j.kind = "counter" =>
         j.found \in BOOLEAN /\ (~ mainPC => j.found = (rows > 0))
    /\ j.kind = "sale" =>
         /\ DOMAIN j = {"kind", "key", "amount", "how", "ensured"}
         /\ j.amount \in 1 .. MaxAmount /\ j.how \in {"plain", "first", "allowed"}
         /\ ~ mainPC /\ j.how = "plain" => ~ OverLimit(j.amount)
         /\ ~ mainPC /\ j.how = "first" => Live = {}
    /\ j.kind = "close follow-up" =>
         /\ j.outcome \in Outcomes
         /\ ~ mainPC => \A f \in followUps : f.id = j.id => f.status = "open"

\* Bills and follow-ups are known by their numbers, and numbers follow.
BillsAreNumbered ==
    /\ IsFiniteSet(bills)
    /\ \A a, b \in bills : a.no = b.no => a = b
    /\ \A b \in bills : b.no <= Cardinality(bills)

FollowUpsAreNumbered ==
    /\ IsFiniteSet(followUps)
    /\ \A f, g \in followUps : f.id = g.id => f = g
    /\ \A f \in followUps : f.id <= Cardinality(followUps)

\* In one window all first bills that stand are one.
OneFirstBill ==
    ~ mainPC => \A a, b \in Live : a.how = "first" /\ b.how = "first" => a = b

CreditTables ==
    CreditTypeOK /\ BillsAreNumbered /\ FollowUpsAreNumbered /\ OneFirstBill /\ PersonMadeOnce

CreditInv ==
    /\ DesksInv /\ CreditTables
    /\ \A s \in Session : \A j \in {job[s]} : j # Idle => CreditJob(j)

\* What the rows are, and what the sums of the ledger come to.
LEMMA CreditTypes ==
    ASSUME CreditTables
    PROVE  /\ Balance \in Int /\ limit \in Int /\ limit <= MaxAmount /\ MaxAmount \in Nat \ {0}
           /\ today \in Nat /\ 1 <= today /\ today <= LastDay /\ LastDay \in Nat
           /\ PaidUpTo(LastDay) \in Nat /\ \A d \in Day : collections[d] <= PaidUpTo(LastDay)
           /\ IsFiniteSet(bills) /\ IsFiniteSet(followUps)
           /\ Cardinality(bills) \in Nat /\ Cardinality(followUps) \in Nat
           /\ \A b \in bills : b \in BillRow /\ b.no \in Nat /\ b.amount \in Nat
           /\ \A f \in followUps : f.id \in Nat
<1>1. /\ limit \in Int /\ limit <= MaxAmount /\ MaxAmount \in Nat \ {0}
      /\ today \in Nat /\ 1 <= today /\ today <= LastDay /\ LastDay \in Nat
  BY CreditAssumption DEF CreditTables, CreditTypeOK, NoAccount, Day
<1>2. \A b \in bills : b \in BillRow /\ b.no \in Nat /\ b.amount \in Nat
  BY CreditAssumption DEF CreditTables, CreditTypeOK, BillRow
<1>3. \A f \in followUps : f.id \in Nat
  BY CreditAssumption DEF CreditTables, CreditTypeOK
<1>4. IsFiniteSet(bills) /\ IsFiniteSet(followUps)
  BY DEF CreditTables, BillsAreNumbered, FollowUpsAreNumbered
<1>5. Cardinality(bills) \in Nat /\ Cardinality(followUps) \in Nat
  BY <1>4, FS_CardinalityType
<1>6. IsFiniteSet(Day) /\ Day = 1 .. LastDay
  BY <1>1, FS_Interval DEF Day
<1>7. \A d \in Day : collections[d] \in Nat
  BY CreditAssumption DEF CreditTables, CreditTypeOK
<1>8. PaidUpTo(LastDay) \in Nat /\ \A d \in Day : collections[d] <= PaidUpTo(LastDay)
  BY <1>6, <1>7, SumIsNat DEF PaidUpTo
<1>9. Billed(Live) \in Int
  <2>1. IsFiniteSet(Live)
    BY <1>4, FS_Subset DEF Live
  <2>. DEFINE f == [b \in Live |-> b.amount]
  <2>2. DOMAIN f = Live /\ \A b \in Live : f[b] \in Int
    BY <1>2 DEF Live
  <2>3. Billed(Live) = SumFunctionOnSet(f, Live)
    BY <2>2 DEF Billed, SumFunction
  <2>. HIDE DEF f
  <2>4. SumFunctionOnSet(f, Live) \in Int
    BY <2>1, <2>2, SumIsInt
  <2>. QED BY <2>3, <2>4
<1>. QED BY <1>1, <1>2, <1>3, <1>4, <1>5, <1>8, <1>9 DEF Balance

\* Rows a request leaves alone keep all that is said of them, and what the
\* requests that have read rely on.
LEMMA CreditTablesStay ==
    ASSUME CreditTables, UNCHANGED creditVars, mainPC' = mainPC
    PROVE  CreditTables' /\ \A j : CreditJob(j) => CreditJob(j)'
<1>1. /\ UNCHANGED <<rules, today, limit, approval, rows, bills, collections, followUps>>
      /\ (~ mainPC)' = (~ mainPC)
  BY DEF creditVars
<1>2. /\ CreditTypeOK' /\ BillsAreNumbered' /\ FollowUpsAreNumbered' /\ PersonMadeOnce'
      /\ Live' = Live
  BY <1>1 DEF CreditTables, CreditTypeOK, BillsAreNumbered, FollowUpsAreNumbered,
             PersonMadeOnce, Live
<1>3. CreditTables'
  BY <1>1, <1>2 DEF CreditTables, OneFirstBill
<1>4. Balance' = Balance
  BY <1>1 DEF Balance, Billed, Live, PaidUpTo
<1>6. ASSUME NEW j, CreditJob(j) PROVE CreditJob(j)'
  BY <1>1, <1>2, <1>4, <1>6 DEF CreditJob, OverLimit
<1>. QED BY <1>3, <1>6

\* On the Main PC a request relies on nothing that another may have changed.
LEMMA CreditJobKept ==
    ASSUME mainPC = TRUE, mainPC' = mainPC, NEW j, CreditJob(j)
    PROVE  CreditJob(j)'
<1>1. (~ mainPC)' = FALSE /\ (~ mainPC) = FALSE
  OBVIOUS
<1>. QED BY <1>1 DEF CreditJob, OverLimit

\* A request that reads relies on what it has just read.
LEMMA CreditRead ==
    ASSUME CreditInv, NEW s \in Session, NEW j, Begin(s, j), CreditJob(j), UNCHANGED creditVars
    PROVE  CreditInv'
<1>1. /\ DesksInv' /\ mainPC' = mainPC /\ job'[s] = j
      /\ \A t \in Session : t # s => job'[t] = job[t]
  BY BeginJob DEF CreditInv
<1>2. CreditTables' /\ \A i : CreditJob(i) => CreditJob(i)'
  BY <1>1, CreditTablesStay DEF CreditInv
<1>. QED BY <1>1, <1>2 DEF CreditInv

\* A request that writes and ends leaves the others, which run on the Main PC
\* only, what they rely on.
LEMMA CreditEnd ==
    ASSUME CreditInv, NEW s \in Session, job[s] # Idle, End(s), CreditTables'
    PROVE  CreditInv'
<1>1. /\ DesksInv' /\ job'[s] = Idle /\ mainPC' = mainPC
      /\ \A t \in Session : t # s => job'[t] = job[t]
  BY EndJob DEF CreditInv
<1>2. ASSUME NEW t \in Session, NEW j \in {job'[t]}, j # Idle PROVE CreditJob(j)'
  <2>1. t # s /\ job[t] = j /\ mainPC = TRUE
    BY <1>1, <1>2 DEF CreditInv, DesksInv
  <2>2. CreditJob(j)
    BY <1>2, <2>1 DEF CreditInv
  <2>. QED BY <1>1, <2>1, <2>2, CreditJobKept
<1>. QED BY <1>1, <1>2 DEF CreditInv

\* A request that writes and goes on does the same.
LEMMA CreditGoesOn ==
    ASSUME CreditInv, NEW s \in Session, job[s] # Idle, NEW k, job' = [job EXCEPT ![s] = k],
           k.key = job[s].key, mainPC' = mainPC, CreditTables', CreditJob(k)'
    PROVE  CreditInv'
<1>1. /\ DOMAIN job' = Session /\ job'[s] = k
      /\ \A t \in Session : t # s => job'[t] = job[t]
  BY DEF CreditInv, DesksInv
<1>2. DesksInv'
  BY <1>1 DEF CreditInv, DesksInv
<1>3. ASSUME NEW t \in Session, NEW j \in {job'[t]}, j # Idle PROVE CreditJob(j)'
  <2>1. CASE t = s
    BY <1>1, <2>1
  <2>2. CASE t # s
    <3>1. job[t] = j /\ mainPC = TRUE
      BY <1>1, <1>3, <2>2 DEF CreditInv, DesksInv
    <3>2. CreditJob(j)
      BY <1>3, <3>1 DEF CreditInv
    <3>. QED BY <3>1, <3>2, CreditJobKept
  <2>. QED BY <2>1, <2>2
<1>. QED BY <1>2, <1>3 DEF CreditInv

\* So does one that is a single step; in one window it runs alone.
LEMMA CreditBeside ==
    ASSUME CreditInv, AtOnce, CreditTables'
    PROVE  CreditInv'
<1>1. UNCHANGED <<mainPC, job>> /\ DesksInv'
  BY DesksStay DEF AtOnce, deskVars, CreditInv
<1>2. ASSUME NEW t \in Session, NEW j \in {job'[t]}, j # Idle PROVE CreditJob(j)'
  <2>1. job[t] = j /\ mainPC = TRUE
    BY <1>1, <1>2 DEF AtOnce, CreditInv, DesksInv
  <2>2. CreditJob(j)
    BY <1>2, <2>1 DEF CreditInv
  <2>. QED BY <1>1, <2>1, <2>2, CreditJobKept
<1>. QED BY <1>1, <1>2 DEF CreditInv

\* A row that takes another's place leaves as many.
LEMMA OneReplaced ==
    ASSUME NEW S, IsFiniteSet(S), NEW a \in S, NEW v, v \notin S \ {a}
    PROVE  IsFiniteSet((S \ {a}) \cup {v}) /\ Cardinality((S \ {a}) \cup {v}) = Cardinality(S)
<1>1. PICK R : R = S \ {a}
  OBVIOUS
<1>2. IsFiniteSet(R) /\ Cardinality(R) = Cardinality(S) - 1
  BY <1>1, FS_RemoveElement
<1>3. IsFiniteSet(R \cup {v}) /\ Cardinality(R \cup {v}) = Cardinality(R) + 1
  BY <1>1, <1>2, FS_AddElement
<1>4. Cardinality(S) \in Nat
  BY FS_CardinalityType
<1>. QED BY <1>1, <1>2, <1>3, <1>4

\* A limit, a decision, a payment and a day leave bills, persons and
\* follow-ups as they are.
LEMMA NoBillsTouched ==
    ASSUME CreditTables, SetCreditLimit \/ DecideCustomer \/ RecordPayment \/ NextDay
    PROVE  CreditTables' /\ mainPC' = mainPC /\ bills' = bills /\ followUps' = followUps
<1>1. /\ UNCHANGED <<mainPC, rules, rows, bills, followUps>>
      /\ (~ mainPC)' = (~ mainPC)
  BY DEF SetCreditLimit, DecideCustomer, RecordPayment, NextDay, AtOnce, deskVars
<1>2. /\ BillsAreNumbered' /\ FollowUpsAreNumbered' /\ PersonMadeOnce' /\ OneFirstBill'
  BY <1>1 DEF CreditTables, BillsAreNumbered, FollowUpsAreNumbered, PersonMadeOnce,
             OneFirstBill, Live
<1>3. /\ CreditTypeOK /\ MaxAmount \in Nat \ {0} /\ LastDay \in Nat \ {0} /\ MaxPaid \in Nat
  BY CreditAssumption DEF CreditTables
<1>4. /\ rows' \in 0 .. Cardinality(Session) /\ bills' \subseteq BillRow
      /\ followUps' \subseteq [id : 1 .. MaxFollowUps, promise : 0 .. LastDay,
                               status : {"open"} \cup Outcomes]
  BY <1>1, <1>3 DEF CreditTypeOK
<1>5. CASE SetCreditLimit
  <2>1. limit' \in 1 .. MaxAmount /\ UNCHANGED <<today, approval, collections>>
    BY <1>5 DEF SetCreditLimit
  <2>2. limit' # 0 /\ limit' \in 0 .. MaxAmount
    BY <1>3, <2>1
  <2>3. CreditTypeOK'
    BY <1>3, <1>4, <2>1, <2>2 DEF CreditTypeOK
  <2>. QED BY <1>1, <1>2, <2>3 DEF CreditTables
<1>6. CASE DecideCustomer
  <2>1. PICK yes \in BOOLEAN : approval' = Decided(yes)
    BY <1>6 DEF DecideCustomer
  <2>2. UNCHANGED <<today, limit, collections>>
    BY <1>6 DEF DecideCustomer
  <2>3. /\ approval' \in [status : {"none", "pending", "approved", "rejected"}, counter : BOOLEAN]
        /\ approval'.counter = approval.counter
    BY <1>3, <2>1 DEF Decided, CreditTypeOK
  <2>4. CreditTypeOK'
    BY <1>3, <1>4, <2>2, <2>3 DEF CreditTypeOK
  <2>. QED BY <1>1, <1>2, <2>4 DEF CreditTables
<1>7. CASE RecordPayment
  <2>1. PICK n \in 1 .. MaxPaid - PaidUpTo(LastDay) :
          collections' = [collections EXCEPT ![today] = @ + n]
    BY <1>7 DEF RecordPayment
  <2>2. UNCHANGED <<today, limit, approval>>
    BY <1>7 DEF RecordPayment
  <2>3. today \in Day /\ collections \in [Day -> 0 .. MaxPaid] /\ collections[today] \in Nat
    BY <1>3 DEF CreditTypeOK
  <2>4. PaidUpTo(LastDay) \in Nat /\ collections[today] <= PaidUpTo(LastDay)
    BY <2>3, CreditTypes
  <2>5. n \in Nat /\ collections[today] + n <= MaxPaid
    BY <1>3, <2>1, <2>3, <2>4
  <2>6. collections[today] + n \in 0 .. MaxPaid
    BY <1>3, <2>3, <2>5
  <2>7. collections' \in [Day -> 0 .. MaxPaid]
    BY <2>1, <2>3, <2>6
  <2>8. CreditTypeOK'
    BY <1>3, <1>4, <2>2, <2>7 DEF CreditTypeOK
  <2>. QED BY <1>1, <1>2, <2>8 DEF CreditTables
<1>8. CASE NextDay
  <2>1. today < LastDay /\ today' = today + 1 /\ UNCHANGED <<limit, approval, collections>>
    BY <1>8 DEF NextDay
  <2>2. today' \in Day
    BY <1>3, <2>1 DEF CreditTypeOK, Day
  <2>3. CreditTypeOK'
    BY <1>3, <1>4, <2>1, <2>2 DEF CreditTypeOK
  <2>. QED BY <1>1, <1>2, <2>3 DEF CreditTables
<1>. QED BY <1>5, <1>6, <1>7, <1>8

\* One more bill has a number of its own.
LEMMA BillAdded ==
    ASSUME CreditTables, Cardinality(bills) < MaxBills, NEW d \in Day, NEW n \in 1 .. MaxAmount,
           NEW h \in {"plain", "first", "allowed", "bowser"}, bills' = bills \cup {Bill(d, n, h)}
    PROVE  /\ bills' \subseteq BillRow /\ BillsAreNumbered' /\ Live' = Live \cup {Bill(d, n, h)}
           /\ Bill(d, n, h).no \notin {o.no : o \in bills}
           /\ Bill(d, n, h).how = h /\ Bill(d, n, h).amount = n /\ Bill(d, n, h).live
<1>1. PICK b : b = Bill(d, n, h)
  OBVIOUS
<1>2. /\ b.no = Cardinality(bills) + 1 /\ b.day = d /\ b.amount = n /\ b.how = h /\ b.live = TRUE
  BY <1>1 DEF Bill
<1>3. Cardinality(bills) \in Nat /\ IsFiniteSet(bills) /\ MaxBills \in Nat
  BY CreditTypes, CreditAssumption
<1>4. Cardinality(bills) + 1 \in 1 .. MaxBills
  BY <1>3
<1>5. Bill(d, n, h) \in BillRow
  BY <1>4 DEF Bill, BillRow
<1>6. \A o \in bills : o.no \in Nat /\ o.no <= Cardinality(bills)
  BY CreditTypes DEF CreditTables, BillsAreNumbered
<1>7. \A o \in bills : o.no # b.no
  BY <1>2, <1>3, <1>6
<1>8. b \notin bills
  BY <1>7
<1>9. IsFiniteSet(bills') /\ Cardinality(bills') = Cardinality(bills) + 1
  <2>1. IsFiniteSet(bills \cup {b}) /\ Cardinality(bills \cup {b}) = Cardinality(bills) + 1
    BY <1>3, <1>8, FS_AddElement
  <2>. QED BY <1>1, <2>1
<1>10. \A o \in bills' : o.no <= Cardinality(bills')
  BY <1>1, <1>2, <1>3, <1>6, <1>9
<1>11. \A o, p \in bills' : o.no = p.no => o = p
  BY <1>1, <1>7 DEF CreditTables, BillsAreNumbered
<1>12. Live' = Live \cup {b}
  BY <1>1, <1>2 DEF Live
<1>13. bills' \subseteq BillRow
  BY <1>5 DEF CreditTables, CreditTypeOK
<1>. QED BY <1>1, <1>2, <1>7, <1>9, <1>10, <1>11, <1>12, <1>13 DEF BillsAreNumbered

\* A bill is taken back; it was counted, and is no longer.
LEMMA BillTakenBack ==
    ASSUME CreditTables, NEW b \in Live, bills' = (bills \ {b}) \cup {[b EXCEPT !.live = FALSE]}
    PROVE  /\ bills' \subseteq BillRow /\ BillsAreNumbered' /\ Live' = Live \ {b}
           /\ \A c \in bills' \ bills : ~ c.live
<1>1. PICK v : v = [b EXCEPT !.live = FALSE]
  OBVIOUS
<1>2. b \in bills /\ b.live /\ b \in BillRow
  BY DEF Live, CreditTables, CreditTypeOK
<1>3. v \in BillRow /\ v.no = b.no /\ v.live = FALSE
  BY <1>1, <1>2 DEF BillRow
<1>4. v \notin bills \ {b}
  BY <1>2, <1>3 DEF CreditTables, BillsAreNumbered
<1>5. IsFiniteSet(bills') /\ Cardinality(bills') = Cardinality(bills)
  <2>1. IsFiniteSet((bills \ {b}) \cup {v}) /\ Cardinality((bills \ {b}) \cup {v}) = Cardinality(bills)
    BY <1>2, <1>4, OneReplaced DEF CreditTables, BillsAreNumbered
  <2>. QED BY <1>1, <2>1
<1>6. \A o \in bills' : \E p \in bills : o.no = p.no /\ (o = v => p = b) /\ (o # v => p = o /\ o # b)
  BY <1>1, <1>2, <1>3
<1>7. \A o, p \in bills' : o.no = p.no => o = p
  BY <1>6 DEF CreditTables, BillsAreNumbered
<1>8. \A o \in bills' : o.no <= Cardinality(bills')
  BY <1>5, <1>6 DEF CreditTables, BillsAreNumbered
<1>9. bills' \subseteq BillRow
  BY <1>1, <1>3 DEF CreditTables, CreditTypeOK
<1>10. Live' = Live \ {b}
  BY <1>1, <1>3 DEF Live
<1>. QED BY <1>1, <1>3, <1>5, <1>7, <1>8, <1>9, <1>10 DEF BillsAreNumbered

\* What a step may do to the limit and to a follow-up that is closed.
WithinLimit ==
    \A b \in bills' \ bills :
        b.live /\ b.no \notin {o.no : o \in bills} /\ b.how = "plain" => Balance + b.amount <= limit

OutcomesStand == \A f \in followUps \ OpenFollowUps : f \in followUps'

\* The bowser's bills and those taken back.
LEMMA BillsBeside ==
    ASSUME CreditTables, BowserBill \/ CancelBill
    PROVE  CreditTables' /\ WithinLimit /\ followUps' = followUps
<1>1. /\ UNCHANGED <<mainPC, rules, today, limit, approval, rows, collections, followUps>>
      /\ (~ mainPC)' = (~ mainPC)
  BY DEF BowserBill, CancelBill, AtOnce, deskVars
<1>2. FollowUpsAreNumbered' /\ PersonMadeOnce'
  BY <1>1 DEF CreditTables, FollowUpsAreNumbered, PersonMadeOnce
<1>3. bills' \subseteq BillRow => CreditTypeOK'
  BY <1>1 DEF CreditTables, CreditTypeOK
<1>4. CASE BowserBill
  <2>1. PICK d \in 1 .. today, n \in 1 .. MaxAmount : bills' = bills \cup {Bill(d, n, "bowser")}
    BY <1>4 DEF BowserBill
  <2>2. d \in Day
    BY <2>1, CreditTypes DEF Day
  <2>3. PICK b : b = Bill(d, n, "bowser")
    OBVIOUS
  <2>4. /\ bills' \subseteq BillRow /\ BillsAreNumbered' /\ Live' = Live \cup {b}
        /\ bills' = bills \cup {b} /\ b.how = "bowser"
    <3>1. Cardinality(bills) < MaxBills
      BY <1>4 DEF BowserBill
    <3>. QED BY <2>1, <2>2, <2>3, <3>1, BillAdded
  <2>5. OneFirstBill'
    BY <1>1, <2>4 DEF CreditTables, OneFirstBill
  <2>6. WithinLimit
    BY <2>4 DEF WithinLimit
  <2>. QED BY <1>1, <1>2, <1>3, <2>4, <2>5, <2>6 DEF CreditTables
<1>5. CASE CancelBill
  <2>1. PICK b \in Live : bills' = (bills \ {b}) \cup {[b EXCEPT !.live = FALSE]}
    BY <1>5 DEF CancelBill
  <2>2. /\ bills' \subseteq BillRow /\ BillsAreNumbered' /\ Live' = Live \ {b}
        /\ \A c \in bills' \ bills : ~ c.live
    BY <2>1, BillTakenBack
  <2>3. OneFirstBill'
    BY <1>1, <2>2 DEF CreditTables, OneFirstBill
  <2>4. WithinLimit
    BY <2>2 DEF WithinLimit
  <2>. QED BY <1>1, <1>2, <1>3, <2>2, <2>3, <2>4 DEF CreditTables
<1>. QED BY <1>4, <1>5

\* A sale on credit is billed (create_credit_aware_sale): in one window what
\* the check found is still so.
LEMMA SaleBilled ==
    ASSUME CreditInv, NEW s \in Session, RecordSale(s)
    PROVE  /\ CreditTables' /\ followUps' = followUps
           /\ ~ mainPC => WithinLimit
<1>1. PICK j : j = job[s]
  OBVIOUS
<1>2. /\ j # Idle /\ j.kind = "sale" /\ CreditJob(j) /\ CreditTables
      /\ UNCHANGED <<mainPC, rules, today, limit, approval, rows, collections, followUps>>
      /\ (~ mainPC)' = (~ mainPC)
      /\ Cardinality(bills) < MaxBills /\ bills' = bills \cup {Bill(today, j.amount, j.how)}
  BY <1>1 DEF RecordSale, Runs, CreditInv, End
<1>3. j.amount \in 1 .. MaxAmount /\ j.how \in {"plain", "first", "allowed"}
  BY <1>2 DEF CreditJob
<1>4. PICK b : b = Bill(today, j.amount, j.how)
  OBVIOUS
<1>5. today \in Day
  BY <1>2 DEF CreditTables, CreditTypeOK
<1>6. /\ bills' \subseteq BillRow /\ BillsAreNumbered' /\ Live' = Live \cup {b}
      /\ bills' = bills \cup {b} /\ b.how = j.how /\ b.amount = j.amount
  BY <1>2, <1>3, <1>4, <1>5, BillAdded
<1>7. FollowUpsAreNumbered' /\ PersonMadeOnce' /\ CreditTypeOK'
  BY <1>2, <1>6 DEF CreditTables, FollowUpsAreNumbered, PersonMadeOnce, CreditTypeOK
<1>8. ~ mainPC /\ j.how = "first" => Live = {}
  BY <1>2 DEF CreditJob
<1>9. OneFirstBill'
  BY <1>2, <1>6, <1>8 DEF CreditTables, OneFirstBill
<1>10. ~ mainPC => WithinLimit
  <2>1. ASSUME ~ mainPC, j.how = "plain" PROVE Balance + j.amount <= limit
    <3>1. ~ OverLimit(j.amount)
      BY <1>2, <2>1 DEF CreditJob
    <3>2. Balance \in Int /\ limit \in Int /\ j.amount \in Int
      BY <1>2, <1>3, CreditTypes
    <3>. QED BY <3>1, <3>2 DEF OverLimit
  <2>. QED BY <1>6, <2>1 DEF WithinLimit
<1>. QED BY <1>2, <1>6, <1>7, <1>9, <1>10 DEF CreditTables

\* A follow-up is added (add_follow_up).
LEMMA FollowUpAdded ==
    ASSUME CreditTables, AddFollowUp
    PROVE  CreditTables' /\ bills' = bills /\ followUps \subseteq followUps'
<1>1. /\ UNCHANGED <<mainPC, rules, today, limit, approval, rows, bills, collections>>
      /\ (~ mainPC)' = (~ mainPC) /\ Cardinality(followUps) < MaxFollowUps
  BY DEF AddFollowUp, AtOnce, deskVars
<1>2. PICK d \in Day \cup {NoPromise} :
        followUps' = followUps \cup
          {[id |-> Cardinality(followUps) + 1, promise |-> d, status |-> "open"]}
  BY DEF AddFollowUp
<1>3. PICK f : f = [id |-> Cardinality(followUps) + 1, promise |-> d, status |-> "open"]
  OBVIOUS
<1>4. Cardinality(followUps) \in Nat /\ IsFiniteSet(followUps) /\ MaxFollowUps \in Nat
  BY CreditTypes, CreditAssumption
<1>5. Cardinality(followUps) + 1 \in 1 .. MaxFollowUps /\ d \in 0 .. LastDay
  BY <1>1, <1>2, <1>4, CreditAssumption DEF Day, NoPromise
<1>6. f \in [id : 1 .. MaxFollowUps, promise : 0 .. LastDay, status : {"open"} \cup Outcomes]
  BY <1>3, <1>5
<1>7. CreditTypeOK'
  BY <1>1, <1>2, <1>3, <1>6 DEF CreditTables, CreditTypeOK
<1>8. \A g \in followUps : g.id \in Nat /\ g.id <= Cardinality(followUps)
  BY CreditTypes DEF CreditTables, FollowUpsAreNumbered
<1>9. f.id = Cardinality(followUps) + 1 /\ \A g \in followUps : g.id # f.id
  BY <1>3, <1>4, <1>8
<1>10. IsFiniteSet(followUps') /\ Cardinality(followUps') = Cardinality(followUps) + 1
  <2>1. f \notin followUps
    BY <1>9
  <2>2. /\ IsFiniteSet(followUps \cup {f})
        /\ Cardinality(followUps \cup {f}) = Cardinality(followUps) + 1
    BY <1>4, <2>1, FS_AddElement
  <2>. QED BY <1>2, <1>3, <2>2
<1>11. FollowUpsAreNumbered'
  <2>1. \A g \in followUps' : g.id <= Cardinality(followUps')
    BY <1>2, <1>3, <1>4, <1>8, <1>9, <1>10
  <2>2. \A g, h \in followUps' : g.id = h.id => g = h
    BY <1>2, <1>3, <1>9 DEF CreditTables, FollowUpsAreNumbered
  <2>. QED BY <1>10, <2>1, <2>2 DEF FollowUpsAreNumbered
<1>12. BillsAreNumbered' /\ PersonMadeOnce' /\ OneFirstBill'
  BY <1>1 DEF CreditTables, BillsAreNumbered, PersonMadeOnce, OneFirstBill, Live
<1>. QED BY <1>1, <1>2, <1>7, <1>11, <1>12 DEF CreditTables

\* A follow-up is closed (update_follow_up): in one window it was open.
LEMMA FollowUpClosed ==
    ASSUME CreditInv, NEW s \in Session, CloseFollowUpWrite(s)
    PROVE  /\ CreditTables' /\ bills' = bills
           /\ ~ mainPC => OutcomesStand
<1>1. PICK j : j = job[s]
  OBVIOUS
<1>2. /\ j # Idle /\ j.kind = "close follow-up" /\ CreditJob(j) /\ CreditTables
      /\ UNCHANGED <<mainPC, rules, today, limit, approval, rows, bills, collections>>
      /\ (~ mainPC)' = (~ mainPC)
      /\ followUps' = {IF f.id = j.id THEN [f EXCEPT !.status = j.outcome] ELSE f : f \in followUps}
  BY <1>1 DEF CloseFollowUpWrite, Runs, CreditInv, End
<1>3. /\ j.outcome \in Outcomes
      /\ ~ mainPC => \A f \in followUps : f.id = j.id => f.status = "open"
  BY <1>2 DEF CreditJob
<1>. DEFINE Row == [id : 1 .. MaxFollowUps, promise : 0 .. LastDay,
                    status : {"open"} \cup Outcomes]
<1>4. followUps \subseteq Row
  BY <1>2 DEF CreditTables, CreditTypeOK
<1>5. followUps' \subseteq Row /\ FollowUpsAreNumbered'
  <2>1. CASE \A f \in followUps : f.id # j.id
    <3>1. followUps' = followUps
      BY <1>2, <2>1
    <3>. QED BY <1>2, <1>4, <3>1 DEF CreditTables, FollowUpsAreNumbered
  <2>2. CASE \E f \in followUps : f.id = j.id
    <3>1. PICK f \in followUps : f.id = j.id
      BY <2>2
    <3>2. PICK v : v = [f EXCEPT !.status = j.outcome]
      OBVIOUS
    <3>3. v \in Row /\ v.id = f.id
      BY <1>3, <1>4, <3>2
    <3>4. \A g \in followUps : g.id = f.id => g = f
      BY <1>2 DEF CreditTables, FollowUpsAreNumbered
    <3>5. followUps' = (followUps \ {f}) \cup {v}
      BY <1>2, <3>1, <3>2, <3>4
    <3>6. v \notin followUps \ {f}
      BY <3>3, <3>4
    <3>7. IsFiniteSet(followUps') /\ Cardinality(followUps') = Cardinality(followUps)
      <4>1. IsFiniteSet(followUps)
        BY <1>2 DEF CreditTables, FollowUpsAreNumbered
      <4>2. /\ IsFiniteSet((followUps \ {f}) \cup {v})
            /\ Cardinality((followUps \ {f}) \cup {v}) = Cardinality(followUps)
        BY <3>6, <4>1, OneReplaced
      <4>. QED BY <3>5, <4>2
    <3>8. \A g \in followUps' : \E h \in followUps :
             g.id = h.id /\ (g = v => h = f) /\ (g # v => h = g /\ g # f)
      BY <3>3, <3>5
    <3>9. \A g, h \in followUps' : g.id = h.id => g = h
      <4>1. \A g, h \in followUps : g.id = h.id => g = h
        BY <1>2 DEF CreditTables, FollowUpsAreNumbered
      <4>2. ASSUME NEW g \in followUps', NEW h \in followUps', g.id = h.id PROVE g = h
        <5>1. PICK g0 \in followUps : g.id = g0.id /\ (g = v => g0 = f) /\ (g # v => g0 = g /\ g # f)
          BY <3>8
        <5>2. PICK h0 \in followUps : h.id = h0.id /\ (h = v => h0 = f) /\ (h # v => h0 = h /\ h # f)
          BY <3>8
        <5>3. g0 = h0
          BY <4>1, <4>2, <5>1, <5>2
        <5>. QED BY <5>1, <5>2, <5>3
      <4>. QED BY <4>2
    <3>10. \A g \in followUps' : g.id <= Cardinality(followUps')
      BY <1>2, <3>7, <3>8 DEF CreditTables, FollowUpsAreNumbered
    <3>11. followUps' \subseteq Row
      BY <1>4, <3>3, <3>5
    <3>. QED BY <3>7, <3>9, <3>10, <3>11 DEF FollowUpsAreNumbered
  <2>. QED BY <2>1, <2>2
<1>6. CreditTypeOK'
  BY <1>2, <1>5 DEF CreditTables, CreditTypeOK
<1>7. BillsAreNumbered' /\ PersonMadeOnce' /\ OneFirstBill'
  BY <1>2 DEF CreditTables, BillsAreNumbered, PersonMadeOnce, OneFirstBill, Live
<1>8. ASSUME ~ mainPC, NEW f \in followUps \ OpenFollowUps PROVE f \in followUps'
  <2>1. f.status # "open"
    BY <1>8 DEF OpenFollowUps
  <2>2. f.id # j.id
    BY <1>3, <1>8, <2>1
  <2>. QED BY <1>2, <1>8, <2>2
<1>. QED BY <1>2, <1>5, <1>6, <1>7, <1>8 DEF CreditTables, OutcomesStand

\* What an account, an approval or a person may become.
LEMMA AccountChanged ==
    ASSUME CreditTables, UNCHANGED <<mainPC, today, bills, collections, followUps>>,
           limit' \in {NoAccount} \cup 0 .. MaxAmount, limit' = 0 => approval'.counter,
           approval' \in [status : {"none", "pending", "approved", "rejected"}, counter : BOOLEAN],
           rows' \in 0 .. Cardinality(Session), ~ mainPC => rows' <= 1
    PROVE  CreditTables'
<1>1. (~ mainPC)' = (~ mainPC)
  OBVIOUS
<1>2. BillsAreNumbered' /\ FollowUpsAreNumbered' /\ OneFirstBill' /\ PersonMadeOnce'
  BY <1>1 DEF CreditTables, BillsAreNumbered, FollowUpsAreNumbered, OneFirstBill, Live,
             PersonMadeOnce
<1>3. CreditTypeOK'
  BY DEF CreditTables, CreditTypeOK
<1>. QED BY <1>2, <1>3 DEF CreditTables

\* An account is opened (create_credit_account) ...
LEMMA AccountOpened ==
    ASSUME CreditInv, NEW s \in Session, OpenAccountWrite(s)
    PROVE  CreditInv' /\ bills' = bills /\ followUps' = followUps
<1>1. PICK j : j = job[s]
  OBVIOUS
<1>2. PICK k : k = [j EXCEPT !.made = TRUE]
  OBVIOUS
<1>3. /\ j # Idle /\ j.kind = "open account" /\ CreditJob(j) /\ CreditTables
      /\ UNCHANGED <<mainPC, today, approval, rows, bills, collections, followUps>>
      /\ limit' = j.limit /\ job' = [job EXCEPT ![s] = k]
  BY <1>1, <1>2 DEF OpenAccountWrite, Runs, CreditInv
<1>4. DOMAIN j = {"kind", "key", "limit", "made"} /\ j.limit \in 1 .. MaxAmount
  BY <1>3 DEF CreditJob
<1>5. /\ k.kind = "open account" /\ k.key = j.key /\ k.limit = j.limit /\ DOMAIN k = DOMAIN j
  BY <1>2, <1>3, <1>4
<1>6. CreditJob(k)'
  BY <1>4, <1>5 DEF CreditJob
<1>7. limit' \in 0 .. MaxAmount /\ limit' # 0
  <2>1. MaxAmount \in Nat
    BY CreditAssumption
  <2>2. \A l \in 1 .. MaxAmount : l \in 0 .. MaxAmount /\ l # 0
    BY <2>1
  <2>. QED BY <1>3, <1>4, <2>2
<1>8. /\ approval \in [status : {"none", "pending", "approved", "rejected"}, counter : BOOLEAN]
      /\ rows \in 0 .. Cardinality(Session) /\ (~ mainPC => rows <= 1)
  BY <1>3 DEF CreditTables, CreditTypeOK, PersonMadeOnce
<1>9. CreditTables'
  BY <1>3, <1>7, <1>8, AccountChanged
<1>10. k.key = job[s].key /\ job[s] # Idle
  BY <1>1, <1>3, <1>5
<1>. QED BY <1>3, <1>6, <1>9, <1>10, CreditGoesOn

\* ... and then, or at the counter, has what an owner decides on.
LEMMA ApprovalMade ==
    ASSUME CreditInv, NEW s \in Session, OpenAccountApproval(s) \/ CounterWrite(s)
    PROVE  CreditTables' /\ bills' = bills /\ followUps' = followUps
<1>. DEFINE Approvals == [status : {"none", "pending", "approved", "rejected"}, counter : BOOLEAN]
<1>1. /\ CreditTables /\ MaxAmount \in Nat
      /\ limit \in {NoAccount} \cup 0 .. MaxAmount /\ (limit = 0 => approval.counter)
      /\ approval \in Approvals /\ rows \in 0 .. Cardinality(Session)
      /\ ~ mainPC => rows <= 1
  BY CreditAssumption DEF CreditInv, CreditTables, CreditTypeOK, PersonMadeOnce
<1>2. UNCHANGED <<mainPC, today, bills, collections, followUps>>
  BY DEF OpenAccountApproval, CounterWrite, End
<1>3. CASE OpenAccountApproval(s)
  <2>1. /\ limit' = limit /\ rows' = rows
        /\ approval' = IF approval # NoRow THEN approval
                       ELSE [status |-> IF rules.approval THEN "pending" ELSE "approved",
                             counter |-> FALSE]
    BY <1>3 DEF OpenAccountApproval
  <2>2. approval' \in Approvals /\ (approval # NoRow => approval' = approval)
    BY <1>1, <2>1
  <2>3. approval = NoRow => limit' # 0
    BY <1>1, <2>1 DEF NoRow
  <2>4. limit' = 0 => approval'.counter
    BY <1>1, <2>1, <2>2, <2>3
  <2>5. CreditTables'
    BY <1>1, <1>2, <2>1, <2>2, <2>4, AccountChanged
  <2>. QED BY <1>2, <2>5
<1>4. CASE CounterWrite(s)
  <2>1. PICK j : j = job[s]
    OBVIOUS
  <2>2. CreditJob(j) /\ j.kind = "counter"
    BY <1>4, <2>1 DEF CounterWrite, Runs, CreditInv
  <2>3. j.found \in BOOLEAN /\ (~ mainPC => j.found = (rows > 0))
    BY <2>2 DEF CreditJob
  <2>4. rows < Cardinality(Session) /\ rows' = IF j.found THEN rows ELSE rows + 1
    BY <1>4, <2>1 DEF CounterWrite
  <2>5. \/ limit' = 0 /\ approval' = [status |-> "pending", counter |-> TRUE]
        \/ UNCHANGED <<limit, approval>>
    BY <1>4 DEF CounterWrite
  <2>6. rows' \in 0 .. Cardinality(Session) /\ (~ mainPC => rows' <= 1)
    <3>1. Cardinality(Session) \in Nat /\ rows \in Nat
      BY <1>1, CreditAssumption, FS_CardinalityType
    <3>2. CASE j.found = TRUE
      BY <1>1, <2>4, <3>2
    <3>3. CASE j.found = FALSE
      <4>1. rows' = rows + 1 /\ rows' \in 0 .. Cardinality(Session)
        BY <2>4, <3>1, <3>3
      <4>2. ~ mainPC => ~ (rows > 0)
        BY <2>3, <3>3
      <4>. QED BY <3>1, <4>1, <4>2
    <3>. QED BY <2>3, <3>2, <3>3
  <2>7. limit' \in {NoAccount} \cup 0 .. MaxAmount /\ approval' \in Approvals
    <3>1. 0 \in 0 .. MaxAmount /\ [status |-> "pending", counter |-> TRUE] \in Approvals
      BY <1>1
    <3>. QED BY <1>1, <2>5, <3>1
  <2>8. limit' = 0 => approval'.counter
    BY <1>1, <2>5
  <2>9. CreditTables'
    BY <1>1, <1>2, <2>6, <2>7, <2>8, AccountChanged
  <2>. QED BY <1>2, <2>9
<1>. QED BY <1>3, <1>4

\* How a bill may go through, and what that rests on (authorize_sale).
LEMMA SaleAuthorized ==
    ASSUME NEW amount, NEW owner \in BOOLEAN, Authorized(amount, owner) # "no"
    PROVE  /\ Authorized(amount, owner) \in {"plain", "first", "allowed"}
           /\ Authorized(amount, owner) = "plain" => ~ OverLimit(amount)
           /\ Authorized(amount, owner) = "first" => Live = {}
<1>1. FirstSale => Waits /\ Live = {}
  BY DEF FirstSale
<1>2. CASE FirstSale
  BY <1>1, <1>2 DEF Authorized
<1>3. CASE ~ FirstSale /\ Waits
  BY <1>3 DEF Authorized
<1>4. CASE ~ Waits /\ (limit = NoAccount \/ Refused)
  BY <1>1, <1>4 DEF Authorized
<1>5. CASE ~ Waits /\ limit # NoAccount /\ ~ Refused
  BY <1>1, <1>5 DEF Authorized
<1>. QED BY <1>2, <1>3, <1>4, <1>5

\* The requests that read first.
LEMMA CreditReads ==
    ASSUME CreditInv, NEW s \in Session,
           OpenAccountRead(s) \/ CounterRead(s) \/ AuthorizeSale(s) \/ CloseFollowUpRead(s)
    PROVE  CreditInv' /\ bills' = bills /\ followUps' = followUps
<1>. SUFFICES \E j : Begin(s, j) /\ CreditJob(j) /\ UNCHANGED creditVars
  BY CreditRead DEF creditVars
<1>1. CASE OpenAccountRead(s)
  <2>1. PICK l \in 1 .. MaxAmount :
          Begin(s, [kind |-> "open account", key |-> NoRecord, limit |-> l, made |-> FALSE])
    BY <1>1 DEF OpenAccountRead
  <2>2. CreditJob([kind |-> "open account", key |-> NoRecord, limit |-> l, made |-> FALSE])
    BY DEF CreditJob
  <2>. QED BY <1>1, <2>1, <2>2 DEF OpenAccountRead
<1>2. CASE CounterRead(s)
  <2>0. PICK a \in BOOLEAN : a = (limit # NoAccount)
    OBVIOUS
  <2>1. PICK f \in BOOLEAN : f = (rows > 0)
    <3>1. CASE rows > 0
      <4>1. TRUE = (rows > 0)
        BY <3>1
      <4>. QED BY <4>1
    <3>2. CASE ~ (rows > 0)
      <4>1. FALSE = (rows > 0)
        BY <3>2
      <4>. QED BY <4>1
    <3>. QED BY <3>1, <3>2
  <2>2. Begin(s, [kind |-> "counter", key |-> NoRecord, found |-> f, account |-> a])
    BY <1>2, <2>0, <2>1 DEF CounterRead, Found
  <2>3. CreditJob([kind |-> "counter", key |-> NoRecord, found |-> f, account |-> a])
    BY <2>1 DEF CreditJob
  <2>. QED BY <1>2, <2>2, <2>3 DEF CounterRead
<1>3. CASE AuthorizeSale(s)
  <2>1. PICK amount \in 1 .. MaxAmount, owner \in BOOLEAN :
          /\ Authorized(amount, owner) # "no"
          /\ Begin(s, [kind |-> "sale", key |-> NoRecord, amount |-> amount,
                       how |-> Authorized(amount, owner), ensured |-> FALSE])
    BY <1>3 DEF AuthorizeSale
  <2>2. PICK h : h = Authorized(amount, owner)
    OBVIOUS
  <2>3. /\ h \in {"plain", "first", "allowed"}
        /\ h = "plain" => ~ OverLimit(amount)
        /\ h = "first" => Live = {}
    BY <2>1, <2>2, SaleAuthorized
  <2>4. CreditJob([kind |-> "sale", key |-> NoRecord, amount |-> amount, how |-> h,
                   ensured |-> FALSE])
    BY <2>3 DEF CreditJob
  <2>. QED BY <1>3, <2>1, <2>2, <2>4 DEF AuthorizeSale
<1>4. CASE CloseFollowUpRead(s)
  <2>1. PICK f \in followUps, outcome \in Outcomes :
          /\ f.status = "open"
          /\ Begin(s, [kind |-> "close follow-up", key |-> NoRecord, id |-> f.id,
                       outcome |-> outcome])
    BY <1>4 DEF CloseFollowUpRead, MayClose
  <2>2. \A g \in followUps : g.id = f.id => g.status = "open"
    BY <2>1 DEF CreditInv, CreditTables, FollowUpsAreNumbered
  <2>3. CreditJob([kind |-> "close follow-up", key |-> NoRecord, id |-> f.id,
                   outcome |-> outcome])
    BY <2>2 DEF CreditJob
  <2>. QED BY <1>4, <2>1, <2>3 DEF CloseFollowUpRead
<1>. QED BY <1>1, <1>2, <1>3, <1>4

\* The availability is checked once more (ensure_credit_available): the
\* request goes on as it was.
LEMMA CreditEnsured ==
    ASSUME CreditInv, NEW s \in Session, EnsureCredit(s)
    PROVE  CreditInv' /\ bills' = bills /\ followUps' = followUps
<1>1. PICK j : j = job[s]
  OBVIOUS
<1>2. PICK k : k = [j EXCEPT !.ensured = TRUE]
  OBVIOUS
<1>3. /\ j # Idle /\ j.kind = "sale" /\ CreditJob(j) /\ CreditTables
      /\ mainPC' = mainPC /\ UNCHANGED creditVars /\ job' = [job EXCEPT ![s] = k]
  BY <1>1, <1>2 DEF EnsureCredit, Runs, CreditInv
<1>4. DOMAIN j = {"kind", "key", "amount", "how", "ensured"}
  BY <1>3 DEF CreditJob
<1>5. /\ k.kind = "sale" /\ k.key = j.key /\ k.amount = j.amount /\ k.how = j.how
      /\ DOMAIN k = DOMAIN j
  BY <1>2, <1>3, <1>4
<1>6. CreditJob(k)
  BY <1>3, <1>5 DEF CreditJob
<1>7. CreditTables' /\ CreditJob(k)'
  BY <1>3, <1>6, CreditTablesStay
<1>8. k.key = job[s].key /\ job[s] # Idle
  BY <1>1, <1>3, <1>5
<1>9. CreditInv'
  BY <1>3, <1>7, <1>8, CreditGoesOn
<1>. QED BY <1>3, <1>9 DEF creditVars

\* The next day comes whatever is running.
LEMMA CreditNextDay ==
    ASSUME CreditInv, NextDay
    PROVE  CreditInv' /\ bills' = bills /\ followUps' = followUps
<1>1. /\ UNCHANGED <<mainPC, job, rules, limit, approval, rows, bills, collections, followUps>>
      /\ CreditTables /\ (~ mainPC)' = (~ mainPC)
  BY DEF NextDay, deskVars, CreditInv
<1>2. CreditTables' /\ DesksInv'
  BY <1>1, NoBillsTouched, DesksStay DEF CreditInv, deskVars
<1>3. Balance' = Balance /\ Live' = Live
  BY <1>1 DEF Balance, Billed, Live, PaidUpTo
<1>4. ASSUME NEW s \in Session, NEW j \in {job'[s]}, j # Idle PROVE CreditJob(j)'
  <2>1. CreditJob(j)
    BY <1>1, <1>4 DEF CreditInv
  <2>. QED BY <1>1, <1>3, <2>1 DEF CreditJob, OverLimit
<1>. QED BY <1>1, <1>2, <1>4 DEF CreditInv

\* Rows that stay are within the limit and stand.
LEMMA NothingBilled == ASSUME bills' = bills, followUps \subseteq followUps'
                       PROVE  WithinLimit /\ OutcomesStand
BY DEF WithinLimit, OutcomesStand

\* What holds at the start and is kept by every step, and what a step in one
\* window may do to the limit and the follow-ups.
LEMMA CreditInductive ==
    /\ DesksInit /\ CreditInit => CreditInv
    /\ CreditInv /\ [CreditNext]_<<deskVars, creditVars>> =>
          CreditInv' /\ (~ mainPC => WithinLimit /\ OutcomesStand)
<1>1. ASSUME DesksInit, CreditInit PROVE CreditInv
  <2>1. DesksInv /\ \A s \in Session : job[s] = Idle
    BY <1>1, DesksStart DEF DesksInit
  <2>2. /\ today = 1 /\ limit = NoAccount /\ approval = NoRow /\ rows \in {0, 1} /\ bills = {}
        /\ collections = [d \in Day |-> 0] /\ followUps = {}
    BY <1>1 DEF CreditInit
  <2>3. LastDay \in Nat \ {0} /\ MaxAmount \in Nat /\ MaxPaid \in Nat
    BY CreditAssumption
  <2>4. rows \in 0 .. Cardinality(Session)
    <3>1. Cardinality(Session) \in Nat
      BY CreditAssumption, FS_CardinalityType
    <3>2. Cardinality(Session) # 0
      BY CreditAssumption, FS_EmptySet
    <3>. QED BY <2>2, <3>1, <3>2
  <2>5. today \in Day /\ collections \in [Day -> 0 .. MaxPaid]
    BY <2>2, <2>3 DEF Day
  <2>6. /\ limit \in {NoAccount} \cup 0 .. MaxAmount /\ limit # 0
        /\ approval \in [status : {"none", "pending", "approved", "rejected"}, counter : BOOLEAN]
    BY <2>2 DEF NoAccount, NoRow
  <2>7. CreditTypeOK
    BY <2>2, <2>4, <2>5, <2>6 DEF CreditTypeOK
  <2>8. BillsAreNumbered /\ FollowUpsAreNumbered
    BY <2>2, FS_EmptySet DEF BillsAreNumbered, FollowUpsAreNumbered
  <2>9. OneFirstBill /\ PersonMadeOnce
    BY <2>2 DEF OneFirstBill, Live, PersonMadeOnce
  <2>. QED BY <2>1, <2>7, <2>8, <2>9 DEF CreditInv, CreditTables
<1>2. ASSUME CreditInv, [CreditNext]_<<deskVars, creditVars>>
      PROVE  CreditInv' /\ (~ mainPC => WithinLimit /\ OutcomesStand)
  <2>0. CreditTables
    BY <1>2 DEF CreditInv
  <2>1. CASE UNCHANGED <<deskVars, creditVars>>
    <3>1. UNCHANGED <<mainPC, job>> /\ DesksInv' /\ UNCHANGED creditVars
      BY <1>2, <2>1, DesksStay DEF deskVars, CreditInv
    <3>2. CreditTables' /\ \A j : CreditJob(j) => CreditJob(j)'
      BY <2>0, <3>1, CreditTablesStay
    <3>3. CreditInv'
      BY <1>2, <3>1, <3>2 DEF CreditInv
    <3>. QED BY <3>1, <3>3, NothingBilled DEF creditVars
  <2>2. ASSUME NEW s \in Session, GiveUp(s), UNCHANGED creditVars
        PROVE  CreditInv' /\ bills' = bills /\ followUps' = followUps
    <3>1. job[s] # Idle /\ End(s) /\ mainPC' = mainPC
      BY <2>2 DEF GiveUp, End
    <3>2. CreditTables'
      BY <2>0, <2>2, <3>1, CreditTablesStay
    <3>3. CreditInv'
      BY <1>2, <3>1, <3>2, CreditEnd
    <3>. QED BY <2>2, <3>3 DEF creditVars
  <2>3. CASE SetCreditLimit \/ DecideCustomer \/ RecordPayment
    <3>1. AtOnce
      BY <2>3 DEF SetCreditLimit, DecideCustomer, RecordPayment
    <3>2. CreditTables' /\ bills' = bills /\ followUps' = followUps
      BY <2>0, <2>3, NoBillsTouched
    <3>. QED BY <1>2, <3>1, <3>2, CreditBeside, NothingBilled
  <2>4. CASE BowserBill \/ CancelBill
    <3>1. AtOnce
      BY <2>4 DEF BowserBill, CancelBill
    <3>2. CreditTables' /\ WithinLimit /\ followUps' = followUps
      BY <2>0, <2>4, BillsBeside
    <3>3. OutcomesStand
      BY <3>2 DEF OutcomesStand
    <3>. QED BY <1>2, <3>1, <3>2, <3>3, CreditBeside
  <2>5. CASE AddFollowUp
    <3>1. AtOnce
      BY <2>5 DEF AddFollowUp
    <3>2. CreditTables' /\ bills' = bills /\ followUps \subseteq followUps'
      BY <2>0, <2>5, FollowUpAdded
    <3>. QED BY <1>2, <3>1, <3>2, CreditBeside, NothingBilled
  <2>6. ASSUME NEW s \in Session, RecordSale(s)
        PROVE  CreditInv' /\ (~ mainPC => WithinLimit /\ OutcomesStand)
    <3>1. job[s] # Idle /\ End(s)
      BY <2>6 DEF RecordSale, Runs
    <3>2. CreditTables' /\ followUps' = followUps /\ (~ mainPC => WithinLimit)
      BY <1>2, <2>6, SaleBilled
    <3>3. OutcomesStand
      BY <3>2 DEF OutcomesStand
    <3>. QED BY <1>2, <3>1, <3>2, <3>3, CreditEnd
  <2>7. ASSUME NEW s \in Session, CloseFollowUpWrite(s)
        PROVE  CreditInv' /\ (~ mainPC => WithinLimit /\ OutcomesStand)
    <3>1. job[s] # Idle /\ End(s)
      BY <2>7 DEF CloseFollowUpWrite, Runs
    <3>2. CreditTables' /\ bills' = bills /\ (~ mainPC => OutcomesStand)
      BY <1>2, <2>7, FollowUpClosed
    <3>3. WithinLimit
      BY <3>2 DEF WithinLimit
    <3>. QED BY <1>2, <3>1, <3>2, <3>3, CreditEnd
  <2>8. ASSUME NEW s \in Session, OpenAccountApproval(s) \/ CounterWrite(s)
        PROVE  CreditInv' /\ bills' = bills /\ followUps' = followUps
    <3>1. job[s] # Idle /\ End(s)
      BY <2>8 DEF OpenAccountApproval, CounterWrite, Runs
    <3>2. CreditTables' /\ bills' = bills /\ followUps' = followUps
      BY <1>2, <2>8, ApprovalMade
    <3>. QED BY <1>2, <3>1, <3>2, CreditEnd
  <2>9. ASSUME NEW s \in Session,
               \/ OpenAccountWrite(s) \/ EnsureCredit(s) \/ NextDay
               \/ OpenAccountRead(s) \/ CounterRead(s) \/ AuthorizeSale(s) \/ CloseFollowUpRead(s)
        PROVE  CreditInv' /\ bills' = bills /\ followUps' = followUps
    BY <1>2, <2>9, AccountOpened, CreditEnsured, CreditNextDay, CreditReads
  <2>10. ASSUME NextDay PROVE CreditInv' /\ bills' = bills /\ followUps' = followUps
    BY <1>2, <2>10, CreditNextDay
  <2>. QED BY <1>2, <2>1, <2>2, <2>3, <2>4, <2>5, <2>6, <2>7, <2>8, <2>9, <2>10, NothingBilled
           DEF CreditNext, SellingNext, CollectingNext
<1>. QED BY <1>1, <1>2

\* Bills of one customer are put in order of their days, and of one day in the
\* order they were made: every bill once.
LEMMA BillsInOrder ==
    ASSUME CreditTables, NEW B \in SUBSET bills
    PROVE  /\ IsFiniteSet(B) /\ Cardinality(B) \in Nat
           /\ Lists(OldestFirst(B), B) /\ Len(OldestFirst(B)) = Cardinality(B)
           /\ \A i, j \in 1 .. Cardinality(B) :
                 i < j => OldestFirst(B)[i].day <= OldestFirst(B)[j].day
<1>. DEFINE R == {p \in B \X B : Older(p[1], p[2])}
            Sorted(q) == \A i, j \in DOMAIN q : i < j => Older(q[i], q[j])
<1>1. IsFiniteSet(B) /\ Cardinality(B) \in Nat
  BY CreditTypes, FS_Subset, FS_CardinalityType
<1>2. \A b \in B : b.no \in Nat /\ b.day \in Nat
  BY CreditTypes, CreditAssumption DEF BillRow, Day
<1>3. \A a, b \in B : a.no = b.no => a = b
  BY DEF CreditTables, BillsAreNumbered
<1>4. \A x, y, z \in B : Older(x, y) /\ Older(y, z) => Older(x, z)
  BY <1>2 DEF Older
<1>5. \A x, y \in B : x # y => Older(x, y) \/ Older(y, x)
  BY <1>2, <1>3 DEF Older
<1>6. \A x, y \in B : <<x, y>> \in R <=> Older(x, y)
  OBVIOUS
<1>7. /\ \A x, y, z \in B : <<x, y>> \in R /\ <<y, z>> \in R => <<x, z>> \in R
      /\ \A x, y \in B : x # y => <<x, y>> \in R \/ <<y, x>> \in R
  BY <1>4, <1>5, <1>6
<1>8. PICK q \in [1 .. Cardinality(B) -> B] :
        \A i, j \in 1 .. Cardinality(B) : i < j => q[i] # q[j] /\ <<q[i], q[j]>> \in R
  <2>. HIDE DEF R
  <2>. QED BY <1>1, <1>7, SortedExists
<1>9. Sorted(q)
  BY <1>6, <1>8
<1>10. q \in SetToSeqs(B)
  <2>1. \A i, j \in 1 .. Cardinality(B) : i # j => q[i] # q[j]
    <3>1. ASSUME NEW i \in 1 .. Cardinality(B), NEW j \in 1 .. Cardinality(B), i < j
          PROVE  q[i] # q[j]
      BY <1>8, <3>1
    <3>2. \A i, j \in 1 .. Cardinality(B) : i # j => i < j \/ j < i
      BY <1>1
    <3>. QED BY <3>1, <3>2
  <2>. QED BY <2>1 DEF SetToSeqs
<1>11. OldestFirst(B) \in SetToSeqs(B) /\ Sorted(OldestFirst(B))
  <2>1. OldestFirst(B) = CHOOSE bs \in SetToSeqs(B) : Sorted(bs)
    BY DEF OldestFirst
  <2>. HIDE DEF Sorted
  <2>. QED BY <1>9, <1>10, <2>1
<1>12. PICK bs : bs = OldestFirst(B)
  OBVIOUS
<1>13. /\ bs \in [1 .. Cardinality(B) -> B]
       /\ \A i, j \in 1 .. Cardinality(B) : i # j => bs[i] # bs[j]
  BY <1>11, <1>12 DEF SetToSeqs
<1>14. Len(bs) = Cardinality(B)
  <2>1. bs \in Seq(B)
    BY <1>1, <1>13
  <2>. QED BY <1>1, <1>13, <2>1
<1>15. \A i, j \in 1 .. Cardinality(B) : i < j => bs[i].day <= bs[j].day
  <2>1. ASSUME NEW i \in 1 .. Cardinality(B), NEW j \in 1 .. Cardinality(B), i < j
        PROVE  bs[i].day <= bs[j].day
    <3>1. Older(bs[i], bs[j])
      BY <1>11, <1>12, <1>13, <2>1
    <3>2. bs[i] \in B /\ bs[j] \in B
      BY <1>13
    <3>. QED BY <1>2, <3>1, <3>2 DEF Older
  <2>. QED BY <2>1
<1>. QED BY <1>1, <1>12, <1>13, <1>14, <1>15 DEF Lists

\* The smaller of two numbers.
LEMMA MinOfTwo ==
    ASSUME NEW a \in Int, NEW b \in Int
    PROVE  Min({a, b}) = IF a <= b THEN a ELSE b
<1>1. CASE a <= b
  <2>1. a \in {a, b} /\ \A y \in {a, b} : a <= y
    BY <1>1
  <2>2. \A x \in {a, b} : (\A y \in {a, b} : x <= y) => x = a
    BY <1>1
  <2>. QED BY <1>1, <2>1, <2>2 DEF Min
<1>2. CASE ~ (a <= b)
  <2>1. b \in {a, b} /\ \A y \in {a, b} : b <= y
    BY <1>2
  <2>2. \A x \in {a, b} : (\A y \in {a, b} : x <= y) => x = b
    BY <1>2
  <2>. QED BY <1>2, <2>1, <2>2 DEF Min
<1>. QED BY <1>1, <1>2

\* What is left of a total when s of it is used.
LeftOf(total, s) == IF s < total THEN total - s ELSE 0

\* What the bills of a list come to, one by one.
Amounts(bs) == [i \in 1 .. Len(bs) |-> bs[i].amount]

\* What is left of the payments after each bill is what they exceed the bills
\* so far by, the function apply_payments computes step by step.
LEMMA PoolIs ==
    ASSUME NEW bs, Len(bs) \in Nat, Amounts(bs) \in [1 .. Len(bs) -> Nat], NEW total \in Nat
    PROVE  \A i \in 0 .. Len(bs) :
              /\ SumFunctionOnSet(Amounts(bs), 1 .. i) \in Nat
              /\ Pool(bs, total)[i] = LeftOf(total, SumFunctionOnSet(Amounts(bs), 1 .. i))
<1>. PICK n \in Nat : n = Len(bs)
  OBVIOUS
<1>0. PICK a : a = Amounts(bs) /\ \A i \in 1 .. n : a[i] = bs[i].amount /\ a[i] \in Nat
  BY DEF Amounts
<1>. DEFINE w == [i \in 0 .. n |-> LeftOf(total, SumFunctionOnSet(a, 1 .. i))]
            IsPool(f) == f = [i \in 0 .. n |-> IF i = 0 THEN total
                               ELSE f[i-1] - Min({bs[i].amount, f[i-1]})]
<1>1. ASSUME NEW i \in 0 .. n PROVE SumFunctionOnSet(a, 1 .. i) \in Nat
  <2>1. i \in Int /\ 1 \in Int /\ \A x \in 1 .. i : a[x] \in Nat
    BY <1>0
  <2>2. IsFiniteSet(1 .. i)
    BY <2>1, FS_Interval
  <2>. QED BY <2>1, <2>2, SumIsNat
<1>2. ASSUME NEW i \in 0 .. n, i # 0
      PROVE  /\ i \in 1 .. n /\ i - 1 \in 0 .. n
             /\ SumFunctionOnSet(a, 1 .. i) = SumFunctionOnSet(a, 1 .. i - 1) + a[i]
  <2>1. PICK k \in 0 .. n : k = i - 1 /\ k + 1 = i /\ k \in Nat /\ i \in 1 .. n
    BY <1>2
  <2>2. a[k + 1] \in Int /\ \A x \in 1 .. k : a[x] \in Int /\ a[x] = a[x]
    BY <1>0, <2>1
  <2>3. SumFunctionOnSet(a, 1 .. (k + 1)) = SumFunctionOnSet(a, 1 .. k) + a[k + 1]
    BY <2>1, <2>2, SumAppended
  <2>. QED BY <2>1, <2>3
<1>3. ASSUME NEW i \in 0 .. n
      PROVE  w[i] \in Nat /\ w[i] = IF i = 0 THEN total ELSE w[i-1] - Min({bs[i].amount, w[i-1]})
  <2>0. w[i] = LeftOf(total, SumFunctionOnSet(a, 1 .. i))
    OBVIOUS
  <2>1. w[i] \in Nat
    BY <1>1, <2>0 DEF LeftOf
  <2>2. CASE i = 0
    <3>1. SumFunctionOnSet(a, 1 .. 0) = 0
      <4>1. 1 .. 0 = {}
        OBVIOUS
      <4>. QED BY <4>1, SumOfNothing
    <3>2. w[i] = total
      <4>. HIDE DEF w
      <4>. QED BY <2>0, <2>2, <3>1 DEF LeftOf
    <3>. QED BY <2>1, <2>2, <3>2
  <2>3. CASE i # 0
    <3>1. PICK s \in Nat : s = SumFunctionOnSet(a, 1 .. i - 1)
      BY <1>1, <1>2, <2>3
    <3>2. a[i] = bs[i].amount /\ a[i] \in Nat /\ i - 1 \in 0 .. n
      BY <1>0, <1>2, <2>3
    <3>3. SumFunctionOnSet(a, 1 .. i) = s + a[i]
      BY <1>2, <2>3, <3>1
    <3>4. w[i-1] = LeftOf(total, s)
      BY <3>1, <3>2
    <3>. HIDE DEF w
    <3>5. w[i-1] \in Int
      BY <3>1, <3>4 DEF LeftOf
    <3>6. Min({bs[i].amount, w[i-1]}) = IF bs[i].amount <= w[i-1] THEN bs[i].amount ELSE w[i-1]
      BY <3>2, <3>5, MinOfTwo
    <3>7. w[i] = w[i-1] - Min({bs[i].amount, w[i-1]})
      BY <2>0, <3>1, <3>2, <3>3, <3>4, <3>6 DEF LeftOf
    <3>. QED BY <2>1, <2>3, <3>7
  <2>. QED BY <2>2, <2>3
<1>4. IsPool(w)
  BY <1>3
<1>5. Pool(bs, total) = CHOOSE f : IsPool(f)
  BY <1>0 DEF Pool
<1>6. PICK f : f = Pool(bs, total)
  OBVIOUS
<1>7. IsPool(f)
  <2>. HIDE DEF IsPool
  <2>. QED BY <1>4, <1>5, <1>6
<1>8. ASSUME NEW i \in 0 .. n
      PROVE  f[i] = IF i = 0 THEN total ELSE f[i-1] - Min({bs[i].amount, f[i-1]})
  BY <1>7
<1>. DEFINE Bad == {i \in 0 .. n : f[i] # w[i]}
<1>9. ASSUME Bad # {} PROVE FALSE
  <2>1. PICK i \in Bad : \A x \in Bad : i <= x
    <3>1. IsFiniteSet(Bad)
      <4>1. IsFiniteSet(0 .. n)
        BY FS_Interval
      <4>. QED BY <4>1, FS_Subset
    <3>2. \A x \in Bad : x \in Int
      OBVIOUS
    <3>. HIDE DEF Bad
    <3>. QED BY <1>9, <3>1, <3>2, LeastOfFew
  <2>2. i \in 0 .. n /\ f[i] # w[i]
    OBVIOUS
  <2>3. i # 0
    <3>. HIDE DEF w
    <3>. QED BY <1>3, <1>8, <2>2
  <2>4. i - 1 \in 0 .. n /\ i - 1 \notin Bad
    BY <2>1, <2>2, <2>3
  <2>5. f[i-1] = w[i-1]
    BY <2>4
  <2>. HIDE DEF w
  <2>. QED BY <1>3, <1>8, <2>2, <2>3, <2>5
<1>10. \A i \in 0 .. n : f[i] = LeftOf(total, SumFunctionOnSet(a, 1 .. i))
  BY <1>9
<1>. QED BY <1>0, <1>1, <1>6, <1>10

\* What is left is a natural number, and a bill takes of it no
\* more than it comes to.
LEMMA LeftAfterBill ==
    ASSUME NEW total \in Nat, NEW s \in Nat, NEW x \in Nat
    PROVE  /\ LeftOf(total, s) \in Nat /\ (LeftOf(total, s) = 0 <=> total <= s)
           /\ x - (LeftOf(total, s) - LeftOf(total, s + x)) \in Nat
           /\ x - (LeftOf(total, s) - LeftOf(total, s + x)) > 0 => LeftOf(total, s + x) = 0
<1>1. CASE total <= s
  <2>1. LeftOf(total, s) = 0 /\ LeftOf(total, s + x) = 0
    BY <1>1 DEF LeftOf
  <2>. QED BY <1>1, <2>1
<1>2. CASE s < total /\ total <= s + x
  <2>1. LeftOf(total, s) = total - s /\ LeftOf(total, s + x) = 0
    BY <1>2 DEF LeftOf
  <2>. QED BY <1>2, <2>1
<1>3. CASE s + x < total
  <2>1. LeftOf(total, s) = total - s /\ LeftOf(total, s + x) = total - (s + x)
    BY <1>3 DEF LeftOf
  <2>. QED BY <1>3, <2>1
<1>. QED BY <1>1, <1>2, <1>3

\* Some bills of the customer and a total paid for them, oldest first
\* (apply_payments): a bill that is open leaves nothing for those after it,
\* and what is open less what is not used is what is owed.
LEMMA OldestAreCovered ==
    ASSUME CreditTables, NEW B \in SUBSET bills, NEW total \in Nat,
           NEW bs, bs = OldestFirst(B), NEW n, n = Cardinality(B),
           NEW u, u = [i \in 1 .. n |-> Unpaid(bs, total, i)]
    PROVE  /\ n \in Nat /\ Len(bs) = n /\ bs \in [1 .. n -> B]
           /\ \A i \in 1 .. n : u[i] \in Nat /\ (u[i] > 0 => Pool(bs, total)[n] = 0)
           /\ \A i, j \in 1 .. n : bs[i].day < bs[j].day /\ u[i] > 0 => u[j] = bs[j].amount
           /\ Pool(bs, total)[n] \in Nat
           /\ SumFunctionOnSet(u, 1 .. n) - Pool(bs, total)[n] = Billed(B) - total
<1>1. /\ n \in Nat /\ Len(bs) = n /\ bs \in [1 .. n -> B] /\ IsFiniteSet(B)
      /\ Lists(bs, B)
      /\ \A i, j \in 1 .. n : i < j => bs[i].day <= bs[j].day
  BY BillsInOrder DEF Lists
<1>2. \A b \in B : b.day \in Nat /\ b.amount \in Nat
  BY CreditTypes, CreditAssumption DEF BillRow, Day
<1>. DEFINE a == Amounts(bs)
            used == [i \in 0 .. n |-> SumFunctionOnSet(a, 1 .. i)]
            pool == [i \in 0 .. n |-> LeftOf(total, used[i])]
<1>3. a \in [1 .. n -> Nat] /\ \A i \in 1 .. n : a[i] = bs[i].amount /\ a[i] \in Nat
  BY <1>1, <1>2 DEF Amounts
<1>4. \A i \in 0 .. n : used[i] \in Nat /\ used[i] = SumFunctionOnSet(a, 1 .. i)
                        /\ Pool(bs, total)[i] = pool[i] /\ pool[i] = LeftOf(total, used[i])
  <2>1. \A i \in 0 .. n :
           /\ SumFunctionOnSet(a, 1 .. i) \in Nat
           /\ Pool(bs, total)[i] = LeftOf(total, SumFunctionOnSet(a, 1 .. i))
    BY <1>1, <1>3, PoolIs
  <2>2. \A i \in 0 .. n : used[i] = SumFunctionOnSet(a, 1 .. i) /\ pool[i] = LeftOf(total, used[i])
    OBVIOUS
  <2>. HIDE DEF a, used, pool
  <2>. QED BY <2>1, <2>2
<1>5. ASSUME NEW i \in 0 .. n PROVE pool[i] \in Nat /\ (pool[i] = 0 <=> total <= used[i])
  <2>. HIDE DEF used, pool
  <2>. QED BY <1>4, LeftAfterBill
<1>6. ASSUME NEW i \in 1 .. n
      PROVE  /\ i - 1 \in 0 .. n /\ i \in 0 .. n
             /\ used[i] = used[i-1] + a[i] /\ u[i] = a[i] - (pool[i-1] - pool[i])
             /\ u[i] \in Nat /\ (u[i] > 0 => pool[i] = 0)
  <2>1. PICK k \in 0 .. n : k = i - 1 /\ k + 1 = i /\ k \in Nat
    BY <1>1
  <2>. HIDE DEF a
  <2>2. SumFunctionOnSet(a, 1 .. (k + 1)) = SumFunctionOnSet(a, 1 .. k) + a[k + 1]
    <3>1. a[k + 1] \in Int /\ \A x \in 1 .. k : a[x] \in Int /\ a[x] = a[x]
      BY <1>1, <1>3, <2>1
    <3>. QED BY <2>1, <3>1, SumAppended
  <2>. HIDE DEF used, pool
  <2>3. i - 1 \in 0 .. n /\ i \in 0 .. n
    BY <1>1
  <2>4. used[i] = used[i-1] + a[i]
    BY <1>4, <2>1, <2>2, <2>3
  <2>5. Unpaid(bs, total, i) = bs[i].amount - (Pool(bs, total)[i-1] - Pool(bs, total)[i])
    BY DEF Unpaid
  <2>6. u[i] = a[i] - (pool[i-1] - pool[i])
    BY <1>3, <1>4, <2>3, <2>5
  <2>7. /\ used[i] \in Nat /\ used[i-1] \in Nat /\ a[i] \in Nat
        /\ pool[i] = LeftOf(total, used[i]) /\ pool[i-1] = LeftOf(total, used[i-1])
    BY <1>3, <1>4, <2>3
  <2>8. u[i] \in Nat /\ (u[i] > 0 => pool[i] = 0)
    <3>1. PICK s \in Nat, x \in Nat : s = used[i-1] /\ x = a[i]
      BY <2>7
    <3>2. u[i] = x - (LeftOf(total, s) - LeftOf(total, s + x)) /\ pool[i] = LeftOf(total, s + x)
      BY <2>4, <2>6, <2>7, <3>1
    <3>. QED BY <3>2, LeftAfterBill
  <2>. QED BY <2>3, <2>4, <2>6, <2>8
<1>7. ASSUME NEW i \in 0 .. n, NEW j \in 0 .. n, i <= j PROVE used[i] <= used[j]
  <2>. HIDE DEF a
  <2>1. PICK P, Q : P = 1 .. i /\ Q = 1 .. j
    OBVIOUS
  <2>2. i \in Int /\ j \in Int
    BY <1>1
  <2>3. IsFiniteSet(Q)
    BY <2>1, <2>2, FS_Interval
  <2>4. P \in SUBSET Q /\ \A x \in Q : a[x] \in Nat
    BY <1>1, <1>3, <1>7, <2>1
  <2>5. \A x \in P : a[x] = a[x]
    OBVIOUS
  <2>6. SumFunctionOnSet(a, P) <= SumFunctionOnSet(a, Q)
    BY <2>3, <2>4, <2>5, SumOfMore
  <2>. QED BY <1>4, <2>1, <2>6
<1>8. ASSUME NEW i \in 0 .. n, NEW j \in 0 .. n, i <= j, pool[i] = 0 PROVE pool[j] = 0
  <2>1. used[i] <= used[j]
    BY <1>7, <1>8
  <2>2. /\ used[i] \in Nat /\ used[j] \in Nat
        /\ pool[i] = LeftOf(total, used[i]) /\ pool[j] = LeftOf(total, used[j])
    BY <1>4
  <2>. HIDE DEF used, pool
  <2>. QED BY <1>5, <1>8, <2>1, <2>2
<1>9. n \in 0 .. n /\ Pool(bs, total)[n] = pool[n] /\ pool[n] \in Nat
  BY <1>1, <1>4, <1>5
<1>10. ASSUME NEW i \in 1 .. n PROVE u[i] \in Nat /\ (u[i] > 0 => Pool(bs, total)[n] = 0)
  <2>. HIDE DEF used, pool, a
  <2>1. u[i] > 0 => pool[n] = 0
    <3>1. u[i] > 0 => pool[i] = 0
      BY <1>6
    <3>2. i \in 0 .. n /\ i <= n
      BY <1>1
    <3>. QED BY <1>8, <1>9, <3>1, <3>2
  <2>. QED BY <1>6, <1>9, <2>1
<1>11. ASSUME NEW i \in 1 .. n, NEW j \in 1 .. n, bs[i].day < bs[j].day, u[i] > 0
       PROVE  u[j] = bs[j].amount
  <2>. HIDE DEF used, pool, a
  <2>1. i < j
    <3>1. bs[i].day \in Nat /\ bs[j].day \in Nat
      BY <1>1, <1>2
    <3>2. ~ (j < i) /\ i # j
      BY <1>1, <1>11, <3>1
    <3>. QED BY <1>1, <3>2
  <2>2. pool[i] = 0 /\ i \in 0 .. n /\ j - 1 \in 0 .. n /\ j \in 0 .. n
    BY <1>6, <1>11
  <2>3. i <= j - 1 /\ i <= j
    BY <1>1, <2>1
  <2>4. pool[j-1] = 0 /\ pool[j] = 0
    BY <1>8, <2>2, <2>3
  <2>5. u[j] = a[j] - (pool[j-1] - pool[j])
    BY <1>6
  <2>. QED BY <1>3, <2>4, <2>5
<1>. DEFINE open == [i \in 0 .. n |-> SumFunctionOnSet(u, 1 .. i)]
            Bad == {i \in 0 .. n : open[i] # used[i] - total + pool[i]}
<1>12. ASSUME NEW i \in 1 .. n PROVE open[i] = open[i-1] + u[i] /\ open[i-1] \in Int
  <2>1. PICK k \in 0 .. n : k = i - 1 /\ k + 1 = i /\ k \in Nat
    BY <1>1
  <2>. HIDE DEF a, used, pool
  <2>2. u[k + 1] \in Int /\ \A x \in 1 .. k : u[x] \in Int /\ u[x] = u[x]
    BY <1>1, <1>6, <2>1
  <2>3. SumFunctionOnSet(u, 1 .. (k + 1)) = SumFunctionOnSet(u, 1 .. k) + u[k + 1]
    BY <2>1, <2>2, SumAppended
  <2>4. SumFunctionOnSet(u, 1 .. k) \in Int
    <3>1. IsFiniteSet(1 .. k)
      BY <2>1, FS_Interval
    <3>. QED BY <2>2, <3>1, SumIsInt
  <2>. QED BY <2>1, <2>3, <2>4
<1>13. ASSUME Bad # {} PROVE FALSE
  <2>1. PICK i \in Bad : \A x \in Bad : i <= x
    <3>1. IsFiniteSet(Bad)
      <4>1. IsFiniteSet(0 .. n)
        <5>1. 0 \in Int /\ n \in Int
          BY <1>1
        <5>. QED BY <5>1, FS_Interval
      <4>. QED BY <4>1, FS_Subset
    <3>2. \A x \in Bad : x \in Int
      BY <1>1
    <3>. HIDE DEF Bad
    <3>. QED BY <1>13, <3>1, <3>2, LeastOfFew
  <2>2. i \in 0 .. n /\ open[i] # used[i] - total + pool[i]
    OBVIOUS
  <2>. HIDE DEF a, used, pool
  <2>3. i # 0
    <3>1. 1 .. 0 = {} /\ 0 \in 0 .. n
      BY <1>1
    <3>2. open[0] = 0 /\ used[0] = 0
      BY <1>4, <3>1, SumOfNothing
    <3>3. pool[0] = total
      BY <1>4, <3>1, <3>2 DEF LeftOf
    <3>. QED BY <2>2, <3>2, <3>3
  <2>4. i \in 1 .. n /\ i - 1 \in 0 .. n /\ i - 1 \notin Bad
    BY <1>1, <2>1, <2>2, <2>3
  <2>5. open[i-1] = used[i-1] - total + pool[i-1]
    BY <2>4
  <2>6. /\ used[i] = used[i-1] + a[i] /\ u[i] = a[i] - (pool[i-1] - pool[i])
        /\ open[i] = open[i-1] + u[i]
    BY <1>6, <1>12, <2>4
  <2>7. used[i-1] \in Int /\ pool[i-1] \in Int /\ pool[i] \in Int /\ a[i] \in Int
    BY <1>3, <1>4, <1>5, <2>4
  <2>. HIDE DEF open, Bad
  <2>. QED BY <2>2, <2>5, <2>6, <2>7
<1>14. SumFunctionOnSet(u, 1 .. n) = used[n] - total + pool[n]
  <2>. HIDE DEF a, used, pool
  <2>1. open[n] = used[n] - total + pool[n]
    BY <1>9, <1>13
  <2>. QED BY <1>9, <2>1
<1>15. used[n] = Billed(B)
  <2>. DEFINE f == [b \in B |-> b.amount]
  <2>1. DOMAIN f = B /\ Billed(B) = SumFunctionOnSet(f, B)
    BY DEF Billed, SumFunction
  <2>2. \A i \in 1 .. n : a[i] = f[bs[i]] /\ a[i] \in Int
    BY <1>1, <1>3
  <2>. HIDE DEF f, a
  <2>3. SumFunctionOnSet(a, 1 .. n) = SumFunctionOnSet(f, B)
    BY <1>1, <2>2, SumInOrder
  <2>. QED BY <1>4, <1>9, <2>1, <2>3
<1>16. SumFunctionOnSet(u, 1 .. n) - Pool(bs, total)[n] = Billed(B) - total
  <2>1. used[n] \in Int /\ pool[n] \in Int
    BY <1>4, <1>9
  <2>. HIDE DEF a, used, pool
  <2>. QED BY <1>9, <1>14, <1>15, <2>1
<1>. QED BY <1>1, <1>9, <1>10, <1>11, <1>16

\* On any day the payments cover the bills oldest first, and the open bills
\* come to the balance (apply_payments against statement_lines).
LEMMA LedgerAddsUp == CreditTables => LedgerIsFifo
<1>. SUFFICES ASSUME CreditTables, NEW d \in Day
              PROVE  LET bs == OldestFirst(UpTo(d))
                         total == PaidUpTo(d)
                         left == [i \in DOMAIN bs |-> Unpaid(bs, total, i)]
                     IN  /\ \A i, j \in DOMAIN bs : bs[i].day < bs[j].day /\ left[i] > 0
                                => left[j] = bs[j].amount
                         /\ SumFunction(left) - Pool(bs, total)[Len(bs)] = Billed(UpTo(d)) - total
  BY DEF LedgerIsFifo
<1>1. PICK B : B = UpTo(d)
  OBVIOUS
<1>2. B \in SUBSET bills
  BY <1>1 DEF UpTo, Live
<1>3. PICK total \in Nat : total = PaidUpTo(d)
  <2>1. d \in Nat /\ 1 .. d \subseteq Day /\ \A x \in Day : collections[x] \in Nat
    BY CreditAssumption DEF Day, CreditTables, CreditTypeOK
  <2>2. IsFiniteSet(1 .. d)
    BY <2>1, FS_Interval
  <2>3. SumFunctionOnSet(collections, 1 .. d) \in Nat
    BY <2>1, <2>2, SumIsNat
  <2>. QED BY <2>3 DEF PaidUpTo
<1>4. PICK bs, n : bs = OldestFirst(B) /\ n = Cardinality(B)
  OBVIOUS
<1>. DEFINE u == [i \in 1 .. n |-> Unpaid(bs, total, i)]
<1>5. /\ n \in Nat /\ Len(bs) = n /\ bs \in [1 .. n -> B]
      /\ \A i, j \in 1 .. n : bs[i].day < bs[j].day /\ u[i] > 0 => u[j] = bs[j].amount
      /\ SumFunctionOnSet(u, 1 .. n) - Pool(bs, total)[n] = Billed(B) - total
  BY <1>2, <1>4, OldestAreCovered
<1>6. DOMAIN bs = 1 .. n
  BY <1>5
<1>7. SumFunction(u) = SumFunctionOnSet(u, 1 .. n)
  BY DEF SumFunction
<1>. QED BY <1>1, <1>3, <1>4, <1>5, <1>6, <1>7

\* A customer with an overdue bill owes (due_to_chase): what is open is not
\* covered by anything.
LEMMA OverdueOwes == CreditTables /\ Overdue => Balance > 0
<1>. SUFFICES ASSUME CreditTables, Overdue PROVE Balance > 0
  OBVIOUS
<1>1. PICK B : B = Live
  OBVIOUS
<1>2. B \in SUBSET bills
  BY <1>1 DEF Live
<1>3. PICK total \in Nat : total = PaidUpTo(LastDay)
  BY CreditTypes
<1>4. PICK bs, n : bs = OldestFirst(B) /\ n = Cardinality(B)
  OBVIOUS
<1>. DEFINE u == [i \in 1 .. n |-> Unpaid(bs, total, i)]
<1>5. /\ n \in Nat /\ bs \in [1 .. n -> B]
      /\ \A i \in 1 .. n : u[i] \in Nat /\ (u[i] > 0 => Pool(bs, total)[n] = 0)
      /\ SumFunctionOnSet(u, 1 .. n) - Pool(bs, total)[n] = Billed(B) - total
  BY <1>2, <1>4, OldestAreCovered
<1>6. PICK i \in 1 .. n : u[i] > 0
  <2>1. OldestUnpaid # NoPromise
    BY DEF Overdue
  <2>2. {i \in DOMAIN bs : Unpaid(bs, total, i) > 0} # {}
    BY <1>1, <1>3, <1>4, <2>1 DEF OldestUnpaid
  <2>3. DOMAIN bs = 1 .. n
    BY <1>5
  <2>. QED BY <2>2, <2>3
<1>7. SumFunctionOnSet(u, 1 .. n) \in Nat /\ u[i] <= SumFunctionOnSet(u, 1 .. n)
  <2>1. IsFiniteSet(1 .. n)
    BY <1>5, FS_Interval
  <2>2. \A x \in 1 .. n : u[x] \in Nat
    BY <1>5
  <2>. HIDE DEF u
  <2>. QED BY <2>1, <2>2, SumIsNat
<1>8. Balance = SumFunctionOnSet(u, 1 .. n)
  <2>1. Balance = Billed(B) - total
    BY <1>1, <1>3 DEF Balance
  <2>2. Pool(bs, total)[n] = 0
    BY <1>5, <1>6
  <2>. HIDE DEF u
  <2>. QED BY <1>5, <1>7, <2>1, <2>2
<1>9. u[i] \in Nat /\ u[i] > 0
  BY <1>5, <1>6
<1>. HIDE DEF u
<1>. QED BY <1>7, <1>8, <1>9

\* What holds in every state, of the parts of the promise that are said of one.
LEMMA CreditPromises ==
    CreditInv => FirstSaleOnce /\ PersonMadeOnce /\ LedgerIsFifo /\ NobodyForgotten
<1>. SUFFICES ASSUME CreditInv PROVE FirstSaleOnce /\ PersonMadeOnce /\ LedgerIsFifo /\ NobodyForgotten
  OBVIOUS
<1>1. CreditTables /\ PersonMadeOnce /\ OneFirstBill
  BY DEF CreditInv, CreditTables
<1>2. FirstSaleOnce
  <2>. SUFFICES ASSUME ~ mainPC PROVE Cardinality({b \in Live : b.how = "first"}) <= 1
    BY DEF FirstSaleOnce
  <2>. DEFINE F == {b \in Live : b.how = "first"}
  <2>1. \A a, b \in F : a = b
    BY <1>1 DEF OneFirstBill
  <2>2. CASE F = {}
    BY <2>2, FS_EmptySet
  <2>3. CASE F # {}
    <3>1. PICK a \in F : TRUE
      BY <2>3
    <3>2. F = {a}
      BY <2>1
    <3>3. Cardinality({a}) = 1
      BY FS_Singleton
    <3>. HIDE DEF F
    <3>4. Cardinality(F) <= 1
      BY <3>2, <3>3
    <3>. QED BY <3>4 DEF F
  <2>. QED BY <2>2, <2>3
<1>3. NobodyForgotten
  <2>1. ASSUME NEW f \in OpenFollowUps, Balance > 0, f.promise \in 1 .. today PROVE Chased
    <3>1. f.promise # NoPromise /\ f.promise <= today
      BY <1>1, <2>1, CreditTypes DEF NoPromise
    <3>. QED BY <2>1, <3>1 DEF Chased
  <2>2. ASSUME Overdue, OpenFollowUps = {} PROVE Chased
    BY <1>1, <2>2, OverdueOwes DEF Chased
  <2>. QED BY <2>1, <2>2 DEF NobodyForgotten
<1>. QED BY <1>1, <1>2, <1>3, LedgerAddsUp

\* What credit is trusted with: nobody owes more than was allowed, a person and
\* a first bill are made once, the ledger adds up and nobody who is late is
\* left off the list, for any bills, payments, days and sessions.
THEOREM CreditStaysControlled == CreditSpec => CreditIsControlled
<1>1. CreditInv /\ [CreditNext]_<<deskVars, creditVars>> =>
         [~ mainPC => WithinLimit]_<<deskVars, creditVars>>
  BY CreditInductive
<1>2. CreditInv /\ [CreditNext]_<<deskVars, creditVars>> =>
         [~ mainPC => OutcomesStand]_<<deskVars, creditVars>>
  BY CreditInductive
<1>3. CreditSpec => []FirstSaleOnce /\ []PersonMadeOnce /\ []LedgerIsFifo /\ []NobodyForgotten
  BY CreditPromises, CreditInductive, PTL DEF CreditSpec
<1>4. CreditSpec => [][~ mainPC => WithinLimit]_<<deskVars, creditVars>>
  BY <1>1, CreditInductive, PTL DEF CreditSpec
<1>5. CreditSpec => [][~ mainPC => OutcomesStand]_<<deskVars, creditVars>>
  BY <1>2, CreditInductive, PTL DEF CreditSpec
<1>6. CreditSpec => LimitKept
  BY <1>4 DEF LimitKept, WithinLimit
<1>7. CreditSpec => OutcomeStays
  BY <1>5 DEF OutcomeStays, OutcomesStand
<1>. QED BY <1>3, <1>6, <1>7 DEF CreditIsControlled

-----------------------------------------------------------------------------
(***************************************************************************)
(* All desks together (module MCBackOffice): the one a behaviour follows   *)
(* keeps its invariant, the tables of the others stay as they are.         *)
(***************************************************************************)

\* The more may be typed, the more sheets there are.
LEMMA TypedGrows ==
    ASSUME NEW O, NEW C, NEW T, NEW P, NEW H,
           NEW o \in SUBSET O, NEW c \in SUBSET C, NEW t \in SUBSET T, NEW p \in SUBSET P, NEW h \in SUBSET H
    PROVE  Typed(o, c, t, p, h) \subseteq Typed(O, C, T, P, H)
<1>1. ReadingsTyped(o, c) \subseteq ReadingsTyped(O, C)
  BY DEF ReadingsTyped
<1>2. ShiftCloseSheets(o, c) \subseteq ShiftCloseSheets(O, C)
  BY <1>1 DEF ShiftCloseSheets
<1>3. TotalsSheets(t) \subseteq TotalsSheets(T)
  BY DEF TotalsSheets
<1>4. {NoTotal} \cup {"Card"} \X t \subseteq {NoTotal} \cup {"Card"} \X T
  OBVIOUS
<1>5. CloseShiftSheets(o, c, t, p, h) \subseteq CloseShiftSheets(O, C, T, P, H)
  BY <1>1, <1>4 DEF CloseShiftSheets
<1>. QED BY <1>2, <1>3, <1>5 DEF Typed

\* What is typed in a run is among what can be typed.
LEMMA TypingIsCloseDesk ==
    /\ TypingNext(OnlyReadings) => CloseDeskNext
    /\ TypingNext(OneReading) => CloseDeskNext
<1>1. PICK All : All = Typed(0 .. MaxMeter, 0 .. MaxMeter, 1 .. 2, BOOLEAN, BOOLEAN)
  OBVIOUS
<1>2. /\ {0} \subseteq 0 .. MaxMeter /\ {1} \subseteq 0 .. MaxMeter /\ {1, 2} \subseteq 0 .. MaxMeter
      /\ {} \subseteq 1 .. 2 /\ 1 .. 2 \subseteq 1 .. 2
      /\ BOOLEAN \subseteq BOOLEAN /\ {FALSE} \subseteq BOOLEAN
  BY MeterAssumption, CloseDeskAssumption
<1>3. OnlyReadings \subseteq All
  BY <1>1, <1>2, TypedGrows DEF OnlyReadings
<1>4. OneReading \subseteq All
  <2>1. ASSUME NEW M, NEW K, NEW B, {0} \subseteq M, {1} \subseteq M, {FALSE} \subseteq B
        PROVE  Typed({0}, {1}, K, {FALSE}, B) \subseteq Typed(M, M, K, B, B)
    <3>1. /\ {0} \in SUBSET M /\ {1} \in SUBSET M /\ K \in SUBSET K
          /\ {FALSE} \in SUBSET B /\ B \in SUBSET B
      BY <2>1
    <3>. QED BY <3>1, TypedGrows
  <2>2. Typed({0}, {1}, 1 .. 2, {FALSE}, BOOLEAN) \subseteq
            Typed(0 .. MaxMeter, 0 .. MaxMeter, 1 .. 2, BOOLEAN, BOOLEAN)
    BY <1>2, <2>1, Zenon
  <2>. QED BY <1>1, <2>2 DEF OneReading
<1>5. ASSUME NEW typed \in SUBSET All, TypingNext(typed) PROVE TypingNext(All)
  BY <1>5 DEF TypingNext, DeskRead
<1>. QED BY <1>1, <1>3, <1>4, <1>5 DEF CloseDeskNext

\* Of a desk that is not followed only the tables are known.
OfficeInv ==
    /\ DesksInv
    /\ followed \in OneWindow => ~ mainPC
    /\ IF followed = "payroll" THEN PayrollInv ELSE PayrollTypeOK
    /\ IF followed = "procurement" THEN ProcurementInv ELSE ProcurementTypeOK
    /\ IF followed \in {"sign in", "passwords"} THEN SignInInv ELSE SignInTypeOK
    /\ IF followed \in {"selling", "collecting"} THEN CreditInv ELSE CreditTypeOK
    /\ IF followed \in {"statement", "matching"} THEN BankInv ELSE BankTypeOK
    /\ IF followed \in {"readings", "totals", "cash book"} THEN CloseDeskInv ELSE CloseDeskTypeOK
    /\ IF followed = "reconciliation" THEN ReconciliationInv ELSE ReconciliationTypeOK
    /\ IF followed = "leave" THEN LeaveInv ELSE LeaveTypeOK
    /\ IF followed = "tank" THEN TankBookInv ELSE TankBookTypeOK
    /\ IF followed = "bowser" THEN BowserInv ELSE BowserTypeOK
    /\ IF followed \in {"nozzles", "prices"} THEN PumpsInv ELSE PumpsTypeOK

\* What a desk's invariant says of its tables.
LEMMA OfficeTypes ==
    /\ PayrollInv => PayrollTypeOK /\ DesksInv
    /\ ProcurementInv => ProcurementTypeOK /\ DesksInv
    /\ SignInInv => (~ mainPC => SignInTypeOK) /\ DesksInv
    /\ CreditInv => CreditTypeOK /\ DesksInv
    /\ BankInv => (~ mainPC => BankTypeOK) /\ DesksInv
    /\ CloseDeskInv => CloseDeskTypeOK /\ DesksInv
    /\ ReconciliationInv => ReconciliationTypeOK /\ DesksInv
    /\ LeaveInv => LeaveTypeOK /\ DesksInv
    /\ TankBookInv => TankBookTypeOK /\ DesksInv
    /\ BowserInv => BowserTypeOK /\ DesksInv
    /\ PumpsInv => PumpsTypeOK /\ DesksInv
<1>1. PayrollInv => PayrollTypeOK /\ DesksInv
  BY DEF PayrollInv, PayrollTables
<1>2. ProcurementInv => ProcurementTypeOK /\ DesksInv
  BY DEF ProcurementInv
<1>3. SignInInv => (~ mainPC => SignInTypeOK) /\ DesksInv
  BY DEF SignInInv, SignInTables
<1>4. CreditInv => CreditTypeOK /\ DesksInv
  BY DEF CreditInv, CreditTables
<1>5. BankInv => (~ mainPC => BankTypeOK) /\ DesksInv
  BY BankSafe DEF BankInv
<1>6. CloseDeskInv => CloseDeskTypeOK /\ DesksInv
  BY DEF CloseDeskInv, CloseDeskTables
<1>7. ReconciliationInv => ReconciliationTypeOK /\ DesksInv
  BY DEF ReconciliationInv, ReconciliationTables
<1>8. LeaveInv => LeaveTypeOK /\ DesksInv
  BY DEF LeaveInv, LeaveTables
<1>9. TankBookInv => TankBookTypeOK /\ DesksInv
  BY DEF TankBookInv, TankBookTables
<1>10. BowserInv => BowserTypeOK /\ DesksInv
  BY DEF BowserInv, BowserTables
<1>11. PumpsInv => PumpsTypeOK /\ DesksInv
  BY DEF PumpsInv, PumpsTables
<1>. QED BY <1>1, <1>2, <1>3, <1>4, <1>5, <1>6, <1>7, <1>8, <1>9, <1>10, <1>11

\* The accounts as the sign-in screen finds them.
LEMMA SignInStarts == SignInInit => SignInTypeOK
<1>1. ASSUME SignInInit PROVE SignInTypeOK
  <2>1. /\ account = [active |-> TRUE, locked |-> FALSE, at |-> 0, failed |-> 0, code |-> 0,
                      password |-> 1, must |-> TRUE]
        /\ locks = 0 /\ lapsed = {} /\ given = 0 /\ chooser = <<"administrator">>
    BY <1>1 DEF SignInInit, NoStamp, NoResetCode
  <2>2. /\ MaxFailedLoginAttempts \in Nat \ {0} /\ MaxLocks \in Nat /\ MaxResetCodes \in Nat
    BY SignInAssumption
  <2>. QED BY <2>1, <2>2 DEF SignInTypeOK
<1>. QED BY <1>1

\* Tables as a desk begins with, when nothing is read yet.
LEMMA OfficeStarts ==
    ASSUME MCInit
    PROVE  /\ PayrollInv /\ ProcurementInv /\ SignInInv /\ SignInTypeOK /\ CreditInv
           /\ BankInv /\ BankTypeOK /\ CloseDeskInv /\ ReconciliationInv /\ LeaveInv
           /\ TankBookInv /\ BowserInv /\ PumpsInv
<1>1. /\ PayrollInv /\ ProcurementInv /\ SignInInv /\ CreditInv /\ BankInv
      /\ CloseDeskInv /\ ReconciliationInv /\ LeaveInv /\ TankBookInv /\ BowserInv /\ PumpsInv
  BY PayrollInductive, ProcurementInductive, SignInInductive, CreditInductive, BankInductive,
     CloseDeskInductive, ReconciliationInductive, LeaveInductive, TankBookInductive,
     BowserInductive, PumpsInductive DEF MCInit
<1>2. BankTypeOK
  BY BankSafe DEF MCInit
<1>3. SignInTypeOK
  BY SignInStarts DEF MCInit
<1>. QED BY <1>1, <1>2, <1>3

\* A table that no step touches keeps its type.
LEMMA OfficeAtRest ==
    /\ PayrollTypeOK /\ UNCHANGED payrollVars /\ mainPC' = mainPC => PayrollTypeOK'
    /\ ProcurementTypeOK /\ UNCHANGED procurementVars => ProcurementTypeOK'
    /\ SignInTypeOK /\ UNCHANGED signInVars => SignInTypeOK'
    /\ CreditTypeOK /\ UNCHANGED creditVars => CreditTypeOK'
    /\ BankTypeOK /\ UNCHANGED bankVars => BankTypeOK'
    /\ CloseDeskTypeOK /\ UNCHANGED closeDeskVars => CloseDeskTypeOK'
    /\ ReconciliationTypeOK /\ UNCHANGED reconciliationVars => ReconciliationTypeOK'
    /\ LeaveTypeOK /\ UNCHANGED leaveVars => LeaveTypeOK'
    /\ TankBookTypeOK /\ UNCHANGED tankBookVars => TankBookTypeOK'
    /\ BowserTypeOK /\ UNCHANGED bowserVars => BowserTypeOK'
    /\ PumpsTypeOK /\ UNCHANGED pumpVars => PumpsTypeOK'
<1>1. PayrollTypeOK /\ UNCHANGED payrollVars /\ mainPC' = mainPC => PayrollTypeOK'
  BY DEF PayrollTypeOK, payrollVars
<1>2. ProcurementTypeOK /\ UNCHANGED procurementVars => ProcurementTypeOK'
  BY DEF ProcurementTypeOK, procurementVars
<1>3. SignInTypeOK /\ UNCHANGED signInVars => SignInTypeOK'
  BY DEF SignInTypeOK, signInVars, attemptVars
<1>4. CreditTypeOK /\ UNCHANGED creditVars => CreditTypeOK'
  BY DEF CreditTypeOK, creditVars
<1>5. BankTypeOK /\ UNCHANGED bankVars => BankTypeOK'
  BY DEF BankTypeOK, bankVars
<1>6. CloseDeskTypeOK /\ UNCHANGED closeDeskVars => CloseDeskTypeOK'
  BY DEF CloseDeskTypeOK, closeDeskVars
<1>7. ReconciliationTypeOK /\ UNCHANGED reconciliationVars => ReconciliationTypeOK'
  BY DEF ReconciliationTypeOK, reconciliationVars
<1>8. LeaveTypeOK /\ UNCHANGED leaveVars => LeaveTypeOK'
  BY DEF LeaveTypeOK, leaveVars
<1>9. TankBookTypeOK /\ UNCHANGED tankBookVars => TankBookTypeOK'
  BY DEF TankBookTypeOK, tankBookVars
<1>10. BowserTypeOK /\ UNCHANGED bowserVars => BowserTypeOK'
  BY DEF BowserTypeOK, bowserVars
<1>11. PumpsTypeOK /\ UNCHANGED pumpVars => PumpsTypeOK'
  BY DEF PumpsTypeOK, pumpVars, nozzleVars, priceVars
<1>. QED BY <1>1, <1>2, <1>3, <1>4, <1>5, <1>6, <1>7, <1>8, <1>9, <1>10, <1>11

\* No request of the payroll makes or unmakes a Main PC.
LEMMA PayrollFixesMainPC ==
    PayrollNext => UNCHANGED mainPC
<1>1. RecordAdvance => UNCHANGED mainPC
  BY DEF RecordAdvance, AtOnce, deskVars
<1>2. RecordShortage => UNCHANGED mainPC
  BY DEF RecordShortage, AtOnce, deskVars
<1>3. RecordRecovery => UNCHANGED mainPC
  BY DEF RecordRecovery, AtOnce, deskVars
<1>4. PrepareMonth => UNCHANGED mainPC
  BY DEF PrepareMonth, AtOnce, deskVars
<1>5. NextMonth => UNCHANGED mainPC
  BY DEF NextMonth, deskVars
<1>6. ASSUME NEW s, VoidAdvanceRead(s) PROVE UNCHANGED mainPC
  BY <1>6 DEF VoidAdvanceRead, Begin
<1>7. ASSUME NEW s, VoidAdvanceWrite(s) PROVE UNCHANGED mainPC
  BY <1>7 DEF VoidAdvanceWrite, End
<1>8. ASSUME NEW s, SetDeductionsRead(s) PROVE UNCHANGED mainPC
  BY <1>8 DEF SetDeductionsRead, Begin
<1>9. ASSUME NEW s, SetDeductionsWrite(s) PROVE UNCHANGED mainPC
  BY <1>9 DEF SetDeductionsWrite, End
<1>10. ASSUME NEW s, ApproveRead(s) PROVE UNCHANGED mainPC
  BY <1>10 DEF ApproveRead, Begin
<1>11. ASSUME NEW s, ApproveWrite(s) PROVE UNCHANGED mainPC
  BY <1>11 DEF ApproveWrite, End
<1>12. ASSUME NEW s, PayRead(s) PROVE UNCHANGED mainPC
  BY <1>12 DEF PayRead, Begin
<1>13. ASSUME NEW s, PayWrite(s) PROVE UNCHANGED mainPC
  BY <1>13 DEF PayWrite, End
<1>14. ASSUME NEW s, VoidPaymentRead(s) PROVE UNCHANGED mainPC
  BY <1>14 DEF VoidPaymentRead, Begin
<1>15. ASSUME NEW s, VoidPaymentWrite(s) PROVE UNCHANGED mainPC
  BY <1>15 DEF VoidPaymentWrite, End
<1>16. ASSUME NEW s, GiveUp(s) PROVE UNCHANGED mainPC
  BY <1>16 DEF GiveUp, End
<1>. QED BY <1>1, <1>2, <1>3, <1>4, <1>5, <1>6, <1>7, <1>8, <1>9, <1>10, <1>11, <1>12, <1>13, <1>14, <1>15, <1>16 DEF PayrollNext

\* No request of procurement makes or unmakes a Main PC.
LEMMA ProcurementFixesMainPC ==
    ProcurementNext => UNCHANGED mainPC
<1>1. SetSupplierStatus => UNCHANGED mainPC
  BY DEF SetSupplierStatus, AtOnce, deskVars
<1>2. CreateInvoice => UNCHANGED mainPC
  BY DEF CreateInvoice, AtOnce, deskVars
<1>3. Issue => UNCHANGED mainPC
  BY DEF Issue, deskVars
<1>4. ASSUME NEW s, CreateOrderRead(s) PROVE UNCHANGED mainPC
  BY <1>4 DEF CreateOrderRead, Begin
<1>5. ASSUME NEW s, CreateOrderWrite(s) PROVE UNCHANGED mainPC
  BY <1>5 DEF CreateOrderWrite, End
<1>6. ASSUME NEW s, CancelOrderRead(s) PROVE UNCHANGED mainPC
  BY <1>6 DEF CancelOrderRead, Begin
<1>7. ASSUME NEW s, CancelOrderWrite(s) PROVE UNCHANGED mainPC
  BY <1>7 DEF CancelOrderWrite, End
<1>8. ASSUME NEW s, ArrivalRead(s) PROVE UNCHANGED mainPC
  BY <1>8 DEF ArrivalRead, Begin
<1>9. ASSUME NEW s, ArrivalWrite(s) PROVE UNCHANGED mainPC
  BY <1>9 DEF ArrivalWrite, End
<1>10. ASSUME NEW s, StepRead(s) PROVE UNCHANGED mainPC
  BY <1>10 DEF StepRead, Begin
<1>11. ASSUME NEW s, StepWrite(s) PROVE UNCHANGED mainPC
  BY <1>11 DEF StepWrite, End
<1>12. ASSUME NEW s, PreDipRead(s) PROVE UNCHANGED mainPC
  BY <1>12 DEF PreDipRead, Begin
<1>13. ASSUME NEW s, PreDipWrite(s) PROVE UNCHANGED mainPC
  BY <1>13 DEF PreDipWrite, End
<1>14. ASSUME NEW s, UnloadRead(s) PROVE UNCHANGED mainPC
  BY <1>14 DEF UnloadRead, Begin
<1>15. ASSUME NEW s, UnloadWrite(s) PROVE UNCHANGED mainPC
  BY <1>15 DEF UnloadWrite, End
<1>16. ASSUME NEW s, PaymentRead(s) PROVE UNCHANGED mainPC
  BY <1>16 DEF PaymentRead, Begin
<1>17. ASSUME NEW s, PaymentWrite(s) PROVE UNCHANGED mainPC
  BY <1>17 DEF PaymentWrite, End
<1>18. ASSUME NEW s, GiveUp(s) PROVE UNCHANGED mainPC
  BY <1>18 DEF GiveUp, End
<1>. QED BY <1>1, <1>2, <1>3, <1>4, <1>5, <1>6, <1>7, <1>8, <1>9, <1>10, <1>11, <1>12, <1>13, <1>14, <1>15, <1>16, <1>17, <1>18 DEF ProcurementNext

\* No request of the sign-in screen makes or unmakes a Main PC.
LEMMA SignInFixesMainPC ==
    (SignInNext \/ PasswordNext) => UNCHANGED mainPC
<1>1. Lapse => UNCHANGED mainPC
  BY DEF Lapse, deskVars
<1>2. SetUserActive => UNCHANGED mainPC
  BY DEF SetUserActive, AtOnce, deskVars
<1>3. GenerateResetCode => UNCHANGED mainPC
  BY DEF GenerateResetCode, AtOnce, deskVars
<1>4. ASSUME NEW s, AttemptRead(s) PROVE UNCHANGED mainPC
  BY <1>4 DEF AttemptRead, Begin
<1>5. ASSUME NEW s, LiftLapsed(s) PROVE UNCHANGED mainPC
  BY <1>5 DEF LiftLapsed
<1>6. ASSUME NEW s, AttemptBlocked(s) PROVE UNCHANGED mainPC
  BY <1>6 DEF AttemptBlocked, End
<1>7. ASSUME NEW s, AttemptFails(s) PROVE UNCHANGED mainPC
  BY <1>7 DEF AttemptFails, End
<1>8. ASSUME NEW s, AttemptSucceeds(s) PROVE UNCHANGED mainPC
  BY <1>8 DEF AttemptSucceeds, End
<1>9. ASSUME NEW s, UnlockRead(s) PROVE UNCHANGED mainPC
  BY <1>9 DEF UnlockRead, Begin
<1>10. ASSUME NEW s, UnlockWrite(s) PROVE UNCHANGED mainPC
  BY <1>10 DEF UnlockWrite, End
<1>11. ASSUME NEW s, UseCodeRead(s) PROVE UNCHANGED mainPC
  BY <1>11 DEF UseCodeRead, Begin
<1>12. ASSUME NEW s, UseCodeWrite(s) PROVE UNCHANGED mainPC
  BY <1>12 DEF UseCodeWrite, End
<1>13. ASSUME NEW s, ResetRead(s) PROVE UNCHANGED mainPC
  BY <1>13 DEF ResetRead, Begin
<1>14. ASSUME NEW s, ResetWrite(s) PROVE UNCHANGED mainPC
  BY <1>14 DEF ResetWrite, End
<1>15. ASSUME NEW s, ChangeRead(s) PROVE UNCHANGED mainPC
  BY <1>15 DEF ChangeRead, Begin
<1>16. ASSUME NEW s, ChangeWrite(s) PROVE UNCHANGED mainPC
  BY <1>16 DEF ChangeWrite, End
<1>17. ASSUME NEW s, GiveUp(s) PROVE UNCHANGED mainPC
  BY <1>17 DEF GiveUp, End
<1>. QED BY <1>1, <1>2, <1>3, <1>4, <1>5, <1>6, <1>7, <1>8, <1>9, <1>10, <1>11, <1>12, <1>13, <1>14, <1>15, <1>16, <1>17 DEF SignInNext, PasswordNext

\* No request of the credit desk makes or unmakes a Main PC.
LEMMA CreditFixesMainPC ==
    CreditNext => UNCHANGED mainPC
<1>1. SetCreditLimit => UNCHANGED mainPC
  BY DEF SetCreditLimit, AtOnce, deskVars
<1>2. DecideCustomer => UNCHANGED mainPC
  BY DEF DecideCustomer, AtOnce, deskVars
<1>3. BowserBill => UNCHANGED mainPC
  BY DEF BowserBill, AtOnce, deskVars
<1>4. CancelBill => UNCHANGED mainPC
  BY DEF CancelBill, AtOnce, deskVars
<1>5. RecordPayment => UNCHANGED mainPC
  BY DEF RecordPayment, AtOnce, deskVars
<1>6. ASSUME NEW s, OpenAccountRead(s) PROVE UNCHANGED mainPC
  BY <1>6 DEF OpenAccountRead, Begin
<1>7. ASSUME NEW s, OpenAccountWrite(s) PROVE UNCHANGED mainPC
  BY <1>7 DEF OpenAccountWrite
<1>8. ASSUME NEW s, OpenAccountApproval(s) PROVE UNCHANGED mainPC
  BY <1>8 DEF OpenAccountApproval, End
<1>9. ASSUME NEW s, CounterRead(s) PROVE UNCHANGED mainPC
  BY <1>9 DEF CounterRead, Begin
<1>10. ASSUME NEW s, CounterWrite(s) PROVE UNCHANGED mainPC
  BY <1>10 DEF CounterWrite, End
<1>11. ASSUME NEW s, AuthorizeSale(s) PROVE UNCHANGED mainPC
  BY <1>11 DEF AuthorizeSale, Begin
<1>12. ASSUME NEW s, EnsureCredit(s) PROVE UNCHANGED mainPC
  BY <1>12 DEF EnsureCredit
<1>13. ASSUME NEW s, RecordSale(s) PROVE UNCHANGED mainPC
  BY <1>13 DEF RecordSale, End
<1>14. AddFollowUp => UNCHANGED mainPC
  BY DEF AddFollowUp, AtOnce, deskVars
<1>15. NextDay => UNCHANGED mainPC
  BY DEF NextDay, deskVars
<1>16. ASSUME NEW s, CloseFollowUpRead(s) PROVE UNCHANGED mainPC
  BY <1>16 DEF CloseFollowUpRead, Begin
<1>17. ASSUME NEW s, CloseFollowUpWrite(s) PROVE UNCHANGED mainPC
  BY <1>17 DEF CloseFollowUpWrite, End
<1>18. ASSUME NEW s, GiveUp(s) PROVE UNCHANGED mainPC
  BY <1>18 DEF GiveUp, End
<1>. QED BY <1>1, <1>2, <1>3, <1>4, <1>5, <1>6, <1>7, <1>8, <1>9, <1>10, <1>11, <1>12, <1>13, <1>14, <1>15, <1>16, <1>17, <1>18 DEF CreditNext, SellingNext, CollectingNext

\* No request of the bank screen makes or unmakes a Main PC.
LEMMA BankFixesMainPC ==
    BankNext => UNCHANGED mainPC
<1>1. ImportStatement => UNCHANGED mainPC
  BY DEF ImportStatement, AtOnce, deskVars
<1>2. RecordSource => UNCHANGED mainPC
  BY DEF RecordSource, AtOnce, deskVars
<1>3. ChangeSource => UNCHANGED mainPC
  BY DEF ChangeSource, AtOnce, deskVars
<1>4. ASSUME NEW s, RunRead(s) PROVE UNCHANGED mainPC
  BY <1>4 DEF RunRead, Begin
<1>5. ASSUME NEW s, RunWrite(s) PROVE UNCHANGED mainPC
  BY <1>5 DEF RunWrite, End
<1>6. ASSUME NEW s, AnswerRead(s) PROVE UNCHANGED mainPC
  BY <1>6 DEF AnswerRead, Begin
<1>7. ASSUME NEW s, AnswerWrite(s) PROVE UNCHANGED mainPC
  BY <1>7 DEF AnswerWrite, End
<1>8. ASSUME NEW s, LockRead(s) PROVE UNCHANGED mainPC
  BY <1>8 DEF LockRead, Begin
<1>9. ASSUME NEW s, LockWrite(s) PROVE UNCHANGED mainPC
  BY <1>9 DEF LockWrite, End
<1>10. ASSUME NEW s, ManualRead(s) PROVE UNCHANGED mainPC
  BY <1>10 DEF ManualRead, Begin
<1>11. ASSUME NEW s, ManualWrite(s) PROVE UNCHANGED mainPC
  BY <1>11 DEF ManualWrite, End
<1>12. ASSUME NEW s, GiveUp(s) PROVE UNCHANGED mainPC
  BY <1>12 DEF GiveUp, End
<1>. QED BY <1>1, <1>2, <1>3, <1>4, <1>5, <1>6, <1>7, <1>8, <1>9, <1>10, <1>11, <1>12 DEF BankNext, StatementNext, MatchingNext

\* No request of the close desk makes or unmakes a Main PC.
LEMMA CloseDeskFixesMainPC ==
    CloseDeskNext => UNCHANGED mainPC
<1>1. CreateShift => UNCHANGED mainPC
  BY DEF CreateShift, AtOnce, deskVars
<1>2. ReopenShift => UNCHANGED mainPC
  BY DEF ReopenShift, AtOnce, deskVars
<1>3. DtpSale => UNCHANGED mainPC
  BY DEF DtpSale, AtOnce, deskVars
<1>4. RecordMovements => UNCHANGED mainPC
  BY DEF RecordMovements, AtOnce, deskVars
<1>5. ASSUME NEW s, NEW typed, DeskRead(s, typed) PROVE UNCHANGED mainPC
  BY <1>5 DEF DeskRead, Begin
<1>6. ASSUME NEW s, DeskWrite(s) PROVE UNCHANGED mainPC
  BY <1>6 DEF DeskWrite, End
<1>7. ASSUME NEW s, Preview(s) PROVE UNCHANGED mainPC
  BY <1>7 DEF Preview, End
<1>8. MoveCash => UNCHANGED mainPC
  BY DEF MoveCash, AtOnce, deskVars
<1>9. ASSUME NEW s, GiveUp(s) PROVE UNCHANGED mainPC
  BY <1>9 DEF GiveUp, End
<1>. QED BY <1>1, <1>2, <1>3, <1>4, <1>5, <1>6, <1>7, <1>8, <1>9 DEF CloseDeskNext, TypingNext, CashBookNext

\* No request of the reconciliation makes or unmakes a Main PC.
LEMMA ReconciliationFixesMainPC ==
    ReconciliationNext => UNCHANGED mainPC
<1>1. Sell => UNCHANGED mainPC
  BY DEF Sell, AtOnce, deskVars
<1>2. CancelSale => UNCHANGED mainPC
  BY DEF CancelSale, AtOnce, deskVars
<1>3. CreateExpense => UNCHANGED mainPC
  BY DEF CreateExpense, AtOnce, deskVars
<1>4. ApproveExpense => UNCHANGED mainPC
  BY DEF ApproveExpense, AtOnce, deskVars
<1>5. RejectExpense => UNCHANGED mainPC
  BY DEF RejectExpense, AtOnce, deskVars
<1>6. ApproveReconciliation => UNCHANGED mainPC
  BY DEF ApproveReconciliation, AtOnce, deskVars
<1>7. ASSUME NEW s, ReconcileRead(s) PROVE UNCHANGED mainPC
  BY <1>7 DEF ReconcileRead, Begin
<1>8. ASSUME NEW s, ReconcileWrite(s) PROVE UNCHANGED mainPC
  BY <1>8 DEF ReconcileWrite, End
<1>9. ASSUME NEW s, ShortageRead(s) PROVE UNCHANGED mainPC
  BY <1>9 DEF ShortageRead, Begin
<1>10. ASSUME NEW s, ShortageWrite(s) PROVE UNCHANGED mainPC
  BY <1>10 DEF ShortageWrite, End
<1>11. ASSUME NEW s, GiveUp(s) PROVE UNCHANGED mainPC
  BY <1>11 DEF GiveUp, End
<1>. QED BY <1>1, <1>2, <1>3, <1>4, <1>5, <1>6, <1>7, <1>8, <1>9, <1>10, <1>11 DEF ReconciliationNext

\* No request of the leave screen makes or unmakes a Main PC.
LEMMA LeaveFixesMainPC ==
    LeaveNext => UNCHANGED mainPC
<1>1. ASSUME NEW s, RequestRead(s) PROVE UNCHANGED mainPC
  BY <1>1 DEF RequestRead, Begin
<1>2. ASSUME NEW s, RequestWrite(s) PROVE UNCHANGED mainPC
  BY <1>2 DEF RequestWrite, End
<1>3. ASSUME NEW s, DecideRead(s) PROVE UNCHANGED mainPC
  BY <1>3 DEF DecideRead, Begin
<1>4. ASSUME NEW s, DecideWrite(s) PROVE UNCHANGED mainPC
  BY <1>4 DEF DecideWrite, End
<1>5. ASSUME NEW s, MarkRead(s) PROVE UNCHANGED mainPC
  BY <1>5 DEF MarkRead, Begin
<1>6. ASSUME NEW s, MarkWrite(s) PROVE UNCHANGED mainPC
  BY <1>6 DEF MarkWrite, End
<1>7. ASSUME NEW s, CorrectRead(s) PROVE UNCHANGED mainPC
  BY <1>7 DEF CorrectRead, Begin
<1>8. ASSUME NEW s, CorrectWrite(s) PROVE UNCHANGED mainPC
  BY <1>8 DEF CorrectWrite, End
<1>9. ASSUME NEW s, GiveUp(s) PROVE UNCHANGED mainPC
  BY <1>9 DEF GiveUp, End
<1>. QED BY <1>1, <1>2, <1>3, <1>4, <1>5, <1>6, <1>7, <1>8, <1>9 DEF LeaveNext

\* No request of the tank book makes or unmakes a Main PC.
LEMMA TankBookFixesMainPC ==
    TankBookNext => UNCHANGED mainPC
<1>1. Leak => UNCHANGED mainPC
  BY DEF Leak, AtOnce, deskVars
<1>2. BookDayPasses => UNCHANGED mainPC
  BY DEF BookDayPasses, AtOnce, deskVars
<1>3. ASSUME NEW s, MoveRead(s) PROVE UNCHANGED mainPC
  BY <1>3 DEF MoveRead, Begin
<1>4. ASSUME NEW s, MoveWrite(s) PROVE UNCHANGED mainPC
  BY <1>4 DEF MoveWrite, End
<1>5. ASSUME NEW s, DipRead(s) PROVE UNCHANGED mainPC
  BY <1>5 DEF DipRead, Begin
<1>6. ASSUME NEW s, DipWrite(s) PROVE UNCHANGED mainPC
  BY <1>6 DEF DipWrite, End
<1>7. ASSUME NEW s, GiveUp(s) PROVE UNCHANGED mainPC
  BY <1>7 DEF GiveUp, End
<1>. QED BY <1>1, <1>2, <1>3, <1>4, <1>5, <1>6, <1>7 DEF TankBookNext

\* No request of the bowser makes or unmakes a Main PC.
LEMMA BowserFixesMainPC ==
    BowserNext => UNCHANGED mainPC
<1>1. CancelTransferSale => UNCHANGED mainPC
  BY DEF CancelTransferSale, AtOnce, deskVars
<1>2. ASSUME NEW s, TransferRead(s) PROVE UNCHANGED mainPC
  BY <1>2 DEF TransferRead, Begin
<1>3. ASSUME NEW s, TransferWrite(s) PROVE UNCHANGED mainPC
  BY <1>3 DEF TransferWrite, End
<1>4. ASSUME NEW s, BillRead(s) PROVE UNCHANGED mainPC
  BY <1>4 DEF BillRead, Begin
<1>5. ASSUME NEW s, BillWrite(s) PROVE UNCHANGED mainPC
  BY <1>5 DEF BillWrite, End
<1>6. ASSUME NEW s, VoidBillRead(s) PROVE UNCHANGED mainPC
  BY <1>6 DEF VoidBillRead, Begin
<1>7. ASSUME NEW s, VoidBillWrite(s) PROVE UNCHANGED mainPC
  BY <1>7 DEF VoidBillWrite, End
<1>8. ASSUME NEW s, DailyRead(s) PROVE UNCHANGED mainPC
  BY <1>8 DEF DailyRead, Begin
<1>9. ASSUME NEW s, MeterWrite(s) PROVE UNCHANGED mainPC
  BY <1>9 DEF MeterWrite, End
<1>10. ASSUME NEW s, OpeningWrite(s) PROVE UNCHANGED mainPC
  BY <1>10 DEF OpeningWrite, End
<1>11. ASSUME NEW s, GiveUp(s) PROVE UNCHANGED mainPC
  BY <1>11 DEF GiveUp, End
<1>. QED BY <1>1, <1>2, <1>3, <1>4, <1>5, <1>6, <1>7, <1>8, <1>9, <1>10, <1>11 DEF BowserNext

\* No request of the nozzles and prices makes or unmakes a Main PC.
LEMMA PumpsFixesMainPC ==
    (NozzlesNext \/ PricesNext) => UNCHANGED mainPC
<1>1. SetDispenserStatus => UNCHANGED mainPC
  BY DEF SetDispenserStatus, AtOnce, deskVars
<1>2. EndAssignment => UNCHANGED mainPC
  BY DEF EndAssignment, AtOnce, deskVars
<1>3. SetLimit => UNCHANGED mainPC
  BY DEF SetLimit, AtOnce, deskVars
<1>4. ASSUME NEW s, CreateNozzleRead(s) PROVE UNCHANGED mainPC
  BY <1>4 DEF CreateNozzleRead, Begin
<1>5. ASSUME NEW s, CreateNozzleWrite(s) PROVE UNCHANGED mainPC
  BY <1>5 DEF CreateNozzleWrite, End
<1>6. ASSUME NEW s, SetNozzleRead(s) PROVE UNCHANGED mainPC
  BY <1>6 DEF SetNozzleRead, Begin
<1>7. ASSUME NEW s, SetNozzleWrite(s) PROVE UNCHANGED mainPC
  BY <1>7 DEF SetNozzleWrite, End
<1>8. ASSUME NEW s, AssignRead(s) PROVE UNCHANGED mainPC
  BY <1>8 DEF AssignRead, Begin
<1>9. ASSUME NEW s, AssignWrite(s) PROVE UNCHANGED mainPC
  BY <1>9 DEF AssignWrite, End
<1>10. ASSUME NEW s, SetRateRead(s) PROVE UNCHANGED mainPC
  BY <1>10 DEF SetRateRead, Begin
<1>11. ASSUME NEW s, SetRateWrite(s) PROVE UNCHANGED mainPC
  BY <1>11 DEF SetRateWrite, End
<1>12. ASSUME NEW s, SaleRead(s) PROVE UNCHANGED mainPC
  BY <1>12 DEF SaleRead, Begin
<1>13. ASSUME NEW s, SaleWrite(s) PROVE UNCHANGED mainPC
  BY <1>13 DEF SaleWrite, End
<1>14. ASSUME NEW s, GiveUp(s) PROVE UNCHANGED mainPC
  BY <1>14 DEF GiveUp, End
<1>. QED BY <1>1, <1>2, <1>3, <1>4, <1>5, <1>6, <1>7, <1>8, <1>9, <1>10, <1>11, <1>12, <1>13, <1>14 DEF NozzlesNext, PricesNext

\* Which desk a step belongs to: the one followed, or none.
LEMMA OfficeStep ==
    ASSUME [MCNext]_mcVars
    PROVE  /\ followed' = followed
           /\ UNCHANGED deskVars \/ followed \in MCModes
           /\ followed = "payroll" => [PayrollNext]_<<deskVars, payrollVars>>
           /\ followed = "procurement" => [ProcurementNext]_<<deskVars, procurementVars>>
           /\ followed \in {"sign in", "passwords"} =>
                 [SignInNext \/ PasswordNext]_<<deskVars, signInVars>>
           /\ followed \in {"selling", "collecting"} => [CreditNext]_<<deskVars, creditVars>>
           /\ followed \in {"statement", "matching"} => [BankNext]_<<deskVars, bankVars>>
           /\ followed \in {"readings", "totals", "cash book"} =>
                 [CloseDeskNext]_<<deskVars, closeDeskVars>>
           /\ followed = "reconciliation" => [ReconciliationNext]_<<deskVars, reconciliationVars>>
           /\ followed = "leave" => [LeaveNext]_<<deskVars, leaveVars>>
           /\ followed = "tank" => [TankBookNext]_<<deskVars, tankBookVars>>
           /\ followed = "bowser" => [BowserNext]_<<deskVars, bowserVars>>
           /\ followed \in {"nozzles", "prices"} => [NozzlesNext \/ PricesNext]_<<deskVars, pumpVars>>
<1>1. CASE UNCHANGED mcVars
  BY <1>1 DEF mcVars, deskTables, figuresVars, siteVars
<1>2. CASE MCNext
  <2>1. followed' = followed /\ followed \in MCModes
    BY <1>2 DEF MCNext, MCModes
  <2>2. /\ followed = "payroll" => PayrollNext
        /\ followed = "procurement" => ProcurementNext
        /\ followed = "sign in" => SignInNext
        /\ followed = "passwords" => PasswordNext
        /\ followed = "selling" => SellingNext
        /\ followed = "collecting" => CollectingNext
        /\ followed = "statement" => StatementNext
        /\ followed = "matching" => BankNext
    BY <1>2 DEF MCNext
  <2>3. /\ followed = "readings" => TypingNext(OnlyReadings)
        /\ followed = "totals" => TypingNext(OneReading)
        /\ followed = "cash book" => CashBookNext
        /\ followed = "reconciliation" => ReconciliationNext
        /\ followed = "leave" => LeaveNext
        /\ followed = "tank" => TankBookNext
        /\ followed = "bowser" => BowserNext
        /\ followed = "nozzles" => NozzlesNext
        /\ followed = "prices" => PricesNext
    BY <1>2 DEF MCNext
  <2>4. followed \in {"selling", "collecting"} => CreditNext
    BY <2>2 DEF CreditNext
  <2>5. followed \in {"statement", "matching"} => BankNext
    BY <2>2 DEF BankNext
  <2>6. followed \in {"readings", "totals", "cash book"} => CloseDeskNext
    BY <2>3, TypingIsCloseDesk DEF CloseDeskNext
  <2>. QED BY <2>1, <2>2, <2>3, <2>4, <2>5, <2>6
<1>. QED BY <1>1, <1>2

\* ... and whose tables it leaves alone.
LEMMA OfficeRest ==
    ASSUME [MCNext]_mcVars
    PROVE  /\ followed # "payroll" => UNCHANGED payrollVars
           /\ followed # "procurement" => UNCHANGED procurementVars
           /\ followed \notin {"sign in", "passwords"} => UNCHANGED signInVars
           /\ followed \notin {"selling", "collecting"} => UNCHANGED creditVars
           /\ followed \notin {"statement", "matching"} => UNCHANGED bankVars
           /\ followed \notin {"readings", "totals", "cash book"} => UNCHANGED closeDeskVars
           /\ followed # "reconciliation" => UNCHANGED reconciliationVars
           /\ followed # "leave" => UNCHANGED leaveVars
           /\ followed # "tank" => UNCHANGED tankBookVars
           /\ followed # "bowser" => UNCHANGED bowserVars
           /\ followed \notin {"nozzles", "prices"} => UNCHANGED pumpVars
BY DEF MCNext, mcVars, deskTables, figuresVars, siteVars

\* Every desk together.
LEMMA OfficeInductive ==
    /\ MCInit => OfficeInv
    /\ OfficeInv /\ [MCNext]_mcVars => OfficeInv'
<1>1. ASSUME MCInit PROVE OfficeInv
  <2>1. followed \in OneWindow => ~ mainPC
    BY <1>1 DEF MCInit
  <2>. QED BY <1>1, <2>1, OfficeStarts, OfficeTypes DEF OfficeInv
<1>2. ASSUME OfficeInv, [MCNext]_mcVars PROVE OfficeInv'
  <2>1. followed' = followed /\ (UNCHANGED deskVars \/ followed \in MCModes)
    BY <1>2, OfficeStep
  <2>2. mainPC' = mainPC
    <3>1. UNCHANGED deskVars => mainPC' = mainPC
      BY DEF deskVars
    <3>2. CASE followed \in {"payroll", "procurement", "sign in", "passwords", "selling", "collecting"}
      BY <1>2, <3>1, <3>2, OfficeStep, PayrollFixesMainPC, ProcurementFixesMainPC,
         SignInFixesMainPC, CreditFixesMainPC
    <3>3. CASE followed \in {"statement", "matching", "readings", "totals", "cash book", "reconciliation"}
      BY <1>2, <3>1, <3>3, OfficeStep, BankFixesMainPC, CloseDeskFixesMainPC,
         ReconciliationFixesMainPC
    <3>4. CASE followed \in {"leave", "tank", "bowser", "nozzles", "prices"}
      BY <1>2, <3>1, <3>4, OfficeStep, LeaveFixesMainPC, TankBookFixesMainPC,
         BowserFixesMainPC, PumpsFixesMainPC
    <3>. QED BY <2>1, <3>1, <3>2, <3>3, <3>4 DEF MCModes
  <2>3. IF followed = "payroll" THEN PayrollInv' /\ DesksInv' ELSE PayrollTypeOK'
    <3>1. PayrollInv' => DesksInv'
      BY DEF PayrollInv
    <3>. QED BY <1>2, <2>2, <3>1, OfficeStep, OfficeRest, PayrollInductive, OfficeAtRest DEF OfficeInv
  <2>4. IF followed = "procurement" THEN ProcurementInv' /\ DesksInv' ELSE ProcurementTypeOK'
    <3>1. ProcurementInv' => DesksInv'
      BY DEF ProcurementInv
    <3>. QED BY <1>2, <3>1, OfficeStep, OfficeRest, ProcurementInductive, OfficeAtRest DEF OfficeInv
  <2>5. IF followed \in {"sign in", "passwords"} THEN SignInInv' /\ DesksInv' ELSE SignInTypeOK'
    <3>1. SignInInv' => DesksInv'
      BY DEF SignInInv
    <3>. QED BY <1>2, <3>1, OfficeStep, OfficeRest, SignInInductive, OfficeAtRest DEF OfficeInv
  <2>6. IF followed \in {"selling", "collecting"} THEN CreditInv' /\ DesksInv' ELSE CreditTypeOK'
    <3>1. CreditInv' => DesksInv'
      BY DEF CreditInv
    <3>. QED BY <1>2, <3>1, OfficeStep, OfficeRest, CreditInductive, OfficeAtRest DEF OfficeInv
  <2>7. IF followed \in {"statement", "matching"} THEN BankInv' /\ DesksInv' ELSE BankTypeOK'
    <3>1. BankInv' => DesksInv'
      BY DEF BankInv
    <3>. QED BY <1>2, <3>1, OfficeStep, OfficeRest, BankInductive, OfficeAtRest DEF OfficeInv
  <2>8. IF followed \in {"readings", "totals", "cash book"} THEN CloseDeskInv' /\ DesksInv' ELSE CloseDeskTypeOK'
    <3>1. CloseDeskInv' => DesksInv'
      BY DEF CloseDeskInv
    <3>. QED BY <1>2, <3>1, OfficeStep, OfficeRest, CloseDeskInductive, OfficeAtRest DEF OfficeInv
  <2>9. IF followed = "reconciliation" THEN ReconciliationInv' /\ DesksInv' ELSE ReconciliationTypeOK'
    <3>1. ReconciliationInv' => DesksInv'
      BY DEF ReconciliationInv
    <3>. QED BY <1>2, <3>1, OfficeStep, OfficeRest, ReconciliationInductive, OfficeAtRest DEF OfficeInv
  <2>10. IF followed = "leave" THEN LeaveInv' /\ DesksInv' ELSE LeaveTypeOK'
    <3>1. LeaveInv' => DesksInv'
      BY DEF LeaveInv
    <3>. QED BY <1>2, <3>1, OfficeStep, OfficeRest, LeaveInductive, OfficeAtRest DEF OfficeInv
  <2>11. IF followed = "tank" THEN TankBookInv' /\ DesksInv' ELSE TankBookTypeOK'
    <3>1. TankBookInv' => DesksInv'
      BY DEF TankBookInv
    <3>. QED BY <1>2, <3>1, OfficeStep, OfficeRest, TankBookInductive, OfficeAtRest DEF OfficeInv
  <2>12. IF followed = "bowser" THEN BowserInv' /\ DesksInv' ELSE BowserTypeOK'
    <3>1. BowserInv' => DesksInv'
      BY DEF BowserInv
    <3>. QED BY <1>2, <3>1, OfficeStep, OfficeRest, BowserInductive, OfficeAtRest DEF OfficeInv
  <2>13. IF followed \in {"nozzles", "prices"} THEN PumpsInv' /\ DesksInv' ELSE PumpsTypeOK'
    <3>1. PumpsInv' => DesksInv'
      BY DEF PumpsInv
    <3>. QED BY <1>2, <3>1, OfficeStep, OfficeRest, PumpsInductive, OfficeAtRest DEF OfficeInv
  <2>14. DesksInv'
    <3>1. UNCHANGED deskVars => DesksInv'
      BY <1>2, DesksStay DEF OfficeInv
    <3>. QED BY <2>1, <3>1, <2>3, <2>4, <2>5, <2>6, <2>7, <2>8, <2>9, <2>10, <2>11, <2>12, <2>13 DEF MCModes
  <2>15. followed' \in OneWindow => ~ mainPC'
    BY <1>2, <2>1, <2>2 DEF OfficeInv
  <2>. QED BY <2>1, <2>3, <2>4, <2>5, <2>6, <2>7, <2>8, <2>9, <2>10, <2>11, <2>12, <2>13,
              <2>14, <2>15 DEF OfficeInv
<1>. QED BY <1>1, <1>2

\* Whatever desk of the office is worked at, in the Qt window or by the
\* overlapping requests of a Main PC, the rows of every desk stay of the kinds
\* that their models declare: no service stores a status, an amount or a
\* reference that its table could not hold.
THEOREM BackOfficeKeepsTypes == MCSpec => []BackOfficeTypeOK
<1>1. OfficeInv => BackOfficeTypeOK
  <2>1. OfficeInv => ~ mainPC \/ followed \notin {"sign in", "passwords", "statement", "matching"}
    BY DEF OfficeInv, OneWindow
  <2>. QED BY <2>1, OfficeTypes DEF OfficeInv, BackOfficeTypeOK
<1>. QED BY <1>1, OfficeInductive, PTL DEF MCSpec

=============================================================================
