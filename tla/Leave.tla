-------------------------------- MODULE Leave --------------------------------
(***************************************************************************)
(* The leave requests and the attendance of one employee                   *)
(* (app/services/leave_service.py, attendance_service.py): a request is    *)
(* made, decided once, and an approval marks its days; days are marked by  *)
(* hand and corrected.  POST /leave and POST /attendance name no record,   *)
(* deciding names the request and correcting the day.                      *)
(***************************************************************************)
EXTENDS Desks, Integers, FiniteSets

CONSTANTS LastLeaveDay,   \* bound: days 1 .. LastLeaveDay
          MaxLeaves,      \* bound: requests made
          ByHand,         \* the statuses people mark and correct a day to
          Unmarked        \* attendance of a day without a row

ASSUME LeaveAssumption ==
    /\ LastLeaveDay \in Nat \ {0} /\ MaxLeaves \in Nat
    /\ ByHand \subseteq {"present", "absent", "leave"}
    /\ Unmarked \notin {"present", "absent", "leave"}
    /\ \A n \in 1 .. MaxLeaves : NoRecord # <<"leave", n>>

VARIABLES leaves,      \* LeaveRequest rows
          attendance,  \* status of the Attendance row of each day, or Unmarked
          corrected    \* history: days whose mark of an approval was corrected since

leaveVars == <<leaves, attendance, corrected>>

LeaveDay == 1 .. LastLeaveDay
Mark == {"present", "absent", "leave"}

\* Active: pending or approved.
Standing(r) == r.status \in {"pending", "approved"}

\* Bug: a request that begins on another's last day is let through.
OverlapsInside(r, from, to) == r.from < to /\ r.to > from

\* list_overlapping_active.
Overlaps(r, from, to) == r.from <= to /\ r.to >= from

-----------------------------------------------------------------------------
(* Requests for leave.                                                     *)

RequestRead(s) ==
    /\ Cardinality(leaves) < MaxLeaves
    /\ \E from, to \in LeaveDay :
           /\ from <= to
           /\ \A r \in leaves : Standing(r) => ~Overlaps(r, from, to)
           /\ Begin(s, [kind |-> "request", key |-> NoRecord, from |-> from, to |-> to])
    /\ UNCHANGED leaveVars

RequestWrite(s) ==
    /\ Runs(s, "request")
    /\ Cardinality(leaves) < MaxLeaves
    /\ leaves' = leaves \cup {[id |-> Cardinality(leaves) + 1, from |-> job[s].from,
                              to |-> job[s].to, status |-> "pending"]}
    /\ End(s)
    /\ UNCHANGED <<attendance, corrected>>

\* Bug: a request that was turned down can still be approved.
MayDecideAgain(r) == r.status # "approved"

\* Only a pending request is decided.
MayDecide(r) == r.status = "pending"

DecideRead(s) ==
    /\ \E r \in leaves, status \in {"approved", "rejected", "cancelled"} :
           /\ MayDecide(r)
           /\ Begin(s, [kind |-> "decide", key |-> <<"leave", r.id>>, leave |-> r,
                        status |-> status])
    /\ UNCHANGED leaveVars

\* Bug: the last day of the request is left out.
ToMarkBefore(r) == r.from .. (r.to - 1)

\* _date_range: both ends included.
ToMark(r) == r.from .. r.to

\* An approval marks every day of the request, whatever was there, in the
\* same commit (apply_leave_as_related_action).
DecideWrite(s) ==
    /\ Runs(s, "decide")
    /\ LET r == job[s].leave
           days == IF job[s].status = "approved" THEN ToMark(r) ELSE {}
       IN  /\ leaves' = {IF q.id = r.id THEN [q EXCEPT !.status = job[s].status] ELSE q :
                         q \in leaves}
           /\ attendance' = [d \in LeaveDay |-> IF d \in days THEN "leave" ELSE attendance[d]]
           /\ corrected' = corrected \ days
    /\ End(s)

-----------------------------------------------------------------------------
(* Attendance.                                                             *)

MarkRead(s) ==
    /\ \E d \in LeaveDay, mark \in ByHand :
           /\ attendance[d] = Unmarked
           /\ Begin(s, [kind |-> "mark", key |-> NoRecord, day |-> d, mark |-> mark])
    /\ UNCHANGED leaveVars

\* Bug: without the constraint the day is marked a second time.
NotTakenAlways(d) == TRUE

\* uq_attendance_employee_date.
NotTaken(d) == attendance[d] = Unmarked

\* One row a day: a second one is refused by the database.
MarkWrite(s) ==
    /\ Runs(s, "mark")
    /\ NotTaken(job[s].day)
    /\ attendance' = [attendance EXCEPT ![job[s].day] = job[s].mark]
    /\ End(s)
    /\ UNCHANGED <<leaves, corrected>>

CorrectRead(s) ==
    /\ \E d \in LeaveDay, mark \in ByHand :
           /\ attendance[d] # Unmarked
           /\ Begin(s, [kind |-> "correct", key |-> <<"attendance", d>>, day |-> d,
                        mark |-> mark, seen |-> attendance[d]])
    /\ UNCHANGED leaveVars

\* A status that is what was read is no change and is not written.
CorrectWrite(s) ==
    /\ Runs(s, "correct")
    /\ LET d == job[s].day IN
           IF job[s].mark = job[s].seen
           THEN UNCHANGED <<attendance, corrected>>
           ELSE /\ attendance' = [attendance EXCEPT ![d] = job[s].mark]
                /\ corrected' = corrected \cup {d}
    /\ End(s)
    /\ UNCHANGED leaves

-----------------------------------------------------------------------------
LeaveInit ==
    /\ leaves = {}
    /\ attendance = [d \in LeaveDay |-> Unmarked]
    /\ corrected = {}

LeaveNext ==
    \E s \in Session :
        \/ RequestRead(s) \/ RequestWrite(s)
        \/ DecideRead(s) \/ DecideWrite(s)
        \/ MarkRead(s) \/ MarkWrite(s)
        \/ CorrectRead(s) \/ CorrectWrite(s)
        \/ GiveUp(s) /\ UNCHANGED leaveVars

LeaveSpec == DesksInit /\ LeaveInit /\ [][LeaveNext]_<<deskVars, leaveVars>>

-----------------------------------------------------------------------------
(* Properties.                                                             *)

LeaveRow == [id : 1 .. MaxLeaves, from : LeaveDay, to : LeaveDay,
             status : {"pending", "approved", "rejected", "cancelled"}]

\* Every row has the values its table allows.
LeaveTypeOK ==
    /\ leaves \subseteq LeaveRow
    /\ attendance \in [LeaveDay -> Mark \cup {Unmarked}]
    /\ corrected \subseteq LeaveDay

\* In one window nobody has two requests standing for the same day
\* (leave_request_repository.list_overlapping_active).
OneLeaveADay ==
    ~mainPC => \A q, r \in leaves :
        /\ Standing(q) /\ Standing(r)
        /\ (q.from .. q.to) \cap (r.from .. r.to) # {}
        => q = r

\* Every day of an approved request is marked as leave, or was corrected
\* since, however marking, correcting and approving overlap
\* (approve_leave_request: "or none do").
LeaveIsMarked ==
    \A r \in leaves : r.status = "approved" =>
        \A d \in r.from .. r.to : attendance[d] = "leave" \/ d \in corrected

\* A request that was decided is never decided again, also when two PCs
\* decide at once (models/leave_request.py: "Never edited once decided").
DecidedForGood == [][\A r \in leaves : r.status # "pending" => r \in leaves']_<<deskVars, leaveVars>>

\* What leave is trusted with: it is granted once for a day, marked whole, and
\* stays decided.
LeaveIsTakenAsDecided ==
    /\ []OneLeaveADay
    /\ []LeaveIsMarked
    /\ DecidedForGood

\* attendance_service.py:115: a correction keeps the "old value", "never a
\* silent overwrite".  A correction that read the day before an approval marked
\* it records the older value and writes over the leave.
SawWhatItReplaces ==
    [][\A s \in Session : Runs(s, "correct") /\ attendance' # attendance /\ job'[s] = Idle =>
           job[s].seen = attendance[job[s].day]]_<<deskVars, leaveVars>>

=============================================================================
