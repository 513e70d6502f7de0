---------------------------- MODULE EntryReview ----------------------------
(***************************************************************************)
(* The review chain of one shift: EntryWorkflowService, and the            *)
(* before_flush listener of entry_lock_guard.py that every other service's *)
(* writes pass through.                                                    *)
(*                                                                         *)
(* Both read the ShiftEntry before the transaction's first write, so       *)
(* without any lock, and act on what they read; from the first write to    *)
(* the commit nobody else can write (module WriteLock).  So the read is    *)
(* one action and everything up to the commit is another.                  *)
(***************************************************************************)
EXTENDS Naturals, Sequences

CONSTANTS
    Session,     \* database sessions: one per request being served
    User,        \* accountants and owners
    NoUser,      \* the guard's own events have no user
    Gated,       \* ResourceVersions is installed: Main PC only
    TwoOwners,   \* owner_lock_rule = "two_owners"
    MaxFigures,  \* bound: changes of the shift's figures
    MaxEvents    \* bound: events in the entry's history

ASSUME EntryReviewAssumption ==
    /\ NoUser \notin User
    /\ Gated \in BOOLEAN
    /\ TwoOwners \in BOOLEAN
    /\ MaxFigures \in Nat
    /\ MaxEvents \in Nat

VARIABLES
    status,   \* ShiftEntry.status, "none" while the shift has no entry
    events,   \* its ShiftEntryEvents
    figures,  \* counts the committed changes of the guarded rows
    request   \* what each session is doing and the status it has read

vars == <<status, events, figures, request>>

\* The first two rungs fall back to Entered by themselves; Locked does not.
Stamped == {"verified", "approved"}
Statuses == {"none", "entered", "locked"} \cup Stamped

\* The moves up the chain, and the owner's correction.
Moves == {"verify", "approve", "lock", "reopen"}
Climbs == Moves \ {"reopen"}

\* Requests that change the shift's rows: the desk also starts the chain.
Saves == {"save", "desk"}

Actions == {"entered", "verified", "approved", "locked", "reopened",
            "data_changed"}

\* figures is not stored: it notes what the shift's rows were at the time.
Events == [from : Statuses, to : Statuses, action : Actions,
           by : User \cup {NoUser}, figures : Nat]

Idle == [at |-> "idle", kind |-> "none", read |-> "none", by |-> NoUser]
Requests == [at : {"idle", "read", "cleared"},
             kind : Moves \cup Saves \cup {"none"},
             read : Statuses, by : User \cup {NoUser}]

TypeOK ==
    /\ status \in Statuses
    /\ events \in Seq(Events)
    /\ figures \in Nat
    /\ request \in [Session -> Requests]
    /\ \A s \in Session : request[s].at # "idle" =>
        request[s].kind # "none" /\ request[s].by \in User
    /\ \A i \in DOMAIN events :
        events[i].by = NoUser <=> events[i].action = "data_changed"

Init ==
    /\ status = "none"
    /\ events = <<>>
    /\ figures = 0
    /\ request = [s \in Session |-> Idle]

\* The record a request's URL names, which one request at a time may change.
Resource(k) ==
    IF k \in Moves THEN "entries" ELSE IF k = "desk" THEN "close-shift" ELSE "none"

Admitted(k) ==
    Gated /\ Resource(k) # "none" =>
        \A t \in Session : Resource(request[t].kind) # Resource(k)

\* A session takes a request up to and including its read of the entry.
Reads(s, k, u) ==
    /\ request[s] = Idle
    /\ Admitted(k)
    /\ request' = [request EXCEPT ![s] =
            [at |-> "read", kind |-> k, read |-> status, by |-> u]]
    /\ UNCHANGED <<status, events, figures>>

Event(from, to, action, by) ==
    [from |-> from, to |-> to, action |-> action, by |-> by,
     figures |-> figures']

Ends(s) == request' = [request EXCEPT ![s] = Idle]

-----------------------------------------------------------------------------
(***************************************************************************)
(* Bugs this code could have had: each replaces one definition below when  *)
(* the properties are tested for being able to fail.                       *)
(***************************************************************************)

\* The guard lets an approved shift's figures change under the stamp.
GuardOnlyVerified(seen) == IF seen = "verified" THEN "entered" ELSE status

\* The guard's event names the status it sets, not the one it found.
GuardedEventsAfter(seen) ==
    IF seen \in Stamped
    THEN Append(events, Event("entered", "entered", "data_changed", NoUser))
    ELSE events

\* The guard's event names whoever saved.
GuardedEventsSigned(seen) ==
    IF seen \in Stamped
    THEN Append(events, Event(seen, "entered", "data_changed",
                              CHOOSE u \in User : TRUE))
    ELSE events

\* An owner may approve what nobody has verified.
NeededUnverified == [verify |-> "entered", approve |-> "entered", lock |-> "approved"]

\* The first approver of the history is compared, not the last.
LockComparesFirst(s) ==
    /\ request[s].at = "read" /\ request[s].kind = "lock"
    /\ TwoOwners => \A i \in DOMAIN events :
        /\ events[i].action = "approved"
        /\ \A j \in 1..(i - 1) : events[j].action # "approved"
        => events[i].by # request[s].by
    /\ request' = [request EXCEPT ![s] = [@ EXCEPT !.at = "cleared"]]
    /\ UNCHANGED <<status, events, figures>>

-----------------------------------------------------------------------------

\* The status each move requires, the one it leads to and its event.
Needed == [verify |-> "entered", approve |-> "verified", lock |-> "approved"]
Reached == [verify |-> "verified", approve |-> "approved", lock |-> "locked",
            reopen |-> "entered"]
Named == [verify |-> "verified", approve |-> "approved", lock |-> "locked",
          reopen |-> "reopened"]

\* What a flush of guarded rows makes of the entry when its guard saw seen.
GuardedStatus(seen) == IF seen \in Stamped THEN "entered" ELSE status
GuardedEvents(seen) ==
    IF seen \in Stamped
    THEN Append(events, Event(seen, "entered", "data_changed", NoUser))
    ELSE events

\* Who approved last, as lock reads it from the history.
LastApproverIsNot(u) ==
    \A i \in DOMAIN events :
        /\ events[i].action = "approved"
        /\ \A j \in DOMAIN events : j > i => events[j].action # "approved"
        => events[i].by # u

\* The guard's look at the entry, ahead of the first flush: a locked shift
\* is refused.  The desk with an empty form has only mark_entered's look.
SaveReads(s) ==
    /\ status # "locked"
    /\ \E u \in User, k \in Saves : Reads(s, k, u)

\* The rows are written with what the first guard saw; when another guarded
\* row follows in the same transaction the guard looks again, now with
\* nobody else writing.  The desk's mark_entered comes last.
SaveCommits(s) ==
    /\ request[s].at = "read" /\ request[s].kind \in Saves
    /\ figures < MaxFigures /\ Len(events) + 1 < MaxEvents
    /\ figures' = figures + 1
    /\ \E seen \in {request[s].read,
                    IF request[s].read \in Stamped THEN request[s].read
                                                   ELSE status} :
        /\ seen # "locked"
        /\ IF request[s].kind = "desk" /\ GuardedStatus(seen) = "none"
           THEN /\ status' = "entered"
                /\ events' = Append(GuardedEvents(seen),
                        Event("none", "entered", "entered", request[s].by))
           ELSE /\ status' = GuardedStatus(seen)
                /\ events' = GuardedEvents(seen)
    /\ Ends(s)

\* The desk saved with nothing typed: mark_entered alone writes, and the
\* unique shift_id refuses a second entry.
DeskMarksEntered(s) ==
    /\ request[s].at = "read" /\ request[s].kind = "desk"
    /\ request[s].read = "none" /\ status = "none"
    /\ Len(events) < MaxEvents
    /\ UNCHANGED figures
    /\ status' = "entered"
    /\ events' = Append(events, Event("none", "entered", "entered", request[s].by))
    /\ Ends(s)

\* _require, and reopen's own check.
MoveReads(s) ==
    \E u \in User, k \in Moves :
        /\ IF k = "reopen" THEN status \notin {"none", "entered"}
                           ELSE status = Needed[k]
        /\ Reads(s, k, u)

\* lock, after its checks: under two_owners the last approver, read from the
\* history now, may not be the one who locks.
LockCompares(s) ==
    /\ request[s].at = "read" /\ request[s].kind = "lock"
    /\ TwoOwners => LastApproverIsNot(request[s].by)
    /\ request' = [request EXCEPT ![s] = [@ EXCEPT !.at = "cleared"]]
    /\ UNCHANGED <<status, events, figures>>

\* _move: the new status replaces whatever the row holds by now, and the
\* event starts from the status that was read.
MoveCommits(s) ==
    LET k == request[s].kind IN
    /\ k \in Moves
    /\ request[s].at = IF k = "lock" THEN "cleared" ELSE "read"
    /\ Len(events) < MaxEvents
    /\ UNCHANGED figures
    /\ status' = Reached[k]
    /\ events' = Append(events,
            Event(request[s].read, Reached[k], Named[k], request[s].by))
    /\ Ends(s)

\* A refusal after the read (a failing check without a reason, the same
\* owner), an error, or the process dying: nothing was committed.
Abandon(s) ==
    /\ request[s] # Idle
    /\ Ends(s)
    /\ UNCHANGED <<status, events, figures>>

Step(s) ==
    \/ SaveReads(s) \/ SaveCommits(s) \/ DeskMarksEntered(s)
    \/ MoveReads(s) \/ LockCompares(s) \/ MoveCommits(s) \/ Abandon(s)

Next == \E s \in Session : Step(s)

Spec == Init /\ [][Next]_vars

-----------------------------------------------------------------------------

\* The history accounts for the status: each event starts where the one
\* before it ended, and the last one ends where the entry is
\* (models/shift_entry.py: "how a figure came to be locked stays visible").
HistoryExplainsStatus ==
    LET n == Len(events) IN
    /\ status = IF n = 0 THEN "none" ELSE events[n].to
    /\ \A i \in 1..n :
        events[i].from = IF i = 1 THEN "none" ELSE events[i - 1].to

\* A stamp describes the figures as they are now: the last moves of the
\* history are the whole climb to the present status, each of them made
\* when the figures were what they are
\* (entry_workflow_service.py, "a Verified stamp always describes ...").
StampDescribesFigures ==
    LET n == Len(events)
        climb == <<"verified", "approved", "locked">>
    IN \A k \in 1..3 : status = climb[k] =>
        /\ n > k
        /\ \A i \in 1..k : /\ events[n - k + i].action = climb[i]
                           /\ events[n - k + i].figures = figures

\* Under two_owners the owner who locked a shift is not the one whose
\* approval was the last before it.
DifferentOwners ==
    TwoOwners /\ status = "locked" =>
        /\ events # <<>>
        /\ events[Len(events)].action = "locked"
        /\ LastApproverIsNot(events[Len(events)].by)

\* A locked shift stays as it was locked until an owner reopens it
\* (entry_lock_guard.py, "the only way back from LOCKED").
LockedIsFinal ==
    [][status = "locked" =>
        /\ figures' = figures
        /\ status' = "locked" \/ events'[Len(events')].action = "reopened"
      ]_<<status, figures>>

\* The review chain as the accountant and the owners are told it works.
Chain == INSTANCE ReviewChain
ReviewChainSpec == Chain!Spec

-----------------------------------------------------------------------------
(***************************************************************************)
(* The inductive invariants behind these properties (proved in             *)
(* EntryReviewProofs).                                                     *)
(***************************************************************************)

\* Requests are served one at a time.
OneSession == \A s, t \in Session : s = t

\* What a request read is still so when it commits.
ReadsAreFresh ==
    \A s \in Session : request[s].at # "idle" =>
        /\ request[s].read = status
        /\ request[s].kind \in Climbs => status = Needed[request[s].kind]
        /\ request[s].kind = "reopen" => status \in Stamped \cup {"locked"}

\* One review move at a time, and the one who is cleared to lock did not
\* make the last approval.
MovesTakeTurns ==
    /\ \A s, t \in Session :
        request[s].kind \in Moves /\ request[t].kind \in Moves => s = t
    /\ \A s \in Session : request[s].at = "cleared" =>
        /\ request[s].kind = "lock"
        /\ TwoOwners => LastApproverIsNot(request[s].by)

=============================================================================
