------------------------- MODULE EntryReviewProofs -------------------------
(***************************************************************************)
(* TypeCorrect and DifferentApprover hold however many sessions there are; *)
(* that stamps describe the figures, that the history explains the status  *)
(* and that the review chain is implemented holds when requests are served *)
(* one at a time, and not otherwise (run locked_shift_changed).            *)
(***************************************************************************)
EXTENDS EntryReview, TLAPS

\* The steps of one session, by what they do to the entry.
LEMMA StepCases ==
    ASSUME [Next]_vars
    PROVE  \/ \E s \in Session : SaveReads(s)
           \/ \E s \in Session : SaveCommits(s)
           \/ \E s \in Session : DeskMarksEntered(s)
           \/ \E s \in Session : MoveReads(s)
           \/ \E s \in Session : LockCompares(s)
           \/ \E s \in Session : MoveCommits(s)
           \/ \E s \in Session : Abandon(s)
           \/ UNCHANGED vars
BY DEF Next, Step

-----------------------------------------------------------------------------

\* An event made of its parts is an event.
LEMMA EventTyped ==
    ASSUME NEW from \in Statuses, NEW to \in Statuses, NEW action \in Actions,
           NEW by \in User \cup {NoUser}, figures' \in Nat
    PROVE  Event(from, to, action, by) \in Events
BY DEF Event, Events

\* Every event but the guard's is signed; appending such a one keeps it so.
LEMMA SignedAppended ==
    ASSUME NEW es \in Seq(Events), NEW e \in Events,
           \A i \in DOMAIN es : es[i].by = NoUser <=> es[i].action = "data_changed",
           e.by = NoUser <=> e.action = "data_changed"
    PROVE  /\ Append(es, e) \in Seq(Events)
           /\ \A i \in DOMAIN Append(es, e) :
                Append(es, e)[i].by = NoUser
                    <=> Append(es, e)[i].action = "data_changed"
<1>1. Append(es, e) \in Seq(Events)
    OBVIOUS
<1>2. ASSUME NEW i \in DOMAIN Append(es, e)
      PROVE  Append(es, e)[i] = e \/ (i \in DOMAIN es /\ Append(es, e)[i] = es[i])
    OBVIOUS
<1> QED
    BY <1>1, <1>2

\* The guard's event, if any, leaves a well-formed history.
LEMMA GuardTyped ==
    ASSUME TypeOK, EntryReviewAssumption, figures' \in Nat, NEW seen \in Statuses
    PROVE  /\ GuardedStatus(seen) \in Statuses
           /\ GuardedEvents(seen) \in Seq(Events)
           /\ \A i \in DOMAIN GuardedEvents(seen) :
                GuardedEvents(seen)[i].by = NoUser
                    <=> GuardedEvents(seen)[i].action = "data_changed"
<1>1. GuardedStatus(seen) \in Statuses
    BY DEF TypeOK, GuardedStatus, Statuses
<1> DEFINE e == Event(seen, "entered", "data_changed", NoUser)
<1>2. e \in Events
    BY EventTyped DEF Statuses, Actions
<1>3. e.by = NoUser <=> e.action = "data_changed"
    BY DEF Event
<1> HIDE DEF e
<1>4. /\ Append(events, e) \in Seq(Events)
      /\ \A i \in DOMAIN Append(events, e) :
            Append(events, e)[i].by = NoUser
                <=> Append(events, e)[i].action = "data_changed"
    BY <1>2, <1>3, SignedAppended DEF TypeOK
<1>5. GuardedEvents(seen) \in {events, Append(events, e)}
    BY DEF GuardedEvents, e
<1> QED
    BY <1>1, <1>4, <1>5 DEF TypeOK

\* What a session is doing, once it has read the entry.
RequestTyped ==
    /\ request \in [Session -> Requests]
    /\ \A s \in Session : request[s].at # "idle" =>
        request[s].kind # "none" /\ request[s].by \in User

\* A request that reads the entry is well formed.
LEMMA ReadsTyped ==
    ASSUME TypeOK, NEW s \in Session, NEW k \in Moves \cup Saves, NEW u \in User,
           Reads(s, k, u)
    PROVE  RequestTyped'
<1> DEFINE r == [at |-> "read", kind |-> k, read |-> status, by |-> u]
<1>1. r \in Requests /\ r.kind # "none" /\ r.by \in User
    BY DEF TypeOK, Requests, Moves, Saves
<1>2. request' = [request EXCEPT ![s] = r]
    BY DEF Reads
<1> HIDE DEF r
<1> QED
    BY <1>1, <1>2 DEF TypeOK, RequestTyped

\* A request that ends leaves its session idle.
LEMMA EndsTyped ==
    ASSUME TypeOK, NEW s \in Session, Ends(s)
    PROVE  RequestTyped'
<1>1. Idle \in Requests /\ Idle.at = "idle"
    BY DEF Idle, Requests, Statuses
<1>2. request' = [request EXCEPT ![s] = Idle]
    BY DEF Ends
<1> QED
    BY <1>1, <1>2 DEF TypeOK, RequestTyped

\* Types are kept by every step: however a save falls between the moves,
\* the history stays a sequence of signed events.
LEMMA TypeStep ==
    ASSUME TypeOK, EntryReviewAssumption, [Next]_vars
    PROVE  TypeOK'
<1>1. ASSUME NEW s \in Session, SaveReads(s) PROVE TypeOK'
    <2>1. PICK u \in User, k \in Saves : Reads(s, k, u)
        BY <1>1 DEF SaveReads
    <2>2. RequestTyped'
        BY <2>1, ReadsTyped
    <2>3. UNCHANGED <<status, events, figures>>
        BY <2>1 DEF Reads
    <2> QED
        BY <2>2, <2>3 DEF TypeOK, RequestTyped
<1>2. ASSUME NEW s \in Session, SaveCommits(s) PROVE TypeOK'
    <2>1. RequestTyped' /\ figures' \in Nat
        BY <1>2, EndsTyped DEF SaveCommits, TypeOK
    <2>2. request[s].read \in Statuses /\ status \in Statuses
        BY DEF TypeOK, Requests
    <2>3. request[s].by \in User
        BY <1>2 DEF SaveCommits, TypeOK
    <2>4. PICK seen \in Statuses :
            IF request[s].kind = "desk" /\ GuardedStatus(seen) = "none"
            THEN /\ status' = "entered"
                 /\ events' = Append(GuardedEvents(seen),
                        Event("none", "entered", "entered", request[s].by))
            ELSE /\ status' = GuardedStatus(seen)
                 /\ events' = GuardedEvents(seen)
        BY <1>2, <2>2 DEF SaveCommits
    <2>5. /\ GuardedStatus(seen) \in Statuses
          /\ GuardedEvents(seen) \in Seq(Events)
          /\ \A i \in DOMAIN GuardedEvents(seen) :
                GuardedEvents(seen)[i].by = NoUser
                    <=> GuardedEvents(seen)[i].action = "data_changed"
        BY <2>1, GuardTyped
    <2> DEFINE e == Event("none", "entered", "entered", request[s].by)
    <2>6. e \in Events /\ (e.by = NoUser <=> e.action = "data_changed")
        <3>1. e \in Events
            BY <2>1, <2>3, EventTyped DEF Statuses, Actions
        <3>2. e.by = request[s].by /\ e.action = "entered"
            BY DEF Event
        <3> QED
            BY <3>1, <3>2, <2>3 DEF EntryReviewAssumption
    <2> HIDE DEF e
    <2>7. /\ Append(GuardedEvents(seen), e) \in Seq(Events)
          /\ \A i \in DOMAIN Append(GuardedEvents(seen), e) :
                Append(GuardedEvents(seen), e)[i].by = NoUser
                    <=> Append(GuardedEvents(seen), e)[i].action = "data_changed"
        BY <2>5, <2>6, SignedAppended
    <2>8. status' \in Statuses
        BY <2>4, <2>5 DEF Statuses
    <2>9. events' \in {GuardedEvents(seen), Append(GuardedEvents(seen), e)}
        BY <2>4 DEF e
    <2> QED
        BY <2>1, <2>5, <2>7, <2>8, <2>9 DEF TypeOK, RequestTyped
<1>3. ASSUME NEW s \in Session, DeskMarksEntered(s) PROVE TypeOK'
    <2>1. RequestTyped' /\ figures' \in Nat
        BY <1>3, EndsTyped DEF DeskMarksEntered, TypeOK
    <2>2. request[s].by \in User
        BY <1>3 DEF DeskMarksEntered, TypeOK
    <2> DEFINE e == Event("none", "entered", "entered", request[s].by)
    <2>3. e \in Events
        BY <2>1, <2>2, EventTyped DEF Statuses, Actions
    <2>4. e.by # NoUser /\ e.action # "data_changed"
        BY <2>2 DEF Event, EntryReviewAssumption
    <2>5. events' = Append(events, e) /\ status' = "entered"
        BY <1>3 DEF DeskMarksEntered
    <2> HIDE DEF e
    <2> QED
        BY <2>1, <2>3, <2>4, <2>5, SignedAppended DEF TypeOK, RequestTyped, Statuses
<1>4. ASSUME NEW s \in Session, MoveReads(s) PROVE TypeOK'
    <2>1. PICK u \in User, k \in Moves : Reads(s, k, u)
        BY <1>4 DEF MoveReads
    <2>2. RequestTyped'
        BY <2>1, ReadsTyped
    <2>3. UNCHANGED <<status, events, figures>>
        BY <2>1 DEF Reads
    <2> QED
        BY <2>2, <2>3 DEF TypeOK, RequestTyped
<1>5. ASSUME NEW s \in Session, LockCompares(s) PROVE TypeOK'
    <2> DEFINE r == [request[s] EXCEPT !.at = "cleared"]
    <2>1. r \in Requests /\ r.kind # "none" /\ r.by \in User
        BY <1>5 DEF LockCompares, TypeOK, Requests
    <2>2. request' = [request EXCEPT ![s] = r]
        BY <1>5 DEF LockCompares
    <2> HIDE DEF r
    <2>3. RequestTyped'
        BY <2>1, <2>2 DEF TypeOK, RequestTyped
    <2> QED
        BY <1>5, <2>3 DEF TypeOK, RequestTyped, LockCompares
<1>6. ASSUME NEW s \in Session, MoveCommits(s) PROVE TypeOK'
    <2> DEFINE k == request[s].kind
    <2>1. RequestTyped' /\ figures' \in Nat /\ k \in Moves
        BY <1>6, EndsTyped DEF MoveCommits, TypeOK
    <2>2. request[s].by \in User /\ request[s].read \in Statuses
        BY <1>6 DEF MoveCommits, TypeOK, Requests
    <2>3. Reached[k] \in Statuses /\ Named[k] \in Actions
        BY <2>1 DEF Moves, Reached, Named, Statuses, Stamped, Actions
    <2>4. Named[k] # "data_changed"
        BY <2>1 DEF Moves, Named
    <2> DEFINE e == Event(request[s].read, Reached[k], Named[k], request[s].by)
    <2>5. e \in Events
        BY <2>1, <2>2, <2>3, EventTyped
    <2>6. e.by # NoUser /\ e.action # "data_changed"
        BY <2>2, <2>4 DEF Event, EntryReviewAssumption
    <2>7. events' = Append(events, e) /\ status' = Reached[k]
        BY <1>6 DEF MoveCommits
    <2> HIDE DEF e, k
    <2> QED
        BY <2>1, <2>3, <2>5, <2>6, <2>7, SignedAppended DEF TypeOK, RequestTyped
<1>7. ASSUME NEW s \in Session, Abandon(s) PROVE TypeOK'
    BY <1>7, EndsTyped DEF Abandon, TypeOK, RequestTyped
<1>8. CASE UNCHANGED vars
    BY <1>8 DEF TypeOK, vars
<1> QED
    BY <1>1, <1>2, <1>3, <1>4, <1>5, <1>6, <1>7, <1>8, StepCases

\* The history is a sequence of events, each signed unless it is the
\* guard's, and every request a request, however many sessions there are.
THEOREM TypeCorrect == Spec => []TypeOK
<1>1. Init => TypeOK
    BY DEF Init, TypeOK, Idle, Requests, Statuses
<1>2. TypeOK /\ [Next]_vars => TypeOK'
    BY EntryReviewAssumption, TypeStep
<1> QED
    BY <1>1, <1>2, PTL DEF Spec

-----------------------------------------------------------------------------

\* Whatever is appended to the history, who approved last is the same
\* unless it is an approval.
LEMMA LastApproverKept ==
    ASSUME NEW es \in Seq(Events), NEW e \in Events, NEW u,
           \A i \in DOMAIN es :
                /\ es[i].action = "approved"
                /\ \A j \in DOMAIN es : j > i => es[j].action # "approved"
                => es[i].by # u,
           e.action # "approved"
    PROVE  \A i \in DOMAIN Append(es, e) :
                /\ Append(es, e)[i].action = "approved"
                /\ \A j \in DOMAIN Append(es, e) :
                        j > i => Append(es, e)[j].action # "approved"
                => Append(es, e)[i].by # u
<1> SUFFICES ASSUME NEW i \in DOMAIN Append(es, e),
                    Append(es, e)[i].action = "approved",
                    \A j \in DOMAIN Append(es, e) :
                        j > i => Append(es, e)[j].action # "approved"
             PROVE  Append(es, e)[i].by # u
    OBVIOUS
<1>1. DOMAIN Append(es, e) = 1..(Len(es) + 1) /\ DOMAIN es = 1..Len(es)
      /\ Len(es) \in Nat
    OBVIOUS
<1>2. Append(es, e)[Len(es) + 1] = e
    OBVIOUS
<1>3. \A j \in DOMAIN es : Append(es, e)[j] = es[j]
    OBVIOUS
<1>4. i \in DOMAIN es
    BY <1>1, <1>2
<1>5. \A j \in DOMAIN es : j > i => es[j].action # "approved"
    BY <1>1, <1>3
<1> QED
    BY <1>3, <1>4, <1>5

\* An event that is no approval leaves the last approver who they were.
LEMMA ApproverKept ==
    ASSUME TypeOK, NEW e \in Events, e.action # "approved", NEW u,
           LastApproverIsNot(u), events' = Append(events, e)
    PROVE  \A i \in DOMAIN events' :
                /\ events'[i].action = "approved"
                /\ \A j \in DOMAIN events' : j > i => events'[j].action # "approved"
                => events'[i].by # u
BY LastApproverKept DEF TypeOK, LastApproverIsNot

\* A save can put a status of "locked" only where it already was, and it
\* never appends an approval.
LEMMA SaveKeepsApprover ==
    ASSUME TypeOK, TypeOK', EntryReviewAssumption, NEW s \in Session, SaveCommits(s)
    PROVE  /\ status' = "locked" => status = "locked" /\ events' = events
           /\ \A t \in Session : LastApproverIsNot(request[t].by) =>
                \A i \in DOMAIN events' :
                    /\ events'[i].action = "approved"
                    /\ \A j \in DOMAIN events' :
                            j > i => events'[j].action # "approved"
                    => events'[i].by # request[t].by
<1>1. figures' \in Nat /\ request[s].by \in User
      /\ request[s].read \in Statuses /\ status \in Statuses
    BY DEF TypeOK, SaveCommits, Requests
<1>2. PICK seen \in Statuses :
        IF request[s].kind = "desk" /\ GuardedStatus(seen) = "none"
        THEN /\ status' = "entered"
             /\ events' = Append(GuardedEvents(seen),
                    Event("none", "entered", "entered", request[s].by))
        ELSE /\ status' = GuardedStatus(seen)
             /\ events' = GuardedEvents(seen)
    BY <1>1 DEF SaveCommits
<1> DEFINE g == Event(seen, "entered", "data_changed", NoUser)
           e == Event("none", "entered", "entered", request[s].by)
<1>3. g \in Events /\ g.action # "approved"
    <2>1. g \in Events
        BY <1>1, EventTyped DEF Statuses, Actions
    <2> QED
        BY <2>1 DEF Event
<1>4. e \in Events /\ e.action # "approved"
    <2>1. e \in Events
        BY <1>1, EventTyped DEF Statuses, Actions
    <2> QED
        BY <2>1 DEF Event
<1>5. \/ status' = status /\ events' = events
      \/ status' = "entered" /\ events' = Append(events, g)
      \/ status' = "entered" /\ events' = Append(events, e)
    <2>1. CASE seen \in Stamped
        <3>1. GuardedStatus(seen) = "entered" /\ GuardedEvents(seen) = Append(events, g)
            BY <2>1 DEF GuardedStatus, GuardedEvents
        <3> QED
            BY <1>2, <3>1
    <2>2. CASE seen \notin Stamped
        <3>1. GuardedStatus(seen) = status /\ GuardedEvents(seen) = events
            BY <2>2 DEF GuardedStatus, GuardedEvents
        <3> HIDE DEF e
        <3>2. IF request[s].kind = "desk" /\ status = "none"
              THEN status' = "entered" /\ events' = Append(events, e)
              ELSE status' = status /\ events' = events
            BY <1>2, <3>1 DEF e
        <3> QED
            BY <3>2
    <2> QED
        BY <2>1, <2>2
<1> HIDE DEF g, e
<1>6. ASSUME NEW t \in Session, LastApproverIsNot(request[t].by)
      PROVE  \A i \in DOMAIN events' :
                /\ events'[i].action = "approved"
                /\ \A j \in DOMAIN events' : j > i => events'[j].action # "approved"
                => events'[i].by # request[t].by
    <2>1. CASE events' = events
        BY <1>6, <2>1 DEF LastApproverIsNot
    <2>2. CASE events' = Append(events, g)
        BY <1>3, <1>6, <2>2, ApproverKept
    <2>3. CASE events' = Append(events, e)
        BY <1>4, <1>6, <2>3, ApproverKept
    <2> QED
        BY <1>5, <2>1, <2>2, <2>3
<1> QED
    BY <1>5, <1>6

\* While one move is at work the rest of the requests are saves, which
\* neither approve nor lock; so what lock compared is so when it commits.
LEMMA TurnStep ==
    ASSUME Gated, EntryReviewAssumption, TypeOK, TypeOK',
           MovesTakeTurns, DifferentOwners, [Next]_vars
    PROVE  MovesTakeTurns' /\ DifferentOwners'
<1> USE DEF LastApproverIsNot
<1>1. ASSUME NEW s \in Session, SaveReads(s) PROVE MovesTakeTurns' /\ DifferentOwners'
    <2>1. PICK u \in User, k \in Saves : Reads(s, k, u)
        BY <1>1 DEF SaveReads
    <2>2. UNCHANGED <<status, events>>
        BY <2>1 DEF Reads
    <2>3. \A t \in Session :
            request'[t] = request[t]
            \/ (request'[t].at = "read" /\ request'[t].kind \notin Moves)
        BY <2>1 DEF Reads, TypeOK, Saves, Moves
    <2>4. DifferentOwners'
        BY <2>2 DEF DifferentOwners
    <2>5. MovesTakeTurns'
        BY <2>2, <2>3 DEF MovesTakeTurns
    <2> QED
        BY <2>4, <2>5
<1>2. ASSUME NEW s \in Session, SaveCommits(s) PROVE MovesTakeTurns' /\ DifferentOwners'
    <2>1. \A t \in Session : request'[t] = request[t] \/ request'[t] = Idle
        BY <1>2 DEF SaveCommits, Ends, TypeOK
    <2>2. status' = "locked" => status = "locked" /\ events' = events
        BY <1>2, SaveKeepsApprover
    <2>3. DifferentOwners'
        BY <2>2 DEF DifferentOwners
    <2>4. \A t \in Session : LastApproverIsNot(request[t].by) =>
            \A i \in DOMAIN events' :
                /\ events'[i].action = "approved"
                /\ \A j \in DOMAIN events' : j > i => events'[j].action # "approved"
                => events'[i].by # request[t].by
        BY <1>2, SaveKeepsApprover
    <2>5. MovesTakeTurns'
        BY <2>1, <2>4 DEF MovesTakeTurns, Idle, Moves
    <2> QED
        BY <2>3, <2>5
<1>3. ASSUME NEW s \in Session, DeskMarksEntered(s)
      PROVE  MovesTakeTurns' /\ DifferentOwners'
    <2> DEFINE e == Event("none", "entered", "entered", request[s].by)
    <2>1. e \in Events /\ e.action # "approved"
        <3>1. e \in Events
            BY <1>3, EventTyped DEF Statuses, Actions, TypeOK, DeskMarksEntered
        <3> QED
            BY <3>1 DEF Event
    <2>2. events' = Append(events, e) /\ status' = "entered"
        BY <1>3 DEF DeskMarksEntered
    <2> HIDE DEF e
    <2>3. \A t \in Session : request'[t] = request[t] \/ request'[t] = Idle
        BY <1>3 DEF DeskMarksEntered, Ends, TypeOK
    <2>4. \A t \in Session : LastApproverIsNot(request[t].by) =>
            \A i \in DOMAIN events' :
                /\ events'[i].action = "approved"
                /\ \A j \in DOMAIN events' : j > i => events'[j].action # "approved"
                => events'[i].by # request[t].by
        BY <2>1, <2>2, ApproverKept
    <2>5. MovesTakeTurns'
        BY <2>3, <2>4 DEF MovesTakeTurns, Idle, Moves
    <2>6. DifferentOwners'
        BY <2>2 DEF DifferentOwners
    <2> QED
        BY <2>5, <2>6
<1>4. ASSUME NEW s \in Session, MoveReads(s) PROVE MovesTakeTurns' /\ DifferentOwners'
    <2>1. PICK u \in User, k \in Moves : Reads(s, k, u)
        BY <1>4 DEF MoveReads
    <2>2. UNCHANGED <<status, events>>
        BY <2>1 DEF Reads
    <2>3. \A t \in Session : request[t].kind \notin Moves
        BY <2>1 DEF Reads, Admitted, Resource
    <2>4. \A t \in Session :
            (t # s => request'[t] = request[t]) /\ (t = s => request'[t].at = "read")
        BY <2>1 DEF Reads, TypeOK
    <2>5. DifferentOwners'
        BY <2>2 DEF DifferentOwners
    <2>6. MovesTakeTurns'
        BY <2>2, <2>3, <2>4 DEF MovesTakeTurns
    <2> QED
        BY <2>5, <2>6
<1>5. ASSUME NEW s \in Session, LockCompares(s) PROVE MovesTakeTurns' /\ DifferentOwners'
    <2>1. UNCHANGED <<status, events>>
        BY <1>5 DEF LockCompares
    <2>2. /\ request[s].kind = "lock"
          /\ request'[s].kind = "lock" /\ request'[s].by = request[s].by
          /\ \A t \in Session : t # s => request'[t] = request[t]
        BY <1>5 DEF LockCompares, TypeOK, Requests
    <2>3. DifferentOwners'
        BY <2>1 DEF DifferentOwners
    <2>4. TwoOwners => LastApproverIsNot(request[s].by)
        BY <1>5 DEF LockCompares
    <2>5. MovesTakeTurns'
        BY <2>1, <2>2, <2>4 DEF MovesTakeTurns
    <2> QED
        BY <2>3, <2>5
<1>6. ASSUME NEW s \in Session, MoveCommits(s) PROVE MovesTakeTurns' /\ DifferentOwners'
    <2> DEFINE k == request[s].kind
    <2>1. k \in Moves /\ figures' \in Nat /\ request[s] \in Requests
        BY <1>6 DEF MoveCommits, TypeOK
    <2>2. \A t \in Session : t # s => request[t].kind \notin Moves
        BY <2>1 DEF MovesTakeTurns
    <2>3. \A t \in Session : t # s => request[t].at # "cleared"
        BY <2>2 DEF MovesTakeTurns, Moves
    <2>4. \A t \in Session :
            (t # s => request'[t] = request[t]) /\ (t = s => request'[t] = Idle)
        BY <1>6 DEF MoveCommits, Ends, TypeOK
    <2>5. MovesTakeTurns'
        BY <2>2, <2>3, <2>4 DEF MovesTakeTurns, Idle, Moves
    <2>6. ASSUME TwoOwners, status' = "locked"
          PROVE  /\ events' # <<>>
                 /\ events'[Len(events')].action = "locked"
                 /\ \A i \in DOMAIN events' :
                        /\ events'[i].action = "approved"
                        /\ \A j \in DOMAIN events' :
                                j > i => events'[j].action # "approved"
                        => events'[i].by # events'[Len(events')].by
        <3>1. k = "lock"
            BY <1>6, <2>1, <2>6 DEF MoveCommits, Reached, Moves
        <3>2. LastApproverIsNot(request[s].by)
            BY <1>6, <2>6, <3>1 DEF MoveCommits, MovesTakeTurns
        <3> DEFINE e == Event(request[s].read, "locked", "locked", request[s].by)
        <3>3. e \in Events
            BY <2>1, EventTyped DEF Requests, Statuses, Actions
        <3>4. e.action = "locked" /\ e.by = request[s].by
            BY DEF Event
        <3>5. events' = Append(events, e)
            BY <1>6, <3>1 DEF MoveCommits, Reached, Named
        <3> HIDE DEF e, k
        <3>6. events' # <<>> /\ events'[Len(events')] = e
            BY <3>3, <3>5 DEF TypeOK
        <3>7. \A i \in DOMAIN events' :
                    /\ events'[i].action = "approved"
                    /\ \A j \in DOMAIN events' :
                            j > i => events'[j].action # "approved"
                    => events'[i].by # request[s].by
            BY <3>2, <3>3, <3>4, <3>5, ApproverKept
        <3> QED
            BY <3>4, <3>6, <3>7
    <2>7. DifferentOwners'
        BY <2>6 DEF DifferentOwners
    <2> QED
        BY <2>5, <2>7
<1>7. ASSUME NEW s \in Session, Abandon(s) PROVE MovesTakeTurns' /\ DifferentOwners'
    <2>1. UNCHANGED <<status, events>>
        BY <1>7 DEF Abandon
    <2>2. \A t \in Session : request'[t] = request[t] \/ request'[t] = Idle
        BY <1>7 DEF Abandon, Ends, TypeOK
    <2>3. DifferentOwners'
        BY <2>1 DEF DifferentOwners
    <2>4. MovesTakeTurns'
        BY <2>1, <2>2 DEF MovesTakeTurns, Idle, Moves
    <2> QED
        BY <2>3, <2>4
<1>8. CASE UNCHANGED vars
    BY <1>8 DEF MovesTakeTurns, DifferentOwners, vars
<1> QED
    BY <1>1, <1>2, <1>3, <1>4, <1>5, <1>6, <1>7, <1>8, StepCases

\* With the record gate, two_owners means two owners: whoever locked a shift
\* did not make the last approval before it, whatever saves came between.
THEOREM DifferentApprover ==
    ASSUME Gated
    PROVE  Spec => []DifferentOwners
<1> DEFINE Inv == TypeOK /\ MovesTakeTurns /\ DifferentOwners
<1>1. Init => Inv
    <2> SUFFICES ASSUME Init PROVE Inv
        OBVIOUS
    <2>1. TypeOK
        BY DEF Init, TypeOK, Idle, Requests, Statuses
    <2>2. MovesTakeTurns
        BY DEF Init, MovesTakeTurns, Idle, Moves
    <2>3. DifferentOwners
        BY DEF Init, DifferentOwners
    <2> QED
        BY <2>1, <2>2, <2>3
<1>2. Inv /\ [Next]_vars => Inv'
    BY EntryReviewAssumption, TypeStep, TurnStep
<1>3. Inv => DifferentOwners
    OBVIOUS
<1> QED
    BY <1>1, <1>2, <1>3, PTL DEF Spec

-----------------------------------------------------------------------------

\* An event that starts at the present status carries the history on.
LEMMA HistoryAppended ==
    ASSUME TypeOK, HistoryExplainsStatus, NEW e \in Events,
           e.from = status, events' = Append(events, e), status' = e.to
    PROVE  HistoryExplainsStatus'
<1>1. events \in Seq(Events) /\ Len(events) \in Nat
    BY DEF TypeOK
<1>2. Len(events') = Len(events) + 1 /\ events'[Len(events) + 1] = e
    BY <1>1
<1>3. \A i \in 1..Len(events) : events'[i] = events[i]
    BY <1>1
<1>4. status' = events'[Len(events')].to /\ Len(events') # 0
    BY <1>1, <1>2
<1>5. ASSUME NEW i \in 1..Len(events')
      PROVE  events'[i].from = IF i = 1 THEN "none" ELSE events'[i - 1].to
    <2>1. CASE i = Len(events) + 1
        <3>1. CASE Len(events) = 0
            BY <1>2, <2>1, <3>1 DEF HistoryExplainsStatus
        <3>2. CASE Len(events) # 0
            <4>1. status = events[Len(events)].to
                BY <3>2 DEF HistoryExplainsStatus
            <4>2. events'[i - 1] = events[Len(events)] /\ i # 1
                BY <1>1, <1>3, <2>1, <3>2
            <4> QED
                BY <1>2, <2>1, <4>1, <4>2
        <3> QED
            BY <3>1, <3>2
    <2>2. CASE i \in 1..Len(events)
        <3>1. events[i].from = IF i = 1 THEN "none" ELSE events[i - 1].to
            BY <2>2 DEF HistoryExplainsStatus
        <3>2. events'[i] = events[i]
            BY <1>3, <2>2
        <3>3. i # 1 => events'[i - 1] = events[i - 1]
            BY <1>1, <1>3, <2>2
        <3> QED
            BY <3>1, <3>2, <3>3
    <2> QED
        BY <1>1, <1>2, <2>1, <2>2
<1> QED
    BY <1>4, <1>5 DEF HistoryExplainsStatus

\* Only a climb needs to be accounted for.
LEMMA NoStamp ==
    ASSUME status' \notin {"verified", "approved", "locked"}
    PROVE  StampDescribesFigures'
BY DEF StampDescribesFigures

\* One rung up, with the figures untouched, extends the climb by one event.
LEMMA ClimbExtended ==
    ASSUME TypeOK, HistoryExplainsStatus, StampDescribesFigures,
           NEW e \in Events, events' = Append(events, e),
           e.figures = figures, figures' = figures,
           \/ status = "entered" /\ status' = "verified" /\ e.action = "verified"
           \/ status = "verified" /\ status' = "approved" /\ e.action = "approved"
           \/ status = "approved" /\ status' = "locked" /\ e.action = "locked"
    PROVE  StampDescribesFigures'
<1> DEFINE n == Len(events)
           climb == <<"verified", "approved", "locked">>
<1>1. events \in Seq(Events) /\ n \in Nat
    BY DEF TypeOK
<1>2. Len(events') = n + 1 /\ events'[n + 1] = e
    BY <1>1
<1>3. \A i \in 1..n : events'[i] = events[i]
    BY <1>1
<1>4. climb[1] = "verified" /\ climb[2] = "approved" /\ climb[3] = "locked"
    OBVIOUS
<1>5. status # "none" => n > 0
    BY <1>1 DEF HistoryExplainsStatus
<1>6. \A k \in 1..3 : status = climb[k] =>
        /\ n > k
        /\ \A i \in 1..k : /\ events[n - k + i].action = climb[i]
                           /\ events[n - k + i].figures = figures
    BY DEF StampDescribesFigures
<1> HIDE DEF n, climb
<1>7. CASE status = "entered" /\ status' = "verified" /\ e.action = "verified"
    <2>1. \A k \in 1..3 : status' = climb[k] =>
            /\ n + 1 > k
            /\ \A i \in 1..k : /\ events'[n + 1 - k + i].action = climb[i]
                               /\ events'[n + 1 - k + i].figures = figures
        BY <1>1, <1>2, <1>4, <1>5, <1>7
    <2> QED
        BY <1>2, <2>1 DEF StampDescribesFigures, climb
<1>8. CASE status = "verified" /\ status' = "approved" /\ e.action = "approved"
    <2>1. n > 1 /\ events[n].action = "verified" /\ events[n].figures = figures
        BY <1>1, <1>4, <1>6, <1>8
    <2>2. events'[n] = events[n]
        <3>1. n \in 1..n
            BY <1>1, <2>1
        <3> QED
            BY <1>3, <3>1
    <2>3. \A k \in 1..3 : status' = climb[k] =>
            /\ n + 1 > k
            /\ \A i \in 1..k : /\ events'[n + 1 - k + i].action = climb[i]
                               /\ events'[n + 1 - k + i].figures = figures
        BY <1>1, <1>2, <1>4, <1>8, <2>1, <2>2
    <2> QED
        BY <1>2, <2>3 DEF StampDescribesFigures, climb
<1>9. CASE status = "approved" /\ status' = "locked" /\ e.action = "locked"
    <2>1. /\ n > 2
          /\ events[n - 1].action = "verified" /\ events[n - 1].figures = figures
          /\ events[n].action = "approved" /\ events[n].figures = figures
        <3>1. /\ n > 2
              /\ \A i \in 1..2 : /\ events[n - 2 + i].action = climb[i]
                                 /\ events[n - 2 + i].figures = figures
            BY <1>4, <1>6, <1>9
        <3>2. n - 2 + 1 = n - 1 /\ n - 2 + 2 = n
            BY <1>1
        <3> QED
            BY <1>4, <3>1, <3>2
    <2>2. events'[n] = events[n] /\ events'[n - 1] = events[n - 1]
        <3>1. n \in 1..n /\ n - 1 \in 1..n
            BY <1>1, <2>1
        <3> QED
            BY <1>3, <3>1
    <2>3. \A k \in 1..3 : status' = climb[k] =>
            /\ n + 1 > k
            /\ \A i \in 1..k : /\ events'[n + 1 - k + i].action = climb[i]
                               /\ events'[n + 1 - k + i].figures = figures
        <3> SUFFICES ASSUME NEW k \in 1..3, status' = climb[k]
                     PROVE  /\ n + 1 > k
                            /\ \A i \in 1..k :
                                /\ events'[n + 1 - k + i].action = climb[i]
                                /\ events'[n + 1 - k + i].figures = figures
            OBVIOUS
        <3>1. k = 3
            <4>1. k = 1 \/ k = 2 \/ k = 3
                OBVIOUS
            <4>2. status' # climb[1] /\ status' # climb[2]
                BY <1>4, <1>9
            <4> QED
                BY <4>1, <4>2
        <3>2. ASSUME NEW i \in 1..3
              PROVE  /\ events'[n - 2 + i].action = climb[i]
                     /\ events'[n - 2 + i].figures = figures
            <4>1. CASE i = 1
                <5>1. n - 2 + i = n - 1
                    BY <1>1, <4>1
                <5> QED
                    BY <1>4, <2>1, <2>2, <4>1, <5>1
            <4>2. CASE i = 2
                <5>1. n - 2 + i = n
                    BY <1>1, <4>2
                <5> QED
                    BY <1>4, <2>1, <2>2, <4>2, <5>1
            <4>3. CASE i = 3
                <5>1. n - 2 + i = n + 1
                    BY <1>1, <4>3
                <5>2. events'[n - 2 + i] = e
                    BY <1>2, <5>1
                <5>3. climb[i] = e.action
                    <6>1. climb[i] = climb[3]
                        BY <4>3
                    <6> QED
                        BY <1>4, <1>9, <6>1
                <5>4. e.figures = figures
                    OBVIOUS
                <5>5. /\ events'[n - 2 + i].action = e.action
                      /\ events'[n - 2 + i].figures = e.figures
                    BY <5>2
                <5> QED
                    BY <5>3, <5>4, <5>5
            <4>4. i = 1 \/ i = 2 \/ i = 3
                OBVIOUS
            <4> QED
                BY <4>1, <4>2, <4>3, <4>4
        <3>3. n + 1 - k = n - 2 /\ n + 1 > k
            BY <1>1, <2>1, <3>1
        <3> QED
            BY <3>1, <3>2, <3>3
    <2> QED
        BY <1>2, <2>3 DEF StampDescribesFigures, climb
<1> QED
    BY <1>7, <1>8, <1>9

\* The invariant of requests served one at a time.
SequentialInv ==
    TypeOK /\ ReadsAreFresh /\ HistoryExplainsStatus /\ StampDescribesFigures

\* A step of the review chain, or none.
ChainStep == [Chain!Next]_<<status, figures>>

\* With nobody in between, a save acts on the status as it is: it withdraws
\* the stamps, is refused under a lock, and starts the chain but once.
LEMMA SequentialSave ==
    ASSUME OneSession, EntryReviewAssumption, SequentialInv, TypeOK',
           NEW s \in Session, SaveCommits(s)
    PROVE  ReadsAreFresh' /\ HistoryExplainsStatus' /\ StampDescribesFigures'
           /\ ChainStep
<1>1. /\ figures' = figures + 1 /\ figures \in Nat /\ figures' \in Nat
      /\ request[s].by \in User /\ status \in Statuses
    BY DEF TypeOK, SaveCommits, SequentialInv
<1>2. request[s].read = status
    BY DEF SequentialInv, ReadsAreFresh, SaveCommits
<1>3. /\ status # "locked"
      /\ IF request[s].kind = "desk" /\ GuardedStatus(status) = "none"
         THEN /\ status' = "entered"
              /\ events' = Append(GuardedEvents(status),
                    Event("none", "entered", "entered", request[s].by))
         ELSE /\ status' = GuardedStatus(status)
              /\ events' = GuardedEvents(status)
    BY <1>2 DEF SaveCommits
<1>4. ReadsAreFresh'
    BY DEF SaveCommits, Ends, SequentialInv, TypeOK, ReadsAreFresh, OneSession, Idle
<1> DEFINE g == Event(status, "entered", "data_changed", NoUser)
           e == Event("none", "entered", "entered", request[s].by)
<1>5. g \in Events /\ g.from = status /\ g.to = "entered"
    <2>1. g \in Events
        BY <1>1, EventTyped DEF Statuses, Actions
    <2> QED
        BY <2>1 DEF Event
<1>6. e \in Events /\ e.from = "none" /\ e.to = "entered"
    <2>1. e \in Events
        BY <1>1, EventTyped DEF Statuses, Actions
    <2> QED
        BY <2>1 DEF Event
<1> HIDE DEF g, e
<1>7. CASE status \in Stamped
    <2>1. status' = "entered" /\ events' = Append(events, g)
        BY <1>3, <1>7 DEF GuardedStatus, GuardedEvents, g
    <2>2. HistoryExplainsStatus'
        BY <1>5, <2>1, HistoryAppended DEF SequentialInv
    <2>3. StampDescribesFigures'
        BY <2>1, NoStamp
    <2>4. Chain!Change
        BY <1>1, <1>7, <2>1 DEF Chain!Change, Chain!Rungs, Stamped
    <2> QED
        BY <1>4, <2>2, <2>3, <2>4 DEF ChainStep, Chain!Next
<1>8. CASE status \notin Stamped
    <2>1. GuardedStatus(status) = status /\ GuardedEvents(status) = events
        BY <1>8 DEF GuardedStatus, GuardedEvents
    <2>2. status \in {"none", "entered"}
        BY <1>1, <1>3, <1>8 DEF Statuses
    <2>3. CASE request[s].kind = "desk" /\ status = "none"
        <3>1. status' = "entered" /\ events' = Append(events, e)
            BY <1>3, <2>1, <2>3 DEF e
        <3>2. HistoryExplainsStatus'
            BY <1>6, <2>3, <3>1, HistoryAppended DEF SequentialInv
        <3>3. StampDescribesFigures'
            BY <3>1, NoStamp
        <3>4. Chain!Enter
            BY <1>1, <2>3, <3>1 DEF Chain!Enter
        <3> QED
            BY <1>4, <3>2, <3>3, <3>4 DEF ChainStep, Chain!Next
    <2>4. CASE ~(request[s].kind = "desk" /\ status = "none")
        <3>1. status' = status /\ events' = events
            BY <1>3, <2>1, <2>4
        <3>2. HistoryExplainsStatus'
            BY <3>1 DEF SequentialInv, HistoryExplainsStatus
        <3>3. StampDescribesFigures'
            BY <2>2, <3>1, NoStamp
        <3>4. Chain!Change
            BY <1>1, <2>2, <3>1 DEF Chain!Change, Chain!Rungs
        <3> QED
            BY <1>4, <3>2, <3>3, <3>4 DEF ChainStep, Chain!Next
    <2> QED
        BY <2>3, <2>4
<1> QED
    BY <1>7, <1>8

\* With nobody in between, a move starts from the status it required.
LEMMA SequentialMove ==
    ASSUME OneSession, EntryReviewAssumption, SequentialInv, TypeOK',
           NEW s \in Session, MoveCommits(s)
    PROVE  ReadsAreFresh' /\ HistoryExplainsStatus' /\ StampDescribesFigures'
           /\ ChainStep
<1> DEFINE k == request[s].kind
           e == Event(request[s].read, Reached[k], Named[k], request[s].by)
<1>1. /\ k \in Moves /\ figures' = figures /\ figures' \in Nat
      /\ request[s].by \in User /\ request[s].read \in Statuses
    BY DEF TypeOK, MoveCommits, SequentialInv, Requests
<1>2. /\ request[s].read = status
      /\ k \in Climbs => status = Needed[k]
      /\ k = "reopen" => status \in Stamped \cup {"locked"}
    BY DEF SequentialInv, ReadsAreFresh, MoveCommits
<1>3. events' = Append(events, e) /\ status' = Reached[k]
    BY DEF MoveCommits
<1>4. Reached[k] \in Statuses /\ Named[k] \in Actions
    BY <1>1 DEF Moves, Reached, Named, Statuses, Stamped, Actions
<1>5. e \in Events
    BY <1>1, <1>4, EventTyped
<1>6. /\ e.from = status /\ e.to = Reached[k]
      /\ e.action = Named[k] /\ e.figures = figures
    BY <1>1, <1>2 DEF Event
<1>7. ReadsAreFresh'
    BY DEF MoveCommits, Ends, SequentialInv, TypeOK, ReadsAreFresh, OneSession, Idle
<1> HIDE DEF e, k
<1>8. HistoryExplainsStatus'
    BY <1>3, <1>5, <1>6, HistoryAppended DEF SequentialInv
<1>9. CASE k = "reopen"
    <2>1. status' = "entered"
        BY <1>3, <1>9 DEF Reached
    <2>2. Chain!Reopen
        BY <1>1, <1>2, <1>9, <2>1 DEF Chain!Reopen, Chain!Rungs, Stamped
    <2>3. StampDescribesFigures'
        BY <2>1, NoStamp
    <2> QED
        BY <1>7, <1>8, <2>2, <2>3 DEF ChainStep, Chain!Next
<1>10. CASE k \in Climbs
    <2>1. \/ status = "entered" /\ status' = "verified" /\ e.action = "verified"
          \/ status = "verified" /\ status' = "approved" /\ e.action = "approved"
          \/ status = "approved" /\ status' = "locked" /\ e.action = "locked"
        BY <1>2, <1>3, <1>6, <1>10 DEF Climbs, Moves, Needed, Reached, Named
    <2>2. StampDescribesFigures'
        BY <1>1, <1>3, <1>5, <1>6, <2>1, ClimbExtended DEF SequentialInv
    <2>3. Chain!Climb
        <3>1. Chain!Ladder[1] = "verified" /\ Chain!Ladder[2] = "approved"
              /\ Chain!Ladder[3] = "locked"
            BY DEF Chain!Ladder
        <3>2. 1 \in 1..2 /\ 2 \in 1..2 /\ 1 + 1 = 2 /\ 2 + 1 = 3
            OBVIOUS
        <3> QED
            BY <1>1, <2>1, <3>1, <3>2 DEF Chain!Climb
    <2> QED
        BY <1>7, <1>8, <2>2, <2>3 DEF ChainStep, Chain!Next
<1> QED
    BY <1>1, <1>9, <1>10 DEF Climbs

\* What a session reads is so until it commits, being the only one.
LEMMA SequentialRead ==
    ASSUME OneSession, SequentialInv, NEW s \in Session, NEW u \in User,
           NEW k \in Moves \cup Saves, Reads(s, k, u),
           k \in Climbs => status = Needed[k],
           k = "reopen" => status \in Stamped \cup {"locked"}
    PROVE  ReadsAreFresh' /\ HistoryExplainsStatus' /\ StampDescribesFigures'
           /\ ChainStep
<1>1. UNCHANGED <<status, events, figures>>
    BY DEF Reads
<1>2. request'[s].read = status /\ request'[s].kind = k
    BY DEF Reads, SequentialInv, TypeOK
<1>3. ReadsAreFresh'
    BY <1>1, <1>2 DEF OneSession, ReadsAreFresh
<1>4. HistoryExplainsStatus' /\ StampDescribesFigures'
    BY <1>1 DEF SequentialInv, HistoryExplainsStatus, StampDescribesFigures
<1> QED
    BY <1>1, <1>3, <1>4 DEF ChainStep

\* With one session every step keeps what a request has read fresh, and is a
\* step of the chain or none of it.
LEMMA SequentialStep ==
    ASSUME OneSession, EntryReviewAssumption, SequentialInv, [Next]_vars
    PROVE  SequentialInv' /\ ChainStep
<1>1. TypeOK'
    BY TypeStep DEF SequentialInv
<1> SUFFICES ReadsAreFresh' /\ HistoryExplainsStatus' /\ StampDescribesFigures'
             /\ ChainStep
    BY <1>1 DEF SequentialInv
<1>2. ASSUME NEW s \in Session, SaveReads(s)
      PROVE  ReadsAreFresh' /\ HistoryExplainsStatus' /\ StampDescribesFigures'
             /\ ChainStep
    <2>1. PICK u \in User, k \in Saves : Reads(s, k, u)
        BY <1>2 DEF SaveReads
    <2>2. k \notin Climbs /\ k # "reopen"
        BY DEF Saves, Climbs, Moves
    <2> QED
        BY <2>1, <2>2, SequentialRead
<1>3. ASSUME NEW s \in Session, DeskMarksEntered(s)
      PROVE  ReadsAreFresh' /\ HistoryExplainsStatus' /\ StampDescribesFigures'
             /\ ChainStep
    <2> DEFINE e == Event("none", "entered", "entered", request[s].by)
    <2>1. e \in Events /\ e.from = "none" /\ e.to = "entered"
        <3>1. figures' \in Nat /\ request[s].by \in User
            BY <1>3 DEF DeskMarksEntered, SequentialInv, TypeOK
        <3>2. e \in Events
            BY <3>1, EventTyped DEF Statuses, Actions
        <3> QED
            BY <3>2 DEF Event
    <2>2. /\ status = "none" /\ status' = "entered" /\ figures' = figures
          /\ events' = Append(events, e)
        BY <1>3 DEF DeskMarksEntered
    <2> HIDE DEF e
    <2>3. ReadsAreFresh'
        BY <1>3 DEF DeskMarksEntered, Ends, SequentialInv, TypeOK, ReadsAreFresh,
                    OneSession, Idle
    <2>4. HistoryExplainsStatus'
        BY <2>1, <2>2, HistoryAppended DEF SequentialInv
    <2>5. StampDescribesFigures'
        BY <2>2, NoStamp
    <2>6. Chain!Enter
        BY <2>2 DEF Chain!Enter
    <2> QED
        BY <2>3, <2>4, <2>5, <2>6 DEF ChainStep, Chain!Next
<1>4. ASSUME NEW s \in Session, MoveReads(s)
      PROVE  ReadsAreFresh' /\ HistoryExplainsStatus' /\ StampDescribesFigures'
             /\ ChainStep
    <2>1. PICK u \in User, k \in Moves :
            /\ IF k = "reopen" THEN status \notin {"none", "entered"}
                               ELSE status = Needed[k]
            /\ Reads(s, k, u)
        BY <1>4 DEF MoveReads
    <2>2. k \in Climbs => status = Needed[k]
        BY <2>1 DEF Climbs
    <2>3. k = "reopen" => status \in Stamped \cup {"locked"}
        BY <2>1 DEF SequentialInv, TypeOK, Statuses
    <2> QED
        BY <2>1, <2>2, <2>3, SequentialRead
<1>5. ASSUME NEW s \in Session, LockCompares(s)
      PROVE  ReadsAreFresh' /\ HistoryExplainsStatus' /\ StampDescribesFigures'
             /\ ChainStep
    <2>1. UNCHANGED <<status, events, figures>>
        BY <1>5 DEF LockCompares
    <2>2. /\ request[s].at # "idle"
          /\ request'[s].read = request[s].read /\ request'[s].kind = request[s].kind
        BY <1>5 DEF LockCompares, SequentialInv, TypeOK, Requests
    <2>3. ReadsAreFresh'
        BY <2>1, <2>2 DEF SequentialInv, ReadsAreFresh, OneSession
    <2>4. HistoryExplainsStatus' /\ StampDescribesFigures'
        BY <2>1 DEF SequentialInv, HistoryExplainsStatus, StampDescribesFigures
    <2> QED
        BY <2>1, <2>3, <2>4 DEF ChainStep
<1>6. ASSUME NEW s \in Session, Abandon(s)
      PROVE  ReadsAreFresh' /\ HistoryExplainsStatus' /\ StampDescribesFigures'
             /\ ChainStep
    <2>1. UNCHANGED <<status, events, figures>>
        BY <1>6 DEF Abandon
    <2>2. ReadsAreFresh'
        BY <1>6 DEF Abandon, Ends, SequentialInv, TypeOK, ReadsAreFresh, OneSession, Idle
    <2>3. HistoryExplainsStatus' /\ StampDescribesFigures'
        BY <2>1 DEF SequentialInv, HistoryExplainsStatus, StampDescribesFigures
    <2> QED
        BY <2>1, <2>2, <2>3 DEF ChainStep
<1>7. CASE UNCHANGED vars
    <2>1. UNCHANGED <<status, events, figures, request>>
        BY <1>7 DEF vars
    <2>2. HistoryExplainsStatus' /\ StampDescribesFigures'
        BY <2>1 DEF SequentialInv, HistoryExplainsStatus, StampDescribesFigures
    <2>3. ReadsAreFresh'
        BY <2>1 DEF SequentialInv, ReadsAreFresh
    <2> QED
        BY <2>1, <2>2, <2>3 DEF ChainStep
<1>8. ASSUME NEW s \in Session, SaveCommits(s)
      PROVE  ReadsAreFresh' /\ HistoryExplainsStatus' /\ StampDescribesFigures'
             /\ ChainStep
    BY <1>1, <1>8, SequentialSave
<1>9. ASSUME NEW s \in Session, MoveCommits(s)
      PROVE  ReadsAreFresh' /\ HistoryExplainsStatus' /\ StampDescribesFigures'
             /\ ChainStep
    BY <1>1, <1>9, SequentialMove
<1> QED
    BY <1>2, <1>3, <1>4, <1>5, <1>6, <1>7, <1>8, <1>9, StepCases

\* The first state is the chain's first state.
LEMMA SequentialInit ==
    ASSUME Init
    PROVE  SequentialInv /\ Chain!Init
<1>1. TypeOK
    BY DEF Init, TypeOK, Idle, Requests, Statuses
<1>2. ReadsAreFresh
    BY DEF Init, ReadsAreFresh, Idle
<1>3. HistoryExplainsStatus
    BY DEF Init, HistoryExplainsStatus
<1>4. StampDescribesFigures
    BY DEF Init, StampDescribesFigures
<1>5. Chain!Init
    BY DEF Init, Chain!Init
<1> QED
    BY <1>1, <1>2, <1>3, <1>4, <1>5 DEF SequentialInv

\* When requests are served one at a time, a stamp always describes the
\* figures as they are, and the history accounts for it.
THEOREM StampsAreEarned ==
    ASSUME OneSession
    PROVE  Spec => [](StampDescribesFigures /\ HistoryExplainsStatus)
<1>1. Init => SequentialInv
    BY SequentialInit
<1>2. SequentialInv /\ [Next]_vars => SequentialInv'
    BY EntryReviewAssumption, SequentialStep
<1>3. SequentialInv => StampDescribesFigures /\ HistoryExplainsStatus
    BY DEF SequentialInv
<1> QED
    BY <1>1, <1>2, <1>3, PTL DEF Spec

\* When requests are served one at a time, the history is an unbroken walk
\* from nothing to the present status, the guard's own events included
\* (entry_lock_guard.py and _advance each write the event of their step).
COROLLARY HistoryIsWhole ==
    ASSUME OneSession
    PROVE  Spec => []HistoryExplainsStatus
BY StampsAreEarned, PTL

\* When requests are served one at a time, the services and the guard
\* together implement the review chain: in particular nothing changes under
\* a lock, and a reopen is the only way out of it.
THEOREM ImplementsReviewChain ==
    ASSUME OneSession
    PROVE  Spec => ReviewChainSpec
<1>1. Init => SequentialInv /\ Chain!Init
    BY SequentialInit
<1>2. SequentialInv /\ [Next]_vars => SequentialInv' /\ [Chain!Next]_<<status, figures>>
    BY EntryReviewAssumption, SequentialStep DEF ChainStep
<1> QED
    BY <1>1, <1>2, PTL DEF Spec, ReviewChainSpec, Chain!Spec

=============================================================================
