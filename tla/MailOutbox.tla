----------------------------- MODULE MailOutbox ------------------------------
(***************************************************************************)
(* The owners' daily mail (app/services/mail_service.py).  Once a minute   *)
(* the sender's thread (api/lan/mail_scheduler.py) queues the day's        *)
(* summary and tries every queued message that is due; what comes of a try *)
(* is stored after the mail server was talked to.                          *)
(***************************************************************************)
EXTENDS Integers

CONSTANTS LastMailDay,    \* bound: days 1 .. LastMailDay
          GiveUpAfter,    \* GIVE_UP_AFTER
          MaxCuts,        \* bound: stops and refused commits
          MaxSwitches     \* bound: times the owner turns mail off

ASSUME MailAssumption ==
    /\ {LastMailDay, GiveUpAfter} \subseteq Nat \ {0}
    /\ {MaxCuts, MaxSwitches} \subseteq Nat

VARIABLES today, hourCome,   \* the clock: the day, is it mail_send_hour yet?
          enabled,           \* the setting mail_enabled
          outbox,            \* MailOutbox row of each day's summary
          waiting,           \* rows whose next_try_at lies ahead
          pass,              \* the pass of tick going on
          delivered,         \* how often each day's message went out
          attempted,         \* how often the mail server was asked, per day
          cuts, switches     \* how often a pass was cut, mail turned off

mailVars == <<today, hourCome, enabled, outbox, waiting, pass, delivered, attempted,
              cuts, switches>>

MailDay == 1 .. LastMailDay
NotQueued == [status |-> "none", attempts |-> 0]
NoPass == [at |-> "idle"]

-----------------------------------------------------------------------------
(* The clock and the owner.                                                *)

HourComes ==
    /\ ~hourCome
    /\ hourCome' = TRUE
    /\ UNCHANGED <<today, enabled, outbox, waiting, pass, delivered, attempted, cuts, switches>>

DayEnds ==
    /\ today < LastMailDay
    /\ today' = today + 1
    /\ hourCome' = FALSE
    /\ UNCHANGED <<enabled, outbox, waiting, pass, delivered, attempted, cuts, switches>>

\* RETRY_AFTER has passed.
RetryDue(d) ==
    /\ d \in waiting
    /\ waiting' = waiting \ {d}
    /\ UNCHANGED <<today, hourCome, enabled, outbox, pass, delivered, attempted, cuts, switches>>

Switch ==
    /\ enabled => switches < MaxSwitches
    /\ enabled' = ~enabled
    /\ switches' = IF enabled THEN switches + 1 ELSE switches
    /\ UNCHANGED <<today, hourCome, outbox, waiting, pass, delivered, attempted, cuts>>

-----------------------------------------------------------------------------
(* MailScheduler.tick.                                                     *)

QueuedAlready(d) == outbox[d] # NotQueued

\* Bug: a message whose first try failed is not read again.
DueFirstTime(rows) == {d \in MailDay : rows[d] = [status |-> "pending", attempts |-> 0]}

\* What send_due reads and does not skip.
Due(rows) == {d \in MailDay : rows[d].status = "pending" /\ d \notin waiting}

\* The pass starts: the day's summary is queued once, by a commit of its own,
\* and then the pending rows are read.
Tick ==
    /\ pass = NoPass
    /\ enabled
    /\ outbox' = IF hourCome /\ ~QueuedAlready(today)
                 THEN [outbox EXCEPT ![today] = [status |-> "pending", attempts |-> 0]]
                 ELSE outbox
    /\ pass' = [at |-> "next", left |-> Due(outbox')]
    /\ UNCHANGED <<today, hourCome, enabled, waiting, delivered, attempted, cuts, switches>>

\* Filled in wrongly, or without an owner: nothing is queued this time.
TickWithoutSummary ==
    /\ pass = NoPass
    /\ enabled
    /\ pass' = [at |-> "next", left |-> Due(outbox)]
    /\ UNCHANGED <<today, hourCome, enabled, outbox, waiting, delivered, attempted, cuts, switches>>

\* The mail server is asked; it may answer no although the message went out.
Deliver ==
    /\ pass.at = "next"
    /\ \E d \in pass.left, accepted, sent \in BOOLEAN :
           /\ accepted => sent
           /\ delivered' = [delivered EXCEPT ![d] = @ + IF sent THEN 1 ELSE 0]
           /\ attempted' = [attempted EXCEPT ![d] = @ + 1]
           /\ pass' = [at |-> IF accepted THEN "accepted" ELSE "refused",
                       left |-> pass.left \ {d}, row |-> d]
    /\ UNCHANGED <<today, hourCome, enabled, outbox, waiting, cuts, switches>>

MailSent ==
    /\ pass.at = "accepted"
    /\ outbox' = [outbox EXCEPT ![pass.row] = [status |-> "sent", attempts |-> @.attempts + 1]]
    /\ pass' = [at |-> "next", left |-> pass.left]
    /\ UNCHANGED <<today, hourCome, enabled, waiting, delivered, attempted, cuts, switches>>

\* Bug: it never gives up.
MustGiveUpNever(n) == FALSE

\* Bug: it gives up one try too early.
MustGiveUpEarly(n) == n + 1 >= GiveUpAfter

MustGiveUp(n) == n >= GiveUpAfter

MailFailed ==
    /\ pass.at = "refused"
    /\ LET d == pass.row
           n == outbox[d].attempts + 1
       IN  /\ outbox' = [outbox EXCEPT ![d] =
                 [status |-> IF MustGiveUp(n) THEN "gave_up" ELSE "pending", attempts |-> n]]
           /\ waiting' = waiting \cup {d}
    /\ pass' = [at |-> "next", left |-> pass.left]
    /\ UNCHANGED <<today, hourCome, enabled, delivered, attempted, cuts, switches>>

PassEnds ==
    /\ pass.at = "next" /\ pass.left = {}
    /\ pass' = NoPass
    /\ UNCHANGED <<today, hourCome, enabled, outbox, waiting, delivered, attempted, cuts, switches>>

\* The program stops, or a commit is refused and tick logs it: what was not
\* stored is lost, the number of tries and that the message went out included.
PassCut ==
    /\ pass # NoPass
    /\ cuts < MaxCuts
    /\ cuts' = cuts + 1
    /\ pass' = NoPass
    /\ UNCHANGED <<today, hourCome, enabled, outbox, waiting, delivered, attempted, switches>>

MailInit ==
    /\ today = 1 /\ hourCome = FALSE
    /\ enabled = FALSE
    /\ outbox = [d \in MailDay |-> NotQueued]
    /\ waiting = {}
    /\ pass = NoPass
    /\ delivered = [d \in MailDay |-> 0]
    /\ attempted = [d \in MailDay |-> 0]
    /\ cuts = 0 /\ switches = 0

SenderStep == Tick \/ Deliver \/ MailSent \/ MailFailed \/ PassEnds

MailNext ==
    \/ HourComes \/ DayEnds \/ Switch \/ TickWithoutSummary \/ PassCut
    \/ \E d \in MailDay : RetryDue(d)
    \/ SenderStep

\* The thread wakes every minute and time passes.
MailFairness ==
    /\ WF_mailVars(SenderStep)
    /\ \A d \in MailDay : WF_mailVars(RetryDue(d))

MailSpec == MailInit /\ [][MailNext]_mailVars /\ MailFairness

-----------------------------------------------------------------------------
(* Properties.                                                             *)

\* Every row and the pass have the values their fields may have.
MailTypeOK ==
    /\ today \in MailDay /\ {hourCome, enabled} \subseteq BOOLEAN
    /\ outbox \in [MailDay -> [status : {"none", "pending", "sent", "gave_up"},
                               attempts : 0 .. GiveUpAfter]]
    /\ waiting \subseteq MailDay
    /\ pass = NoPass \/ (pass.at \in {"next", "accepted", "refused"} /\ pass.left \subseteq MailDay)
    /\ cuts \in 0 .. MaxCuts /\ switches \in 0 .. MaxSwitches

\* The mail server is asked at most GIVE_UP_AFTER times for one day's
\* summary, and once more for every try whose outcome was not stored.
TriesAreBounded == \A d \in MailDay : attempted[d] <= GiveUpAfter + cuts

\* "sent" and "gave_up" tell the truth (mail_service.py _attempt): a sent message
\* went out at least once, one given up was tried as often as promised.
OutcomeIsTrue ==
    \A d \in MailDay :
        /\ outbox[d].status = "sent" => delivered[d] >= 1
        /\ outbox[d].status = "gave_up" => attempted[d] >= GiveUpAfter

\* A summary that was queued is sent or given up in the end, as long as the
\* owner leaves mail on.
QueuedIsSettled ==
    \A d \in MailDay :
        outbox[d].status = "pending" ~> (outbox[d].status \in {"sent", "gave_up"} \/ ~enabled)

\* What the outbox is trusted with: every summary is settled, within its tries,
\* as its row says.
MailIsSettled ==
    /\ []TriesAreBounded
    /\ []OutcomeIsTrue
    /\ QueuedIsSettled

\* mail_outbox.py:4: "One summary per kind per day".  A try that is cut
\* before its outcome is stored is made again.
OneSummaryADay == \A d \in MailDay : delivered[d] <= 1

=============================================================================
