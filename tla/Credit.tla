-------------------------------- MODULE Credit --------------------------------
(***************************************************************************)
(* One credit customer: the account and its limit                          *)
(* (app/services/credit_service.py), the owner's approval, the check at    *)
(* the moment of sale and the follow-ups (credit_control_service.py), the  *)
(* customer made at the counter (counter_customer_service.py) and what the *)
(* ledger works out from bills and payments (customer_ledger.py).  No path *)
(* of these requests names a record, POST /sales neither.                  *)
(***************************************************************************)
EXTENDS Desks, Integers, Sequences, FiniteSets, FiniteSetsExt, SequencesExt

CONSTANTS LastDay,       \* bound: days 1 .. LastDay
          DueDays,       \* CreditAccount.payment_due_days
          MaxAmount,     \* bound: amounts and limits are 1 .. MaxAmount
          MaxBills, MaxPaid, MaxFollowUps   \* bounds

ASSUME CreditAssumption ==
    /\ {LastDay, MaxAmount} \subseteq Nat \ {0}
    /\ {DueDays, MaxBills, MaxPaid, MaxFollowUps} \subseteq Nat
    /\ IsFiniteSet(Session) /\ Session # {}

VARIABLES rules,      \* settings: new customers need approval; over the limit
          today,
          limit,      \* credit_limit of the account, NoAccount without one
          approval,   \* CustomerApproval row: its status, made at the counter?
          rows,       \* Customer rows made for this one person
          bills,      \* credit sales and bowser bills
          collections,   \* CustomerPayment rows: amount received per day
          followUps   \* CreditFollowUp rows

creditVars == <<rules, today, limit, approval, rows, bills, collections, followUps>>

NoAccount == -1
NoPromise == 0
Day == 1 .. LastDay
NoRow == [status |-> "none", counter |-> FALSE]
Outcomes == {"kept", "broken", "cancelled"}

-----------------------------------------------------------------------------
(* The ledger: everything is worked out from the bills and the payments.   *)

Billed(B) == SumFunction([b \in B |-> b.amount])
PaidUpTo(d) == SumFunctionOnSet(collections, 1 .. d)

Live == {b \in bills : b.live}
Sales == {b \in Live : b.how # "bowser"}
UpTo(d) == {b \in Live : b.day <= d}

\* Bug: bills of one day in the order they were made, days mixed.
OldestNumberFirst(B) ==
    CHOOSE bs \in SetToSeqs(B) : \A i, j \in DOMAIN bs : i < j => bs[i].no < bs[j].no

Older(a, b) == a.day < b.day \/ (a.day = b.day /\ a.no < b.no)

\* Oldest first; the bills of a day in the order they were made.
OldestFirst(B) ==
    CHOOSE bs \in SetToSeqs(B) : \A i, j \in DOMAIN bs : i < j => Older(bs[i], bs[j])

\* apply_payments: what is left of the payments after each bill.
Pool(bs, total) ==
    LET pool[i \in 0 .. Len(bs)] ==
            IF i = 0 THEN total ELSE pool[i-1] - Min({bs[i].amount, pool[i-1]})
    IN  pool

Unpaid(bs, total, i) == bs[i].amount - (Pool(bs, total)[i-1] - Pool(bs, total)[i])

\* summary.balance, and CreditService's own sum that knows of sales only.
Balance == Billed(Live) - PaidUpTo(LastDay)
Outstanding == Billed(Sales) - PaidUpTo(LastDay)

OldestUnpaid ==
    LET bs == OldestFirst(Live)
        left == {i \in DOMAIN bs : Unpaid(bs, PaidUpTo(LastDay), i) > 0}
    IN  IF left = {} THEN NoPromise ELSE bs[Min(left)].day

Overdue ==
    /\ limit # NoAccount /\ OldestUnpaid # NoPromise
    /\ today - OldestUnpaid > DueDays

OpenFollowUps == {f \in followUps : f.status = "open"}

\* Bug: promises are not taken up when they fall due.
ChasedIfOverdue ==
    Balance > 0 /\ OpenFollowUps = {} /\ Overdue

\* due_to_chase: is this customer on the list?
Chased ==
    /\ Balance > 0
    /\ \/ \E f \in OpenFollowUps : f.promise # NoPromise /\ f.promise <= today
       \/ OpenFollowUps = {} /\ Overdue

-----------------------------------------------------------------------------
(* Accounts, approval and the counter.                                     *)

OpenAccountRead(s) ==
    /\ rows > 0 /\ limit = NoAccount
    /\ \E l \in 1 .. MaxAmount :
           Begin(s, [kind |-> "open account", key |-> NoRecord, limit |-> l, made |-> FALSE])
    /\ UNCHANGED creditVars

\* create_credit_account commits the account (customer_id is unique) ...
OpenAccountWrite(s) ==
    /\ Runs(s, "open account") /\ ~job[s].made
    /\ limit = NoAccount
    /\ limit' = job[s].limit
    /\ job' = [job EXCEPT ![s].made = TRUE]
    /\ UNCHANGED <<mainPC, rules, today, approval, rows, bills, collections, followUps>>

\* ... and on_account_created, in a commit of its own, what the rule says.
OpenAccountApproval(s) ==
    /\ Runs(s, "open account") /\ job[s].made
    /\ approval' = IF approval # NoRow THEN approval
                   ELSE [status |-> IF rules.approval THEN "pending" ELSE "approved",
                         counter |-> FALSE]
    /\ End(s)
    /\ UNCHANGED <<rules, today, limit, rows, bills, collections, followUps>>

SetCreditLimit ==
    /\ AtOnce
    /\ limit # NoAccount
    /\ limit' \in 1 .. MaxAmount
    /\ UNCHANGED <<rules, today, approval, rows, bills, collections, followUps>>

\* Bug: the decision forgets that the customer was made at the counter.
DecidedAnew(yes) == [status |-> IF yes THEN "approved" ELSE "rejected", counter |-> FALSE]

Decided(yes) == [approval EXCEPT !.status = IF yes THEN "approved" ELSE "rejected"]

DecideCustomer ==
    /\ AtOnce
    /\ approval # NoRow \/ limit # NoAccount
    /\ \E yes \in BOOLEAN : approval' = Decided(yes)
    /\ UNCHANGED <<rules, today, limit, rows, bills, collections, followUps>>

\* Bug: the person is not looked for.
FoundNever == FALSE

Found == rows > 0

\* find_or_create: the person is looked for ...
CounterRead(s) ==
    /\ Begin(s, [kind |-> "counter", key |-> NoRecord, found |-> Found,
                 account |-> limit # NoAccount])
    /\ UNCHANGED creditVars

\* ... and made when not found, with an account and a row to decide on when
\* there is no account.  A second row of the person is not followed further.
CounterWrite(s) ==
    /\ Runs(s, "counter")
    /\ rows < Cardinality(Session)
    /\ rows' = IF job[s].found THEN rows ELSE rows + 1
    /\ IF rows = 0 \/ (job[s].found /\ ~job[s].account)
       THEN /\ limit = NoAccount /\ approval = NoRow
            /\ limit' = 0
            /\ approval' = [status |-> "pending", counter |-> TRUE]
       ELSE UNCHANGED <<limit, approval>>
    /\ End(s)
    /\ UNCHANGED <<rules, today, bills, collections, followUps>>

-----------------------------------------------------------------------------
(* A credit bill (Services.create_credit_aware_sale).                      *)

Waits == approval.counter /\ approval.status = "pending"

\* Bug: this bill is left out of what the customer would owe.
OverLimitNow(amount) == Balance > limit

OverLimit(amount) == Balance + amount > limit

\* Bug: a waiting customer may always have one more.
FirstSaleAlways == Waits

FirstSale == Waits /\ Live = {}

Refused == rules.approval /\ approval.status \in {"pending", "rejected"}

\* authorize_sale: how may this bill go through, with an owner beside it?
Authorized(amount, owner) ==
    CASE FirstSale               -> "first"
      [] ~FirstSale /\ Waits     -> IF owner THEN "allowed" ELSE "no"
      [] ~Waits /\ (limit = NoAccount \/ Refused) -> "no"
      [] ~Waits /\ limit # NoAccount /\ ~Refused ->
             IF ~OverLimit(amount) THEN "plain"
             ELSE IF owner /\ rules.over = "warn" THEN "allowed" ELSE "no"

AuthorizeSale(s) ==
    /\ rows > 0
    /\ Cardinality(bills) < MaxBills
    /\ \E amount \in 1 .. MaxAmount, owner \in BOOLEAN :
           /\ Authorized(amount, owner) # "no"
           /\ Begin(s, [kind |-> "sale", key |-> NoRecord, amount |-> amount,
                        how |-> Authorized(amount, owner), ensured |-> FALSE])
    /\ UNCHANGED creditVars

\* ensure_credit_available, before the sale's first write.
EnsureCredit(s) ==
    /\ Runs(s, "sale") /\ ~job[s].ensured
    /\ job[s].how = "plain" => Outstanding + job[s].amount <= limit
    /\ job' = [job EXCEPT ![s].ensured = TRUE]
    /\ UNCHANGED <<mainPC, creditVars>>

Bill(day, amount, how) ==
    [no |-> Cardinality(bills) + 1, day |-> day, amount |-> amount, how |-> how, live |-> TRUE]

RecordSale(s) ==
    /\ Runs(s, "sale") /\ job[s].ensured
    /\ Cardinality(bills) < MaxBills
    /\ bills' = bills \cup {Bill(today, job[s].amount, job[s].how)}
    /\ End(s)
    /\ UNCHANGED <<rules, today, limit, approval, rows, collections, followUps>>

\* The bowser's bill may carry an earlier date (bowser_service.py).
BowserBill ==
    /\ AtOnce
    /\ rows > 0 /\ Cardinality(bills) < MaxBills
    /\ \E d \in 1 .. today, n \in 1 .. MaxAmount : bills' = bills \cup {Bill(d, n, "bowser")}
    /\ UNCHANGED <<rules, today, limit, approval, rows, collections, followUps>>

\* cancel_sale (module Forecourt) and void_bill.
CancelBill ==
    /\ AtOnce
    /\ \E b \in Live : bills' = (bills \ {b}) \cup {[b EXCEPT !.live = FALSE]}
    /\ UNCHANGED <<rules, today, limit, approval, rows, collections, followUps>>

RecordPayment ==
    /\ AtOnce
    /\ limit # NoAccount
    /\ \E n \in 1 .. MaxPaid - PaidUpTo(LastDay) :
           collections' = [collections EXCEPT ![today] = @ + n]
    /\ UNCHANGED <<rules, today, limit, approval, rows, bills, followUps>>

-----------------------------------------------------------------------------
(* Follow-ups.                                                             *)

AddFollowUp ==
    /\ AtOnce
    /\ limit # NoAccount /\ Cardinality(followUps) < MaxFollowUps
    /\ \E d \in Day \cup {NoPromise} :
           followUps' = followUps \cup
               {[id |-> Cardinality(followUps) + 1, promise |-> d, status |-> "open"]}
    /\ UNCHANGED <<rules, today, limit, approval, rows, bills, collections>>

\* Bug: a closed follow-up can be closed again.
MayCloseAny(f) == TRUE

MayClose(f) == f.status = "open"

CloseFollowUpRead(s) ==
    /\ \E f \in followUps, outcome \in Outcomes :
           /\ MayClose(f)
           /\ Begin(s, [kind |-> "close follow-up", key |-> NoRecord, id |-> f.id,
                        outcome |-> outcome])
    /\ UNCHANGED creditVars

CloseFollowUpWrite(s) ==
    /\ Runs(s, "close follow-up")
    /\ followUps' = {IF f.id = job[s].id THEN [f EXCEPT !.status = job[s].outcome] ELSE f :
                     f \in followUps}
    /\ End(s)
    /\ UNCHANGED <<rules, today, limit, approval, rows, bills, collections>>

NextDay ==
    /\ today < LastDay
    /\ today' = today + 1
    /\ UNCHANGED <<deskVars, rules, limit, approval, rows, bills, collections, followUps>>

-----------------------------------------------------------------------------
CreditInit ==
    /\ rules \in [approval : BOOLEAN, over : {"warn", "block"}]
    /\ today = 1
    /\ limit = NoAccount /\ approval = NoRow
    /\ rows \in {0, 1}
    /\ bills = {} /\ collections = [d \in Day |-> 0]
    /\ followUps = {}

\* Opening accounts, approving them, and billing.
SellingNext ==
    \/ SetCreditLimit \/ DecideCustomer \/ BowserBill \/ CancelBill \/ RecordPayment
    \/ \E s \in Session :
           \/ OpenAccountRead(s) \/ OpenAccountWrite(s) \/ OpenAccountApproval(s)
           \/ CounterRead(s) \/ CounterWrite(s)
           \/ AuthorizeSale(s) \/ EnsureCredit(s) \/ RecordSale(s)
           \/ GiveUp(s) /\ UNCHANGED creditVars

\* Collecting: payments and follow-ups as the days go by.
CollectingNext ==
    \/ BowserBill \/ CancelBill \/ RecordPayment \/ AddFollowUp \/ NextDay
    \/ \E s \in Session :
           \/ OpenAccountRead(s) \/ OpenAccountWrite(s) \/ OpenAccountApproval(s)
           \/ CloseFollowUpRead(s) \/ CloseFollowUpWrite(s)
           \/ GiveUp(s) /\ UNCHANGED creditVars

CreditNext == SellingNext \/ CollectingNext

CreditSpec == DesksInit /\ CreditInit /\ [][CreditNext]_<<deskVars, creditVars>>

-----------------------------------------------------------------------------
(* Properties.                                                             *)

BillRow == [no : 1 .. MaxBills, day : Day, amount : 1 .. MaxAmount,
            how : {"plain", "first", "allowed", "bowser"}, live : BOOLEAN]

\* Every row has the values its table allows; only a customer made at the
\* counter has the limit 0.
CreditTypeOK ==
    /\ today \in Day
    /\ limit \in {NoAccount} \cup 0 .. MaxAmount
    /\ limit = 0 => approval.counter
    /\ approval \in [status : {"none", "pending", "approved", "rejected"}, counter : BOOLEAN]
    /\ rows \in 0 .. Cardinality(Session)
    /\ bills \subseteq BillRow
    /\ collections \in [Day -> 0 .. MaxPaid]
    /\ followUps \subseteq [id : 1 .. MaxFollowUps, promise : 0 .. LastDay,
                            status : {"open"} \cup Outcomes]

\* In one window a bill nobody had to allow never takes what the customer
\* owes, bowser bills included, past the limit (authorize_sale and
\* ensure_credit_available sum the balance in two ways).
LimitKept ==
    [][~mainPC => \A b \in bills' \ bills :
           b.live /\ b.no \notin {o.no : o \in bills} /\ b.how = "plain"
               => Balance + b.amount <= limit]_<<deskVars, creditVars>>

\* In one window a customer made at the counter has one bill before an owner
\* decides, whatever was cancelled in between (counter_state).
FirstSaleOnce ==
    ~mainPC => Cardinality({b \in Live : b.how = "first"}) <= 1

\* In one window a person is made once (find_or_create).
PersonMadeOnce == ~mainPC => rows <= 1

\* On any day the payments cover the bills oldest first, and what the bills
\* leave open less what is not applied is the closing balance of a statement
\* to that day (apply_payments against statement_lines).
LedgerIsFifo ==
    \A d \in Day :
        LET bs == OldestFirst(UpTo(d))
            total == PaidUpTo(d)
            left == [i \in DOMAIN bs |-> Unpaid(bs, total, i)]
        IN  /\ \A i, j \in DOMAIN bs : bs[i].day < bs[j].day /\ left[i] > 0
                   => left[j] = bs[j].amount
            /\ SumFunction(left) - Pool(bs, total)[Len(bs)]
                   = Billed(UpTo(d)) - total

\* A customer who owes and is late, or whose promise has come due, is on the
\* list of the day unless somebody is still following up (due_to_chase).
NobodyForgotten ==
    /\ \A f \in OpenFollowUps : Balance > 0 /\ f.promise \in 1 .. today => Chased
    /\ Overdue /\ OpenFollowUps = {} => Chased

\* In one window a promise that was marked kept, broken or cancelled stays so.
OutcomeStays ==
    [][~mainPC => \A f \in followUps \ OpenFollowUps : f \in followUps']_<<deskVars, creditVars>>

\* What credit is trusted with: nobody owes more than was allowed, neither by
\* the limit, nor by the first sale, nor as a second customer; the ages of the
\* bills add up to the balance, and whoever should be called is on the list.
CreditIsControlled ==
    /\ LimitKept
    /\ []FirstSaleOnce
    /\ []PersonMadeOnce
    /\ []LedgerIsFifo
    /\ []NobodyForgotten
    /\ OutcomeStays

\* counter_customer_service.py:3: "The same person is never made twice".  Two
\* terminals that both looked before either wrote make two rows.
NeverMadeTwice == rows <= 1

\* credit_control_service.py:324: the list holds "customers past their
\* payment terms with no open promise".  A follow-up without a promised
\* date, never closed, keeps a late customer off the list.
OverdueIsChased ==
    Overdue /\ (\A f \in OpenFollowUps : f.promise = NoPromise) => Chased

\* credit_checks.py:1: "no bill went past the limit unless an owner's
\* override is on record".  The first bill of a customer made at the counter,
\* whose limit is 0, has no override.
PastLimitWasAllowed ==
    ~mainPC => \A b \in Live : b.how \notin {"allowed", "bowser"} /\ limit = 0
        => b.amount <= limit

=============================================================================
