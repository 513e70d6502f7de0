# Verification of the petrol pump ERP

A petrol pump's office software: shifts, nozzles, sales, stock, cash, credit,
payroll and bank books over one SQLite file.  It runs in two shapes.  On a
**single PC** the screens (Qt, or Electron with a local Python service) use the
services directly and only a background check worker or a second request runs
beside them.  On a **Main PC** several Client PCs reach the same services over
the LAN; then a process-wide write lock and per-record locks are installed.
The specifications here say what the program does in both shapes, check the
rules its users rely on, and prove the most important ones.

## 1. How the program runs, as far as it matters here

* One request has one database session (`api/deps.py`).  Sessions are created
  with autoflush off and objects do not expire, so an object keeps the values
  it was loaded with until the request ends.  A commit stores the columns whose
  value differs from the one loaded.
* Until its first `INSERT` or `UPDATE` a session holds no lock and every query
  sees the newest committed data.  From the first write to the commit nobody
  else can write: SQLite has one writer, and on the Main PC
  `api/lan/writelock.py` queues the writers in front of it.
* `unit_of_work` makes everything inside it one commit; outside it each
  repository call commits by itself.
* On the Main PC `api/lan/live.py` lets one changing request at a time through
  for each record named by the first two parts of the URL.  Requests to a whole
  collection (a new sale, a new shift) name no record, and neither do paths of
  four parts such as `/bowser/bills/<id>/void`.

So the interesting interleavings are those of *checks made before the first
write*.  `Forecourt`, `EntryReview` and the desks of the back office make such
reads actions of their own and the rest of the request one action; `WriteLock`
is the justification for that last part.

## 2. Inventory

| Component | State | Operations | What is hard | What makes it correct |
|---|---|---|---|---|
| Write path: `writelock.py`, `repositories/base.py` | write lock holder, SQLite's writer, uncommitted rows | take, release, commit, rollback, time-out, crash | two locks; release by hooks on every way out | one writer, no circular wait, no lock left behind, a unit of work is one commit |
| Audit log: `audit_log_repository.py` | rows chained by the previous row's hash | `record`, `verify_chain` | chain read and written apart; order by clock and random id | untouched chain verifies; rows only appended; rows and data agree |
| Shifts and assignments: `shift_service.py` | shift status, assignments | open, assign, complete, cancel, close, reopen | checks before locks; completion also sells | nobody assigned twice; closed means finished; completion settles |
| Sales and payments: `sale_service.py` | sales, receipts, payment status | create, settle, cancel, fail, refund | two records (sale, payment) describe one event | fuel back once; payment agrees with sale; receipts in order |
| Tank stock: `tank_service.py` | book stock, transactions, dips | receipt, issue, internal, adjustment, reconciliation | absolute stock written from an old read; periods by date | transactions explain the stock; dips explain the difference |
| Record locks and versions: `live.py` | lock and version per record | admit, bump | bump after the save; time limit | one change of a record at a time; stale edits refused |
| Review chain: `entry_workflow_service.py` | entry status, event history | enter, verify, approve, lock, reopen | acts on the entry it loaded | stamps are earned; history explains status; two owners |
| Lock guard: `entry_lock_guard.py` | none of its own | looks before every flush of guarded rows | its look is outside any lock | locked figures do not change |
| Close desk, shift close, tender totals, cash book | readings, totals, cash record | one transaction over several services; preview | rolled-back preview; carried-over meters and balances | all or nothing; meters continue; one active total |
| Reconciliation, shortages | lines, shortages, expenses | reconcile, approve, book | compares with sums read earlier; once-per-shift checks | a shift is reconciled once, a shortage booked once |
| Credit | accounts, approvals, overrides, bills | authorise sale, override, receive payment | limit checked before the sale's write | limit kept or overridden on record; first-in first-out ledger |
| Sign-in and passwords | failed attempts, lockout, reset codes | sign in, unlock, reset, change | read-modify-write counter; expiries | lockout after N failures; a code opens once |
| Procurement | orders, deliveries, invoices, payments | deliver, dip, unload, invoice, pay | status checked before the write | fuel received once; never overpaid |
| Payroll | months, lines, advances, payments | prepare, deduct, approve, pay, void | sums over history | paid once; paid as approved |
| Bank reconciliation | lines, expected payments, matches | import, match, confirm, lock, undo | claims read before the match | a line in one match only |
| Leave and attendance | requests, days | request, decide, mark, correct | overlap checked before the write | granted once, marked whole |
| Bowser | transfers, bills, meters, openings | fill, bill, void, read | no stock is kept: it is derived | the day carries what went before |
| Nozzles and prices | statuses, limit, price history | create, take out, assign, set price | limit and status checked before the write | in order, prices on record |
| Checks and worker | verdicts, newest token | request, run, record | bursts merged; runs beside requests | the latest save is checked |
| Live events, LAN guard | queues, streams, screens | publish, admit, read again | bounded queues; cancelled requests | screens become current |
| Devices and pairing | code, devices, revocation list | enrol, revoke, listen | commit and list apart; listener thread | a code used once; a revoked device stays out |
| Backup and restore | the database file | back up, restore, promote | restore under running sessions | a restore is recoverable |
| Mail outbox | queued messages | queue, send, give up | delivered before committed | settled within its tries |
| Windows: Electron shell, web session, Qt | services, windows, who is signed in | start, restart, quit; sign in, lock | awaits, late answers, nested event loops | one service; nobody sees another's figures |
| Settings, HTTP wiring, reports, migrations | none of record, or run once | read, show | none | outside |

`PROJECT.json` lists each component with its files and status, and every hazard
with the line where it bites and the properties that would catch it.

## 3. The modules

An MC module instantiates one or more components for TLC.  Where components
share no state (the desks of the back office, the services of the Main PC, the
windows of a PC) one MC module composes them: a variable `followed`, chosen at
the start, names the one that moves, and the others stay in their first state.
That is a union of instances, not a product, and no property relates two of
them; what does relate two is modelled in one module.

What a component is trusted with is stated by one definition, its *promise*: a
conjunction of the named parts that follow it in the module.  Each part has a
bug of its own in `mutants`, an operator beside the definition that it changes
(`HasRoomForOneMore` beside `HasRoom`), so no part of a promise is idle.

### AuditTrail, WriteLock, MCWriteLock

`WriteLock` is the path every write takes.  `appLock` is `_State.lock`, `dbLock`
SQLite's write transaction, `rows` the committed audit rows, `pending[w]` the
uncommitted ones, `dirty[w]` the uncommitted business change.  The actions follow
the code in order: `Take` (the cursor hook, and `record` taking the lock before
its read), `Change`, `Stamp` (id and time stamp are made), `ReadLatest`,
`Insert`, `Commit`, and `CommitFails`, `Fail` (time-out), `Rollback`, `Release`,
`Crash`.  An operation is a unit of work, a plain one (change and audit row in
two commits) or an audit row alone.  A hash is the id of the row it covers.
`AuditTrail` is what the trail promises: it only grows, at the end of the order
it is verified in, and it verifies.  `WriteLock` is shown to implement it.

### Forecourt, MCForecourt, MCForecourtMainPC

`ShiftService`, `SaleService` and the movements of `TankService`.  `shift`,
`assigned`, `sales` (each with its payment's status), `movements` and `stock` are
the tables; `request[s]` is what a session is doing, what it was told and what
it has read.  For each operation there is a *check* action per query made before
the first write (`AssignShift`, `CheckEmployee`, `CheckNozzle`, ...) and one
action for the rest (`Assign`).  `Complete` includes the settlement sale.
`CancelSale` writes the stock it computed from `seen`.  `Gated` installs the
record locks.  Left out: prices, permissions, customers and credit, tenders,
dispensers, texts; all nozzles draw from one tank.  `MCForecourtMainPC` keeps
each behaviour to the requests of one desk: the shifts', that of money and fuel
(both open shifts and sell), or the review of a closed shift (an instance of
`EntryReview` beside `Forecourt`), which keeps two requests at a time small.

### ReviewChain, EntryReview, MCEntryReview

`ReviewChain` is the chain as the accountant and owners are told it works: climb
one step at a time, a changed figure falls back to Entered in the same step, a
locked one does not change until it is reopened.  `EntryReview` is
`EntryWorkflowService` and the `before_flush` guard for one shift: every request
first reads the entry and later commits.  `figures` counts the committed changes
of the guarded rows; `events` is the stored history, each event annotated with
the value of `figures` at that time.  A save that flushes several guarded rows
is looked at again under the lock, so `SaveCommits` may decide on either look.
`Abandon` stands for every refusal after the read (failing checks, same owner),
errors and crashes.  Left out: texts, the audit row of an override, bulk updates
that bypass the flush, and rows moved from one shift to another.

### Desks and the back office, MCBackOffice

`Desks` is what the office screens share: sessions, the request each runs
(`job[s]`, with what it has read), the record its path names, and `mainPC`.  In
one window a single request runs; on the Main PC two that name the same record
wait for each other.  A request is a `...Read` action and a `...Write` action,
and `GiveUp` between them for a refusal, a failing step or a rollback.

| Module | Code | State and operations | Left out |
|---|---|---|---|
| `Payroll` | `payroll_service.py`, shortages | months, lines, payments, advances, shortages; prepare, type deductions, approve, pay, void | attendance (a fixed gross) |
| `Procurement` | `procurement_service.py` | orders, deliveries through checks and dips, tank level, invoices | prices, supplier data |
| `SignIn` | `auth_service.py`, `user_service.py` | the User row as a commit stores it, column by column; attempts, lockout and lapse, unlock, reset codes, passwords | hashing, roles |
| `Credit` | `credit_service.py`, `credit_control_service.py`, `counter_customer_service.py`, `customer_ledger.py` | one customer: limit, approval, counter row, bills, payments, follow-ups; the ledger is worked out from bills and payments | printed statements |
| `BankMatching`, `BankRecon` | `bank_matching.py`, `bank_recon_service.py` | the four matching rules and reversals as operators, with the cuts at 18 candidates and four sums found (which the run's three payments never reach; the theorems cover them); lines, sources, expected payments, matches | parsing of files |
| `CloseDesk` | `close_desk_service.py`, `shift_close_service.py`, `tender_entry_service.py`, `shift_cash_book_service.py` | readings of one nozzle, totals, cash books; the desk's one unit of work and its rolled-back preview | stand-ins, testing volumes |
| `Reconciliation` | `reconciliation_service.py`, `employee_shortage_service.py`, `expense_service.py` | sales and expenses of a shift, the lines, the shortage with its expense | other shifts |
| `Leave` | `leave_service.py`, `attendance_service.py` | one employee's requests and days | master data |
| `TankBook` | `tank_service.py`, `tank_transaction_repository.py` | what is in the tank and what the book says, movements by date with the fuel of cancelled sales, dips | temperature, density |
| `Bowser` | `bowser_service.py` | transfers, bills, meter readings, openings; what it holds is derived | the rupees |
| `Pumps` | `nozzle_service.py`, `fuel_service.py` | one dispenser's nozzles under their limit, assignments, prices and the sales billed at them | fuels, dip charts |

`MCBackOffice` follows them in seventeen modes.  In one window, because what is
promised of them holds there: sign in, passwords, selling, collecting,
statement, matching, readings, tank, bowser, nozzles.  On the Main PC only:
reconciliation.  In both: payroll, procurement, totals, cash book, leave, prices.

### The services of the Main PC, MCMainPC, and LanLive

| Module | Code | State and operations |
|---|---|---|
| `CheckWorker` | `check_worker.py`, `check_hook.py` | saves, answers cut off by the request limit or turned into errors, the newest token, the quiet half second, runs stored day by day, failures, sign-outs, restarts |
| `MailOutbox` | `mail_service.py`, `mail_scheduler.py` | one row a day, tries with back-off, cuts between delivery and commit |
| `Devices` | `devices.py`, `server.py` | codes, the enrolment port (which may open late or never) and its watcher thread, rows, the revocation list, crashes between them |
| `Backups` | `backup.py`, `backup_scheduler.py`, `system_health_service.py`, `promote.py` | files that exist before they are filled, nightly runs, off-device copies where there is a folder for them, restores and their safety copy |
| `LanLive` | `live.py`, `guard.py`, `client.ts`, `live.ts` | one record: version, lock, saves with and without a version, event queues, streams, polls, what each PC shows |

`MCMainPC` follows checks, mail, pairing, rows, backups, or the writers of
`WriteLock` under fairness.  `LanLive` has its own instance.

### The windows of one PC, MCWindows

`DesktopShell` is `main.ts` and `sidecar.ts`: starts, restarts, deaths of the
service, setting up the network, quitting, interleaved where a handler awaits; an
installation in too deep a folder, no free port and a service that never answers.
Only a service that became healthy is `watched`: the end of another is not told twice.
`WebSession` is who is signed in at the web screens and whether the Main PC is
believed to be reachable, with requests that are answered late, in any order or
never.  `QtWindow` is the Qt application: session timer, lock screen, nested
dialogs, and the one thread that works for its pages.  `MCWindows` follows one
of the three; the others are frozen in a state in which nothing is under way.

### Proof modules

`SumLemmas` (sums, sorting and folds over finite sets), `WriteLockProofs`,
`ForecourtProofs` (its assignments, then its books), `EntryReviewProofs`, `OfficeProofs`
(procurement, payroll, bank reconciliation, then nozzles, prices, tank and
bowser), `DeskProofs` (leave, sign-in, reconciliation, close desk, credit),
`ServiceProofs` (mail, checks, devices, backups, live events) and `WindowProofs` (web
session, Qt windows, Electron shell): section 6.

## 4. The runs

| Run | Instance | What it shows |
|---|---|---|
| `write_lock_main_pc` | 3 sessions, 3 operations, 3 rows, lock on | one writer, no circular wait, chain intact, rows and data agree, `AuditTrail` implemented, under refused commits, time-outs, rollbacks and crashes |
| `chain_breaks_on_equal_stamps` | clock may repeat | counterexample: `verify_chain` reports untouched rows |
| `forecourt_one_session` | 1 session, all requests, 2 assignments, 2 sales, 3 movements | the books' rules hold when requests do not overlap |
| `forecourt_main_pc` | 2 sessions, 2 nozzles, 2 employees, record locks, one desk: shifts, money and fuel, or the review (2 changes, 7 events) | no double assignment, completion settles, stock in the tank, fuel back once, receipts in order; two different owners, whatever saves fall in between |
| `second_assignment_unsettled` | 1 session | counterexample: a second assignment is settled against the first one's sales |
| `entry_review_one_session` | 1 session, 2 users, 3 changes, 8 events | stamps earned, history consistent, `ReviewChain` implemented |
| `locked_shift_changed` | 2 sessions, record locks | counterexample: figures change under the lock |
| `main_pc_services` | one service at a time, one stop or cut | saves are checked in the end, mail is settled within its tries, a removed PC stays removed, the pairing port closes, the night ends with a copy, every operation ends whole |
| `lan_live` | 2 PCs, 1 record, 2 changes, a queue of 1, 1 fault | a save with a version overwrites nothing its PC had not seen; screens catch up |
| `back_office` | one desk at a time, 2 requests | the promises of the eleven desks |
| `cancelled_sale_is_variance` | 1 session, one tank, 2 movements | counterexample: a cancelled sale shows up as unexplained variance |
| `client_windows` | shell, web session or Qt | starts, deaths and quits leave one service and no vanished app; no user is shown another's figures; an ended Qt session is noticed |

**Bounds.**  Every bound is a constant that guards the actions that count, or a
formula of an MC module named for it; the theorems of section 6 hold for every
value of the constants.

* *Sessions.*  Three workers are one holder, one waiter and one that can
  overtake; two sessions are enough where the hazard is one check and one write
  of another request.
* *Write lock.*  `MaxOps`, `MaxAudits`: two operations make a fork of the chain, a
  third row makes it visible from both sides.
* *Forecourt.*  `MaxAssignments` and `MaxSales` of 2 allow a second settlement and
  a second receipt; with `MaxLitres` 1 or 2, `Capacity` 3 and `OpeningStock` 2 the
  tank can be filled, emptied and refused in both directions; `MaxMovements`.
* *Review.*  `MaxEvents` of 7 holds a climb, a reopening and a second climb;
  `MaxFigures`.
* *Office.*  `MaxFailedLoginAttempts` 3 leaves a wrong attempt before the one that
  locks, `MaxLocks` 2 a lockout after a lockout; `MaxResetCodes` 2 and
  `MaxPasswords` 4 a code or password that a later one replaces.  `MaxShift`,
  `LastBowserDay` and `MaxReadings` of 3 let something be carried twice.  Two
  months would double-recover an advance (section 5); `LastMonth` 1 with
  `MaxPayments` 3 is enough for what is promised of one month.  Three nozzles
  under `Limits` {2, 3}, two open shifts, `Rates` {1, 2} and `MaxPrices` 3 let a
  limit and a price move.  `SmallStatement`, `SmallLimit`, `SmallBills`,
  `OnlyReadings` and `OneReading` keep amounts to their smallest values in the
  modes where the order of requests, and not the amounts, is in question.
* *Main PC.*  `MaxStops`, `MaxCuts`, `MaxRestarts`, `MaxMishaps` of 1: one failure at
  the worst moment.  `MaxSaves` 2 is a save during the run for another.
* *Windows.*  `MaxStarts` 3 is a start, one asked for while it goes on, and one
  after it; `MaxAsked` 2 requests on their way, `MaxOutages` 1, `MaxSignIns` 2,
  `MaxTasks` 3, `MaxPages` 2, `MaxLogins` 2.

**Symmetry.**  Sessions, workers, users, nozzles and employees where the
configuration says `SYMMETRY`, never with a liveness property (the properties of
`back_office` are all of the forms `[]P` and `[][A]_v`), and never ids that are
compared.

**Deadlock.**  `write_lock_*`, `forecourt_*` and `entry_review_*` check it; `Finished`
in `WriteLock` stands for the end of the bounded instance.  In `main_pc_services`,
`lan_live`, `back_office` and `client_windows` it is off, because a behaviour ends
when its days, requests or starts are used up.

**Fairness.**  `main_pc_services`, `lan_live` and `client_windows` assume some, of
what the program or its framework does by itself; nobody is obliged to save,
fail, sign out or quit.

* Threads that can run do: the write path's own steps (`Proceed`), the check
  worker, the mail sender's pass, the watchers of the pairing port, the backup
  scheduler.  `threading.Lock` is not first-in first-out; the operations of an
  instance are finite in number, so weak fairness is enough, where an endless
  supply of writers could starve one up to its time-out.
* The clock goes on: the quiet half second is over, a retry falls due.
* `lan_live`: reads are answered and requests are handled (`SF` for the latter,
  because the record lock they wait for is taken and freed by others;
  `asyncio.Lock` is first-in first-out), events are taken from the queue, a lost
  stream is tried again after 5 seconds, a PC without one polls every 20.
* `client_windows`: screens in sight read again once a minute and are answered or
  time out, the health poll and the stream are tried again, what the shell awaits
  comes or times out and `stopSidecar` kills what does not go, and the timer of
  the Qt session goes off once a minute.

**Record locks and the request limit.**  After `REQUEST_SECONDS` (120 s)
`api/lan/guard.py` tells the client of a time-out.  The handler's thread cannot
be cancelled and goes on; the record stays locked until the thread has ended,
but what follows the save (the version, the announcement, the request for the
checks) does not happen.  `LanLive` models that for the version and the
announcement (`TimeLimit`), `CheckWorker` for the checks (`Dropped`: `missed` is
the newest save no run was made for, until a later run ends); the other Main PC
instances need only that the lock is kept.

## 5. Where the code does not do what it says

Four runs end in a counterexample; `findings` in `PROJECT.json` quotes the line
each one contradicts: equal time stamps break the audit chain
(`audit_log_repository.py:103`), a second assignment is not settled
(`sale_service.py:165`), locked figures change (`entry_lock_guard.py:53`), and the
fuel of a cancelled sale is taken for unexplained variance (`tank_service.py:330`:
the sale is subtracted, and the adjustment that puts the fuel back is not added).
What does hold of a dip is `VarianceIsLossButReturns`.

Three configurations outside the listed runs show what the locks are for.  Run
them with `tlc -continue -config <file> <module>.tla`; each of their properties
is violated:

* `WriteLockSinglePC.cfg` (`MCWriteLock`): without the write lock, two rows chain
  onto the same one (`ChainIntact`), and a crash between the two commits of a
  plain operation leaves a change without its row (`EveryChangeAudited`).
* `ForecourtMoneyRaces.cfg` (`MCForecourt`): even with record locks a concurrent
  movement vanishes from the stock (`LedgerExplainsStock`), a receipt number is
  taken before it is written (`ReceiptStaysFree`; the unique index then refuses
  the sale, so `ReceiptsInOrder` holds), and a payment that was given back is
  overwritten (`GivenBackIsFinal`).
* `ForecourtShiftRaces.cfg` (`MCForecourt`): without record locks two requests
  assign one nozzle (`NoDoubleAssignment`).  `ClosedShiftIsFinished` fails there
  and also with `Gated = TRUE`, because the Close Shift desk
  (`/close-shift/<id>`) and an assignment (`/shifts/<id>`) name different records;
  a sale names none, so `NoSaleOnClosedShift` fails likewise.

Further statements of documents, comments and interface texts that the code does
not keep are written down as definitions, each with the quotation above it, next
to the properties of their module.  They are in no listed run; put one into a
configuration of its MC module to see the behaviour (with the mode or `mainPC`
it speaks of; some need a bound raised by one).

| Module | Statement | What happens |
|---|---|---|
| `Payroll` | `RecoveredWithinGiven` | two draft months recover the same advance |
| `Procurement` | `NeverDrifts` | on the Main PC a cancellation lands after an unload |
| `SignIn` | `LockCanExpire` | on the Main PC a right sign-in clears the stamp of a lock set beside it, which then never lapses |
| `SignIn` | `TemporaryIsReplaced` | a second reset that read the account earlier leaves "must change" off |
| `Credit` | `NeverMadeTwice` | two terminals make two rows for one person |
| `Credit` | `PastLimitWasAllowed` | the first bill of a counter customer has no override |
| `Credit` | `OverdueIsChased` | an old follow-up without a date keeps a late customer off the list |
| `BankRecon` | `LockedIsNotUndone` | an undoing that read the match before it was locked |
| `BankRecon` | `AutoIsUnambiguous` | an earlier rule takes one of two lines, the rest looks unambiguous |
| `BankRecon` | `ReceivedIsOnStatement` | a matched total is typed again and shown as received |
| `CloseDesk` | `MeterNeverBilledTwice`, `TotalsAreReplaced` | two shifts, or two screens of one shift, at the same moment on the Main PC |
| `Reconciliation` | `BooksBalanceImmediately` | the expense is pending and counts only when approved |
| `Leave` | `SawWhatItReplaces` | a correction overwrites a leave it has not seen |
| `TankBook` | `EveryVarianceIsLoss` | a movement on the day of a dip is summed for two dips |
| `Bowser` | `OneInternalCustomer`, `OnlyStandingTransfers` | two first transfers make two customers; a cancelled transfer still counts |
| `Pumps` | `BilledAtPrice` | the price changes between the reading and the commit of a sale |
| `CheckWorker` | `SavedMeansChecked` | a save outlives the request limit, so its checks are not asked for; whoever asked last signs out before the run |
| `MailOutbox` | `OneSummaryADay` | a try cut before its outcome is stored is made again |
| `Devices` | `CodeKeepsDoorOpen`, `EveryPortCloses`, `RemovedIsListed` | a new code between the second look and `stop()`; a listener that opens after its 5 seconds has no watcher; of two removals the older list is written last |
| `Backups` | `NothingLostOnMainPC`, `RecentMeansWhole`, `SaidMeansProven`, `StartIsNeverBlocked` | saves after the safety copy; an unfinished file is the newest; a copy that failed its proof counts as done; a failing backup stops the start |
| `LanLive` | `RefusalsAreDeserved`, `ScreensFollow` | a preview raises the version; a change between the loss of a stream and its return is not shown |
| `DesktopShell` | `OneServiceWhoeverAsks`, `OnlyUnexpectedIsTold`, `OneScreen` | "Try again" pressed twice; a death that was asked for is told; an old window stays on a closed proxy |
| `WebSession` | `SignInComesBack`, `LoggedOutIsEnded`, `UnlockedByCurrent`, `ShownIsSignedIn`, `OnlyOwnLossEnds` | no poll on the sign-in page; answers to the person before |
| `QtWindow` | `LockedShowsNothing`, `DisabledForTheDuration` | a preview opens before the lock screen; the first of two results enables the buttons |

Seen while reading and not modelled: `ui/background.py` lends the window's one
database session to its worker thread, which SQLAlchemy does not support; what
then happens to the session's objects is not a state of these models.

## 6. What is proved

`tlapm` checks every proof to its last leaf.  The constants are arbitrary, subject
to the named assumptions of the modules (numbers are naturals, sets of ids are
disjoint from their "none"), so the theorems hold for any number of sessions,
rows, days and amounts.  None of the properties below is inductive by itself; for
each the inductive invariant was first checked by TLC and then proved, one step
per action.

**SumLemmas.**  Stock, litres, deductions, cash and balances are sums over finite
sets, written with the folds of the community modules.  A fold computes with a
`CHOOSE`, so what it gives is shown by an induction.  The library's induction
theorems take an operator and cannot be used here; instead the module argues by
the smallest counterexample (`SmallestSubset`), which needs no operator: a fold
over a set exists and is unique (`AddsExists`, `AddsOnce`), therefore a sum takes
its members in any order (`SumTakesAny`), grows by a new member (`SumGrows`),
depends on nothing else (`SumAgrees`), follows a changed member (`SumChanges`) and
splits over a set and the rest (`SumOfBoth`).  In the same way every finite set can
be put in order (`SortedExists`), and the sum along any listing of a set is the sum
over the set (`SumInOrder`).  For a pass over a list, whose running result is a
record and not a number, `FoldOfList` says that what the start has and each step
keeps is true of the end (`FoldExists`, `FoldHolds`): "what is kept" is a set of pairs of
how far the pass is and what it has, so that no operator is needed.

**WriteLockProofs.**  `TypeCorrect`; `OneWriterAtATime`; with the lock installed
`NoWaitInACircle`; with distinct time stamps also `ChainStaysIntact` and
`AuditTrailImplemented`.  `LockInv` says which lock goes with which step: an
uncommitted row means SQLite's lock, which means the write lock unless a rollback
is under way, and nobody waits holding it.  On it rests `StampInv`: a row being
built is younger than everything its writer can see, because nobody else can
commit meanwhile.  On both rests `ChainInv`: the committed rows *together with* the
writer's own already form a chain, and a row about to be inserted names their
newest.  `RowsTellTheTruth` and `OneCommitPerUnit` need no write lock: `WorkInv` says
where a worker stands in its operation from what it has uncommitted.

**ForecourtProofs.**  `TypeCorrect`, `StockStaysInTank` and `ReceiptsStayInOrder`
need no record locks at all: the invariants say that a level or number worked out
earlier was admissible when it was worked out, and that a number read is at most
one past the last, so a stale one is refused by the unique index.
`NobodyAssignedTwice` assumes `Gated`: `AssignInv` says a request in the middle of an
assignment holds its shift's record and what it has looked up is still true,
because every action that could falsify it holds that record too or only ends
assignments.

*Its books.*  For one session (`OneSession`), `StockIsExplained`,
`ClosedStaysClosed` and `GivenBackStays`: `Fresh` says that what the one request has
read is still so, and with it every write keeps the books in agreement; the
stock follows the ledger by `SumGrows`.  With record locks `SaleCancelledOnce`:
`Claims` says that a request cancelling a sale holds its record and the sale still
stands.  With or without them `CompletedIsCovered`: the settlement sale makes up
exactly what the sum over the recorded sales leaves.

**EntryReviewProofs.**  `TypeCorrect`; `DifferentApprover` under `Gated`, from
`MovesTakeTurns`: review moves exclude each other, and saves only append events
that are not approvals, so the comparison with the last approver stays true
until the lock commits.  `StampsAreEarned` with its corollary `HistoryIsWhole`, and
`ImplementsReviewChain`, assume `OneSession`: then `ReadsAreFresh` makes every commit
act on the current entry, and each step of `EntryReview` is a step of `ReviewChain`
or a stutter.  With two sessions both are false (`locked_shift_changed`).

**OfficeProofs, DeskProofs.**  The desks share one shape.  `DesksInv` says
that in one window a single request runs, and nowhere do two name the same
record.  For each desk, `...Job(j)` states what a request that has read and not yet
written can rely on, on the Main PC only as much as its record keeps others away,
in one window everything it has read; `...Tables` states what the tables satisfy;
and their conjunction is inductive.  The proof of every write is: the job's
facts make the new row admissible, and the new row leaves every other request
with what *it* relies on.

* `FuelIsReceivedOnce` (procurement): a delivery keeps its record from the dip to
  the unload, so it is received once and the receipts are the sum over the
  unloaded deliveries; an order's status is recomputed from such a sum, so
  "delivered" and "partially delivered" are true on any number of PCs, and in one
  window an order with an unloaded delivery is one of the two; an invoice is
  never overpaid.
* `SalaryIsPaid` (payroll): no path names a record, so across sessions only
  monotone facts survive (`RowsGoOn`: advances are voided but never dropped, a
  settled month stays settled, payments are only added).  They are enough for
  "paid in full, after its approval"; "once, and as the line says" is for one
  window, as is `VoidKeepsRecovered`.
* `MoneyStaysMatchedOnce` (bank reconciliation): what the four rules propose for any
  statement and any books is found by passes over sorted lists, each of which keeps
  `Sound`: no payment and no line is in two proposals, and each proposal asks for no
  more than was expected (`ProposeIsSound`); reversals pair a credit and a debit once
  (`ReversalsAreFound`).  `BankInv` says that matches and lines are numbered, that only
  a confirmed match is locked, and that in one window what a run has read of the
  matches is still what is claimed when it writes (`BankJob`).  Then both passes over
  what was found, the reversals first and then the proposals, keep every payment and
  line in one live match, but for a credit marked as not ours that the bank took back,
  and leave the locked ones alone (`ReversalsKeep`, `ProposalsKeep`).
* `PumpsStayInOrder`, `TankStaysExplained`, `BowserStaysCarried`, and, over all steps
  of `MCBackOffice`, `FuelStaysExplained`.  The tank: what it holds is the last dip and
  the sum moved since, less what was lost (`TankFollowsMoves`), and of that sum a dip
  explains all but what cancelled sales gave back (`ReturnsAreCounted`).  The bowser: a day's
  closing is the next one's opening, because the sum over the rows up to a day is
  the sum before it and the sum of the day.
* `LeaveIsTaken`: who decides a request holds its record, so it is still pending;
  in one window what did not overlap when it was read still does not.
* `GuessingStaysHeldOff`: in one window the row a request has read is the row as it
  is (`SignInJob`), so the counter counts.  On the Main PC it does not: a lapsed
  lockout is lifted by storing only the columns that changed, and the counter can
  pass its limit, which is why this promise is made for one window.
* `ShortageStaysBookedOnce`: the lines add up to the sums of sales and expenses
  (`CashBase`) *unless something counted has moved since they were read*, a history
  variable; the shortage's expense and receivable belong together (`ShortageFollows`).
* `NothingIsCountedTwice` (close desk): on any number of PCs a cash book is written
  once and a shift opens with the cash the one before closed with, by splitting
  the sum over the run of earlier books; in one window a payment mode has one
  active total and, when only the first opening is typed, each reading starts
  where the last one ended or later, because the reading and the total the
  desk has looked up are still the last ones when it writes (`DeskJob`).
* `CreditStaysControlled` (credit): in one window what a request has checked (within
  the limit, no bill yet, no such person, still open) holds when it writes
  (`CreditJob`).  The ledger needs no session's discipline: what is left of the
  payments after a bill is what they exceed the bills so far by (`PoolIs`, by the
  smallest counterexample), so an open bill leaves nothing to those after it and
  the open bills less the unused payments are the balance (`OldestAreCovered`);
  hence a late customer owes (`OverdueOwes`) and is on the day's list.  Assumes at
  least one session and finitely many.
* `BackOfficeKeepsTypes`, over all steps of `MCBackOffice`: each step is a request of
  the desk that is followed, or of none (`OfficeStep`), and leaves the tables of the
  others alone (`OfficeRest`).  `OfficeInv` therefore has the followed desk's whole
  invariant, from the lemmas above, and of the others only their types.  For bank
  matching and sign-in those types are proved in one window, where they are followed.

**ServiceProofs.**  One inductive invariant for each service says where its thread
stands; `ServicesInv` is their conjunction, from which `MainPCKeepsTypes`.

* `MailKeepsCount`: `MailInv` counts the tries with the row (`TriesAreCounted`).  The
  row in hand has been tried once more than it says, a cut between the answer and
  the commit makes that difference last, and nothing else does, because a pass goes on
  only with rows that are still pending (`PassForm`); so the server is asked at most `GIVE_UP_AFTER` times and once for every
  cut, a sent row was delivered, and one given up was tried that often.
* `ChecksAreCurrent`: `WorkerInv` says what a run knows and where the newest save is.
  A run knows every save up to its beginning; the days behind it are written from
  that, those ahead are older (`RunIsSound`).  The newest save is with its saver, asked
  for, in the run going on, among those whose run was lost, or done (`NewestIsKnown`);
  so a worker at rest has done it or lost it, and what is stored is never older than
  what was there.
* `DoorKeepsItsPromise`: in `DevicesInv`, the code in force has let nobody in, counting the
  PCs whose enrolment is on its way, and a code not made yet has no trace
  (`PairingInv`); and what a removal has read to list is all there is to list as long
  as no other removal begins (`RemovalInv`).
* `BackupsKeepTheirPromise`: where requests run one after the other every save is in the
  live file or in a whole one; while the live file is being restored it is in a
  whole one, because the safety copy came first; and a file that is being filled was
  empty (`LossIsPrevented`).  The runs of a night are counted by its row and by the
  orders and stops that took the row away (`RunsAreCounted`).
* `LiveKeepsTypes` and `SavesSawNewest`: one save at a time is past the guard (`LockIsHeld`), and
  whoever remembers the version in force has seen every change but those not
  counted and the one that is being counted (`TagsAreFresh`).  A save that passed the
  comparison keeps the lock until it commits, so nobody changes the record in
  between.

**WindowProofs.**

* `ScreensShowOwnData`: what a read that is still wanted brings is of the session that is
  open, and a sign-in is on its way only while nobody is signed in (`OwnCalls`).
* `QtKeepsOrder`: what is asked later is done and shown later because one thread does it
  (`OneThread`, `WorkInOrder`): no page goes back to an older result, and the wait cursor
  counts the pieces not yet handed over.  A session that is over has its message
  up as long as its window is there (`SeatIsTold`).
* `ShellKeepsWatch`: where the user waits for a start to end there is one launch at a
  time and it knows of the only service (`OneRun`); on the Main PC, whose service is not
  the shell's, there is none (`MainPCHasNone`).  The two action properties follow
  from it step by step.
* `WindowsKeepTypes`, over all steps of `MCWindows`.

**Assumptions.**  The theorems use the named `ASSUME`s of the modules, which TLC
evaluates in every run: the bounds are natural numbers, and the values that
stand for "nothing" (`NoRun`, `Idle`, `Nothing`, ...) are none of the values they
are told apart from; in `MCBackOffice` a meter can show the readings that are typed
(`MeterAssumption`).  What a theorem needs beyond that (`LockInstalled`, `Gated`,
`OneSession`, finitely many sessions) is in its statement.

**Only model-checked.**

* Liveness and fairness: `EveryOperationEnds`, and the parts with `~>` of `ChecksKeepUp`,
  `MailIsSettled`, `DoorIsKept`, `BackupsAreThere`, `OthersAreSeen` and `WindowsKeepTheirWord`; all their
  safety parts are theorems.

## 7. What is not modelled, and the plan

*Not modelled, because it keeps no state of record or is outside this program:*
the screens' layout and forms (some sixteen thousand lines of Qt, and the web
pages), reports, dashboards and digests (they only read), schema migrations and
packaging, parsing of statement files, cryptography and certificates, settings.
They are most of the repository by size: the modules map the services, the
repositories they use and the Main PC's infrastructure, and stand for a small
share of all lines.  *Left out of the parts that are modelled:* the rupees beside
the bowser's litres, lubricants, internal fuel, dip charts, employees' master data
and documents, roles and permissions, loss of audit rows in the desks (`WriteLock`
has it for every caller).

Next: the screens that are only partly modelled (dip charts, the rupees beside the
bowser's litres), and the failure of a single statement in the middle of a desk's
write, which the desks take as one transaction because `WriteLock` shows it is one.
