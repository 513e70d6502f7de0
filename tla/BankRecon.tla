------------------------------ MODULE BankRecon ------------------------------
(***************************************************************************)
(* The bank reconciliation (app/services/bank_recon_service.py): lines of  *)
(* the bank's statement are imported, what the books expect is brought up  *)
(* to date from the records behind it, and matches between the two are     *)
(* proposed, confirmed, made by hand, undone and locked.  None of its      *)
(* paths names a record, so on the Main PC nothing keeps two requests      *)
(* apart but the write lock.                                               *)
(***************************************************************************)
EXTENDS Desks, BankMatching

CONSTANTS LastDate,     \* bound: dates 1 .. LastDate
          Window,       \* bank_date_window_days
          MaxTransfer,    \* bound: amounts 1 .. MaxTransfer
          References,   \* bound: references that occur
          Directions,   \* bound: directions that occur
          MaxLines, MaxSources, MaxMatches   \* bounds

ASSUME BankAssumption ==
    /\ {LastDate, MaxTransfer} \subseteq Nat \ {0}
    /\ {Window, MaxLines, MaxSources, MaxMatches} \subseteq Nat
    /\ Directions \subseteq {"credit", "debit"}

VARIABLES bankLines,  \* BankStatementRow rows
          sources,    \* the records behind the expected receipts
          expected,   \* ExpectedReceipt per source key
          matches     \* BankMatch rows with their items

bankVars == <<bankLines, sources, expected, matches>>

Source == 1 .. MaxSources
Gone == [status |-> "none"]

LiveMatches(ms) == {m \in ms : m.status # "void"}

\* claimed_ids: in a suggested or confirmed match.
ClaimedE(ms) == UNION {m.exps : m \in LiveMatches(ms)}
ClaimedR(ms) == UNION {m.rows : m \in LiveMatches(ms)}

Match(ms, kind, status, charges, exps, rows) ==
    [id |-> Cardinality(ms) + 1, kind |-> kind, status |-> status, locked |-> FALSE,
     charges |-> charges, exps |-> exps, rows |-> rows]

Room(ms) == Cardinality(ms) <= MaxMatches

-----------------------------------------------------------------------------
(* The statement, and the records elsewhere.                               *)

\* Rows already there are skipped; (account, row_hash) is unique.
ImportStatement ==
    /\ AtOnce
    /\ Cardinality(bankLines) < MaxLines
    /\ \E d \in 1 .. LastDate, n \in 1 .. MaxTransfer, way \in {"credit", "debit"},
          ref \in References, word \in BOOLEAN :
           /\ word => way = "debit"
           /\ bankLines' = bankLines \cup
                 {[id |-> Cardinality(bankLines) + 1, date |-> d, reference |-> ref,
                   credit |-> IF way = "credit" THEN n ELSE 0,
                   debit |-> IF way = "debit" THEN n ELSE 0, reversal |-> word]}
    /\ UNCHANGED <<sources, expected, matches>>

\* A total, deposit or payment is recorded; keys are used in order.
RecordSource ==
    /\ AtOnce
    /\ \E k \in Source, d \in 1 .. LastDate, n \in 1 .. MaxTransfer, ref \in References,
          way \in Directions :
           /\ \A i \in Source : sources[i].status = "none" <=> i >= k
           /\ sources' = [sources EXCEPT ![k] = [status |-> "active", amount |-> n, date |-> d,
                                                  reference |-> ref, direction |-> way]]
    /\ UNCHANGED <<bankLines, expected, matches>>

\* It is typed again, or withdrawn.
ChangeSource ==
    /\ AtOnce
    /\ \E k \in Source :
           /\ sources[k].status # "none"
           /\ \/ /\ sources[k].status = "active"
                 /\ sources' = [sources EXCEPT ![k].status = "void"]
              \/ \E n \in 1 .. MaxTransfer :
                     sources' = [sources EXCEPT ![k].amount = n, ![k].status = "active"]
    /\ UNCHANGED <<bankLines, expected, matches>>

-----------------------------------------------------------------------------
(* run_matching.                                                           *)

\* sync_expected: changed amounts are taken over, withdrawn records void.
Synced(wanted, exp) ==
    [k \in Source |-> IF wanted[k].status = "void" /\ exp[k] = Gone THEN Gone ELSE wanted[k]]

ToMatch(exp, ms) ==
    {[id |-> k, amount |-> exp[k].amount, from |-> exp[k].date, to |-> exp[k].date + Window,
      reference |-> exp[k].reference, direction |-> exp[k].direction] :
     k \in {i \in Source \ ClaimedE(ms) : exp[i].status = "active"}}

UnclaimedLines(ms) == {l \in bankLines : l.id \notin ClaimedR(ms)}

\* Bug: a locked match of the credit is undone as well.
MayPairAlways(ms, pair) == TRUE

\* _pair_reversals leaves what is paired or locked alone.
MayPair(ms, pair) ==
    /\ pair[2] \notin ClaimedR(ms)
    /\ \A m \in LiveMatches(ms) : pair[1] \in m.rows => m.kind # "reversal" /\ ~m.locked

\* A match of the credit is undone, a line marked as not ours stays so.
PairReversal(ms, pair) ==
    IF ~MayPair(ms, pair) THEN ms
    ELSE LET undone == {m \in LiveMatches(ms) : m.kind = "match" /\ pair[1] \in m.rows}
         IN  (ms \ undone) \cup {[m EXCEPT !.status = "void"] : m \in undone}
                 \cup {Match(ms, "reversal", "confirmed", 0, {}, {pair[1], pair[2]})}

AfterReversals(pairs, ms) == FoldLeft(LAMBDA acc, p : PairReversal(acc, p), ms, pairs)

\* The reversals that are left to pair.
ToPair(ms) ==
    FoldLeft(LAMBDA ps, p : IF MayPair(ms, p) THEN Append(ps, p) ELSE ps, <<>>,
             FindReversals(bankLines))

AddProposal(ms, p) ==
    ms \cup {Match(ms, "match", IF p.auto THEN "confirmed" ELSE "suggested",
                   p.charges, p.exps, p.lines)}

RunRead(s) ==
    /\ Begin(s, [kind |-> "run", key |-> NoRecord, wanted |-> sources,
                 changed |-> Synced(sources, expected) # expected,
                 pairs |-> ToPair(matches),
                 proposals |-> Propose(ToMatch(expected, matches), UnclaimedLines(matches))])
    /\ UNCHANGED bankVars

\* The write lock is taken by the first change to what is expected, else by
\* the first reversal, else by the first match; what is read after it is
\* current.
RunWrite(s) ==
    /\ Runs(s, "run")
    /\ LET j == job[s]
           exp == IF j.changed THEN Synced(j.wanted, expected) ELSE expected
           pairs == IF j.changed THEN FindReversals(bankLines) ELSE j.pairs
           paired == AfterReversals(pairs, matches)
           ps == IF j.changed \/ j.pairs # <<>>
                 THEN Propose(ToMatch(exp, paired), UnclaimedLines(paired))
                 ELSE j.proposals
       IN  /\ expected' = exp
           /\ matches' = FoldLeft(LAMBDA ms, p : AddProposal(ms, p), paired, ps)
           /\ Room(matches')
    /\ End(s)
    /\ UNCHANGED <<bankLines, sources>>

-----------------------------------------------------------------------------
(* What people do with matches.                                            *)

\* Bug: a lock does not keep a match from being undone.
MayUndoLocked(m) == m.status # "void"

\* unmatch: a locked match has to be unlocked first.
MayUndo(m) == m.status # "void" /\ ~m.locked

\* The match is read, its status looked at, and the answer kept.
AnswerRead(s) ==
    /\ \E m \in matches, answer \in {"confirmed", "void"}, reject \in BOOLEAN :
           /\ answer = "confirmed" \/ reject => m.status = "suggested"
           /\ answer = "void" /\ ~reject => MayUndo(m)
           /\ Begin(s, [kind |-> "answer", key |-> NoRecord, id |-> m.id, status |-> answer])
    /\ UNCHANGED bankVars

\* confirm, reject and unmatch write the status.
AnswerWrite(s) ==
    /\ Runs(s, "answer")
    /\ matches' = {IF m.id = job[s].id THEN [m EXCEPT !.status = job[s].status] ELSE m :
                   m \in matches}
    /\ End(s)
    /\ UNCHANGED <<bankLines, sources, expected>>

LockRead(s) ==
    /\ \E m \in matches, locked \in BOOLEAN :
           /\ m.status = "confirmed"
           /\ Begin(s, [kind |-> "lock", key |-> NoRecord, id |-> m.id, locked |-> locked])
    /\ UNCHANGED bankVars

LockWrite(s) ==
    /\ Runs(s, "lock")
    /\ matches' = {IF m.id = job[s].id THEN [m EXCEPT !.locked = job[s].locked] ELSE m :
                   m \in matches}
    /\ End(s)
    /\ UNCHANGED <<bankLines, sources, expected>>

\* Bug: what was received is not held against what was expected.
NotTooMuchUnchecked(total, got) == TRUE

NotTooMuch(total, got) == got <= total

\* Bug: what other matches hold is not looked at.
MayMatchAnything(E, R) == TRUE

MayMatch(E, R) == E \cap ClaimedE(matches) = {} /\ R \cap ClaimedR(matches) = {}

\* manual_match and, without expected payments, mark_not_ours.
ManualRead(s) ==
    /\ \E E \in SUBSET Source, R \in (SUBSET Ids(bankLines)) \ {{}} :
           /\ \A k \in E : expected[k] # Gone
           /\ E = {} => Cardinality(R) = 1
           /\ MayMatch(E, R)
           /\ LET way == IF E = {} THEN "credit"
                         ELSE expected[CHOOSE k \in E : TRUE].direction
                  total == SumFunction([k \in E |-> expected[k].amount])
                  got == Got(way, {l \in bankLines : l.id \in R})
              IN  /\ \A k \in E : expected[k].direction = way
                  /\ E # {} => NotTooMuch(total, got)
                  /\ Begin(s, [kind |-> "manual", key |-> NoRecord, exps |-> E, rows |-> R,
                               charges |-> IF E = {} THEN 0 ELSE total - got])
    /\ UNCHANGED bankVars

ManualWrite(s) ==
    /\ Runs(s, "manual")
    /\ LET j == job[s] IN
           matches' = matches \cup
               {Match(matches, IF j.exps = {} THEN "not_ours" ELSE "match", "confirmed",
                      j.charges, j.exps, j.rows)}
    /\ Room(matches')
    /\ End(s)
    /\ UNCHANGED <<bankLines, sources, expected>>

-----------------------------------------------------------------------------
BankInit ==
    /\ bankLines = {}
    /\ sources = [k \in Source |-> Gone]
    /\ expected = [k \in Source |-> Gone]
    /\ matches = {}

\* Statements and records of every shape, for the rules to work on.
StatementNext == ImportStatement \/ RecordSource

MatchingNext ==
    \/ ChangeSource
    \/ \E s \in Session :
           \/ RunRead(s) \/ RunWrite(s)
           \/ AnswerRead(s) \/ AnswerWrite(s)
           \/ LockRead(s) \/ LockWrite(s)
           \/ ManualRead(s) \/ ManualWrite(s)
           \/ GiveUp(s) /\ UNCHANGED bankVars

BankNext == StatementNext \/ MatchingNext

BankSpec == DesksInit /\ BankInit /\ [][BankNext]_<<deskVars, bankVars>>

-----------------------------------------------------------------------------
(* Properties.                                                             *)

SourceRow == [status : {"active", "void"}, amount : 1 .. MaxTransfer, date : 1 .. LastDate,
              reference : References, direction : Directions]
MatchRow == [id : 1 .. MaxMatches, kind : {"match", "not_ours", "reversal"},
             status : {"suggested", "confirmed", "void"}, locked : BOOLEAN,
             charges : 0 .. MaxTransfer * MaxSources, exps : SUBSET Source,
             rows : SUBSET (1 .. MaxLines)]

\* Every row has the values its table allows.
BankTypeOK ==
    /\ \A k \in Source : sources[k] \in SourceRow \cup {Gone}
    /\ \A k \in Source : expected[k] \in SourceRow \cup {Gone}
    /\ matches \subseteq MatchRow

\* What the rules would propose for the whole statement and all the books.
AllProposals == Propose(ToMatch(sources, {}), bankLines)

\* Whatever statement meets whatever books, no payment and no line is
\* proposed twice, and nothing received exceeds what was expected (propose).
ProposalsAddUp ==
    /\ ShareNothing(AllProposals)
    /\ NeverMoreThanExpected(AllProposals, ToMatch(sources, {}), bankLines)

\* In one window an expected payment is in one live match at a time, and so
\* is a line unless the bank reversed a credit that was marked as not ours
\* (run_matching, manual_match, mark_not_ours, _pair_reversals).
ClaimedOnce ==
    ~mainPC => \A m, n \in LiveMatches(matches) : m # n =>
        /\ m.exps \cap n.exps = {}
        /\ m.rows \cap n.rows # {} => {m.kind, n.kind} = {"not_ours", "reversal"}

\* In one window a match an owner has locked stays as it is until an owner
\* unlocks it, whatever runs of the matching find (unmatch, _pair_reversals).
LockedMatchStays ==
    [][~mainPC => \A m \in matches :
           m.locked => \E n \in matches' : n.id = m.id /\ n.status = m.status
      ]_<<deskVars, bankVars>>

\* What bank matching is trusted with: money is claimed once, by a proposal
\* and by a match, and a locked match stays.
MoneyIsMatchedOnce ==
    /\ []ProposalsAddUp
    /\ []ClaimedOnce
    /\ LockedMatchStays

\* bank_recon_service.py:4: "A confirmed match an owner has locked cannot be
\* undone by anyone else".  An undoing that read the match before the lock
\* was committed undoes it afterwards.
LockedIsNotUndone == \A m \in matches : m.locked => m.status = "confirmed"

\* bank_matching.py:5: only "exactly one expected amount and exactly one bank
\* line" that fit each other are matched without a person.  A rule that has
\* taken one of two lines for another payment finds the rest unambiguous.
AutoIsUnambiguous == Unambiguous(AllProposals, ToMatch(sources, {}), bankLines)

\* bank_checks.py:3: "what the books say should reach the bank against what
\* the bank statement shows".  A matched total that is typed again later is
\* shown as received in full.
ReceivedIsOnStatement ==
    ~mainPC => \A m \in matches : m.status = "confirmed" /\ m.kind = "match" =>
        MapThenSumSet(LAMBDA k : expected[k].amount, m.exps) - m.charges
            <= Got(expected[CHOOSE k \in m.exps : TRUE].direction,
                   {l \in bankLines : l.id \in m.rows})

=============================================================================
