----------------------------- MODULE BankMatching -----------------------------
(***************************************************************************)
(* The matching rules of the bank reconciliation                           *)
(* (app/services/bank_matching.py): what the books expect at the bank      *)
(* against the lines of its statement.  An expected payment has an id, an  *)
(* amount, a date window, a reference and a direction; a line has an id, a *)
(* date, a credit, a debit, a reference and whether its text speaks of a   *)
(* reversal.  There is one bank account, which takes every payment mode.   *)
(***************************************************************************)
EXTENDS Integers, Sequences, FiniteSets, FiniteSetsExt, Functions, SequencesExt

CONSTANTS Fee,           \* bank_fee_tolerance_percent
          NoReference,
          MaxSubset,     \* MAX_SUBSET
          MaxCandidates, \* MAX_CANDIDATES
          ReversalDays   \* max_days of find_reversals

ASSUME MatchingAssumption ==
    /\ Fee \in 0 .. 99
    /\ {MaxSubset, MaxCandidates, ReversalDays} \subseteq Nat

AmountFor(l, direction) == IF direction = "credit" THEN l.credit ELSE l.debit

\* Received in full, or a little less, never more.
FitsFee(total, got) ==
    /\ 0 < got /\ got <= total
    /\ got * 100 >= total * (100 - Fee)

InWindow(e, l) == e.from <= l.date /\ l.date <= e.to

Fits(e, l) == InWindow(e, l) /\ AmountFor(l, e.direction) = e.amount

Total(E) == SumFunction([e \in E |-> e.amount])
Got(direction, R) == SumFunction([l \in R |-> AmountFor(l, direction)])

Ids(S) == {x.id : x \in S}

Precedes(x, y, key) == x[key] < y[key] \/ (x[key] = y[key] /\ x.id < y.id)

InOrder(S, key) ==
    CHOOSE q \in SetToSeqs(S) : \A i, j \in DOMAIN q : i < j => Precedes(q[i], q[j], key)

\* The first line by date; inside a window it is also the closest one.
First(R) == InOrder(R, "date")[1]

-----------------------------------------------------------------------------
(* propose: each rule goes on with what the rules before it left over.     *)

Nothing == [exps |-> {}, lines |-> {}, out |-> <<>>]

\* Bug: what a proposal takes stays free for the next.
TakeKept(acc, E, R, auto, charges) ==
    [acc EXCEPT !.out = Append(@, [exps |-> Ids(E), lines |-> Ids(R), auto |-> auto,
                                   charges |-> charges])]

Take(acc, E, R, auto, charges) ==
    [exps |-> acc.exps \cup Ids(E), lines |-> acc.lines \cup Ids(R),
     out |-> Append(acc.out, [exps |-> Ids(E), lines |-> Ids(R), auto |-> auto,
                              charges |-> charges])]

FreeE(acc, E) == {e \in E : e.id \notin acc.exps}
FreeR(acc, R) == {l \in R : l.id \notin acc.lines}

\* 1. The line carries the payment's own reference.
ByReference(acc, e, R) ==
    LET hits == {l \in FreeR(acc, R) : /\ e.reference # NoReference
                                       /\ l.reference = e.reference
                                       /\ AmountFor(l, e.direction) > 0}
        got == AmountFor(First(hits), e.direction)
    IN  IF hits = {} THEN acc
        ELSE Take(acc, {e}, {First(hits)}, FitsFee(e.amount, got), Max({0, e.amount - got}))

Rivals(acc, e, l, E) ==
    {x \in FreeE(acc, E) \ {e} : x.direction = e.direction /\ Fits(x, l)}

\* 2. One payment and one line with the same amount; or nearly the same.
ByAmount(acc, e, E, R) ==
    LET exact == {l \in FreeR(acc, R) : Fits(e, l)}
        near == {l \in FreeR(acc, R) : /\ InWindow(e, l)
                                       /\ FitsFee(e.amount, AmountFor(l, e.direction))}
    IN  CASE e.id \in acc.exps -> acc
          [] e.id \notin acc.exps /\ exact # {} ->
                 Take(acc, {e}, {First(exact)},
                      Cardinality(exact) = 1 /\ Rivals(acc, e, First(exact), E) = {}, 0)
          [] e.id \notin acc.exps /\ exact = {} /\ near # {} ->
                 Take(acc, {e}, {First(near)}, FALSE,
                      e.amount - AmountFor(First(near), e.direction))
          [] OTHER -> acc

\* The rules that put pieces together look at the first candidates only,
Candidates(S, key) ==
    {x \in S : Cardinality({y \in S : Precedes(y, x, key)}) < MaxCandidates}

Several(S) == {T \in SUBSET S : Cardinality(T) \in 2 .. MaxSubset}

\* and _subsets, which goes from the smallest up and in the candidates' order,
\* stops when it has found four.
Sooner(T, U, key) ==
    \/ Cardinality(T) < Cardinality(U)
    \/ /\ Cardinality(T) = Cardinality(U) /\ T # U
       /\ InOrder((T \ U) \cup (U \ T), key)[1] \in T

FirstFour(found, key) ==
    {T \in found : Cardinality({U \in found : Sooner(U, T, key)}) < 4}

\* 3. Several payments settled as one line: the only sum found, or the
\* only one that is exact.
ManyToOne(acc, l, E) ==
    LET direction == IF l.credit > 0 THEN "credit" ELSE "debit"
        got == AmountFor(l, direction)
        pool == {e \in FreeE(acc, E) : /\ e.direction = direction /\ InWindow(e, l)
                                       /\ e.amount * (100 - Fee) <= got * 100}
        found == FirstFour({T \in Several(Candidates(pool, "from")) : FitsFee(Total(T), got)},
                           "from")
        exact == {T \in found : Total(T) = got}
        pick == IF Cardinality(exact) = 1 THEN exact ELSE found
    IN  IF l.id \in acc.lines \/ Cardinality(pick) # 1 THEN acc
        ELSE LET T == CHOOSE T \in pick : TRUE IN Take(acc, T, {l}, FALSE, Total(T) - got)

\* 4. One payment that arrived in several lines.
OneToMany(acc, e, R) ==
    LET pool == {l \in FreeR(acc, R) : /\ InWindow(e, l)
                                       /\ AmountFor(l, e.direction) \in 1 .. e.amount - 1}
        found == FirstFour({T \in Several(Candidates(pool, "date")) :
                                FitsFee(e.amount, Got(e.direction, T))}, "date")
    IN  IF e.id \in acc.exps \/ Cardinality(found) # 1 THEN acc
        ELSE LET T == CHOOSE T \in found : TRUE
             IN  Take(acc, {e}, T, FALSE, e.amount - Got(e.direction, T))

Propose(E, R) ==
    LET es == InOrder(E, "from")
        one == FoldLeft(LAMBDA acc, e : ByReference(acc, e, R), Nothing, es)
        two == FoldLeft(LAMBDA acc, e : ByAmount(acc, e, E, R), one, es)
        three == FoldLeft(LAMBDA acc, l : ManyToOne(acc, l, E), two, InOrder(R, "date"))
    IN  FoldLeft(LAMBDA acc, e : OneToMany(acc, e, R), three, es).out

\* find_reversals: pairs of a credit and the later debit that undoes it.
Undoes(d, c) ==
    /\ c.credit > 0 /\ c.credit = d.debit
    /\ d.date - c.date \in 0 .. ReversalDays
    /\ d.reversal \/ (d.reference # NoReference /\ d.reference = c.reference)

TakeBack(acc, d, R) ==
    LET undone == {c \in R \ acc.taken : Undoes(d, c)} IN
        IF undone = {} THEN acc
        ELSE [taken |-> acc.taken \cup {First(undone)},
              pairs |-> Append(acc.pairs, <<First(undone).id, d.id>>)]

FindReversals(R) ==
    FoldLeft(LAMBDA acc, d : TakeBack(acc, d, R), [taken |-> {}, pairs |-> <<>>],
             InOrder({l \in R : l.debit > 0}, "date")).pairs

-----------------------------------------------------------------------------
(* What a run of the rules promises about its proposals, as predicates.    *)

\* No two proposals take the same payment or the same line.
ShareNothing(ps) ==
    \A i, j \in DOMAIN ps : i # j =>
        ps[i].exps \cap ps[j].exps = {} /\ ps[i].lines \cap ps[j].lines = {}

\* Money in goes with money in; nothing that is matched without a person, or
\* put together from several pieces, received more than was expected, and
\* the charges are what is missing.
NeverMoreThanExpected(ps, E, R) ==
    \A i \in DOMAIN ps :
        LET es == {e \in E : e.id \in ps[i].exps}
            ls == {l \in R : l.id \in ps[i].lines}
            way == (CHOOSE e \in es : TRUE).direction
        IN  /\ \A e \in es : e.direction = way
            /\ \A l \in ls : AmountFor(l, way) > 0
            /\ ps[i].auto \/ Cardinality(es) > 1 \/ Cardinality(ls) > 1
                   => FitsFee(Total(es), Got(way, ls))
                      /\ ps[i].charges = Total(es) - Got(way, ls)

\* A match nobody looks at is one the books and the statement leave no
\* choice about: no other payment and no other line fits.
Unambiguous(ps, E, R) ==
    \A i \in DOMAIN ps : \A e \in E, l \in R :
        /\ ps[i].auto /\ e.id \in ps[i].exps /\ l.id \in ps[i].lines
        /\ e.reference = NoReference
        => /\ \A m \in R : Fits(e, m) => m = l
           /\ \A x \in E : x.direction = e.direction /\ Fits(x, l) => x = e

=============================================================================
