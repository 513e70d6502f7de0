---------------------------- MODULE MCForecourt ----------------------------
EXTENDS Forecourt, TLC

CONSTANTS s1, s2, h1, n1, n2, e1, e2

MCOneSession == {s1}
MCTwoSessions == {s1, s2}
MCShift == {h1}
MCNozzle1 == {n1}
MCNozzle2 == {n1, n2}
MCEmployee1 == {e1}
MCEmployee2 == {e1, e2}

\* The requests of the shift screens and of the attendants' sales.
ShiftDesk == {"open", "assign", "complete", "cancel assignment", "close",
              "close desk", "reopen", "sell"}

\* The requests that move fuel or money.
MoneyDesk == {"open", "sell", "cancel sale", "payment", "move stock"}

\* Sessions, nozzles and employees are interchangeable.
TwoSymmetry ==
    Permutations(Session) \cup Permutations(Nozzle) \cup Permutations(Employee)

=============================================================================
