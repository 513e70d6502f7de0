---------------------------- MODULE ReviewChain ----------------------------
(***************************************************************************)
(* What the review chain of a shift's figures promises (the header of      *)
(* entry_workflow_service.py): figures climb Entered, Verified, Approved,  *)
(* Locked one step at a time, a changed figure falls back to Entered in    *)
(* the same step, and a locked one does not change until it is reopened.   *)
(* figures numbers the successive contents of the shift's rows.            *)
(***************************************************************************)
EXTENDS Naturals

VARIABLES status, figures

Ladder == <<"verified", "approved", "locked">>
Rungs == {"verified", "approved", "locked"}

Init == status = "none" /\ figures = 0

\* The Close Shift desk starts the chain.
Enter ==
    /\ status = "none"
    /\ status' = "entered"
    /\ figures' \in {figures, figures + 1}

\* A figure changes; whatever was said about the old one is withdrawn.
Change ==
    /\ status # "locked"
    /\ figures' = figures + 1
    /\ status' = IF status \in Rungs THEN "entered" ELSE status

\* One step up, by the accountant or an owner.
Climb ==
    /\ \/ status = "entered" /\ status' = Ladder[1]
       \/ \E k \in 1..2 : status = Ladder[k] /\ status' = Ladder[k + 1]
    /\ UNCHANGED figures

\* An owner's correction, with a reason.
Reopen ==
    /\ status \in Rungs
    /\ status' = "entered"
    /\ UNCHANGED figures

Next == Enter \/ Change \/ Climb \/ Reopen

Spec == Init /\ [][Next]_<<status, figures>>

=============================================================================
