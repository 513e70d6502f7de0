----------------------------- MODULE ServiceProofs -----------------------------
(***************************************************************************)
(* Proofs about the services of the Main PC and about one record that      *)
(* several PCs change, for any number of sessions, days, files and PCs.    *)
(***************************************************************************)
EXTENDS MCMainPC, LanLive, FiniteSetTheorems, TLAPS

(***************************************************************************)
(* The mail outbox (module MailOutbox).                                    *)
(***************************************************************************)

PendingMail == {d \in MailDay : outbox[d].status = "pending"}

\* A pass goes on with rows that are pending; the row whose outcome is being
\* stored is no longer among those left.
PassForm ==
    \/ pass = NoPass
    \/ \E L \in SUBSET PendingMail : pass = [at |-> "next", left |-> L]
    \/ \E L \in SUBSET PendingMail, d \in PendingMail, at \in {"accepted", "refused"} :
           d \notin L /\ pass = [at |-> at, left |-> L, row |-> d]

\* The mail server has answered for the row of d, and that is not stored yet.
InHand(d) == pass.at \in {"accepted", "refused"} /\ pass.row = d

\* The tries stored and those lost to a cut make up the tries made.
TriesAreCounted ==
    \A d \in MailDay :
        /\ attempted[d] >= outbox[d].attempts
        /\ attempted[d] <= outbox[d].attempts + cuts + 1
        /\ InHand(d) => attempted[d] >= outbox[d].attempts + 1
        /\ ~ InHand(d) => attempted[d] <= outbox[d].attempts + cuts

\* What a row says has happened.
RowsAreTrue ==
    \A d \in MailDay :
        /\ outbox[d].status = "pending" => outbox[d].attempts < GiveUpAfter
        /\ outbox[d].status = "gave_up" => outbox[d].attempts = GiveUpAfter
        /\ outbox[d].status = "sent" => delivered[d] >= 1
        /\ pass.at = "accepted" /\ pass.row = d => delivered[d] >= 1

MailInv ==
    /\ MailTypeOK /\ PassForm /\ TriesAreCounted /\ RowsAreTrue
    /\ {delivered, attempted} \subseteq [MailDay -> Nat]

LEMMA MailStarts == MailInit => MailInv
<1>. SUFFICES ASSUME MailInit PROVE MailInv
  OBVIOUS
<1>1. pass = [at |-> "idle"] /\ pass.at = "idle" /\ cuts = 0
  BY DEF MailInit, NoPass
<1>2. \A d \in MailDay : outbox[d] = [status |-> "none", attempts |-> 0]
                         /\ delivered[d] = 0 /\ attempted[d] = 0
  BY DEF MailInit, NotQueued
<1>3. MailTypeOK
  <2>1. outbox \in [MailDay -> [status : {"none", "pending", "sent", "gave_up"},
                                attempts : 0 .. GiveUpAfter]]
    <3>1. [status |-> "none", attempts |-> 0] \in
              [status : {"none", "pending", "sent", "gave_up"}, attempts : 0 .. GiveUpAfter]
      BY MailAssumption
    <3>2. outbox = [d \in MailDay |-> [status |-> "none", attempts |-> 0]]
      BY DEF MailInit, NotQueued
    <3>. QED BY <3>1, <3>2
  <2>2. today \in MailDay /\ cuts \in 0 .. MaxCuts /\ switches \in 0 .. MaxSwitches
    BY MailAssumption DEF MailInit, MailDay
  <2>. QED BY <2>1, <2>2 DEF MailInit, MailTypeOK
<1>4. PassForm /\ {delivered, attempted} \subseteq [MailDay -> Nat]
  BY DEF MailInit, PassForm
<1>5. TriesAreCounted /\ RowsAreTrue
  BY <1>1, <1>2 DEF TriesAreCounted, RowsAreTrue, InHand
<1>. QED BY <1>3, <1>4, <1>5 DEF MailInv

\* The rows' types, spelt out for one row.
LEMMA MailRow ==
    ASSUME MailInv, NEW d \in MailDay
    PROVE  /\ outbox[d] \in [status : {"none", "pending", "sent", "gave_up"}, attempts : 0 .. GiveUpAfter]
           /\ outbox[d].attempts \in 0 .. GiveUpAfter /\ attempted[d] \in Nat /\ delivered[d] \in Nat
           /\ outbox[d].status \in {"none", "pending", "sent", "gave_up"}
           /\ cuts \in Nat /\ GiveUpAfter \in Nat \ {0}
           /\ pass.at \in {"idle", "next", "accepted", "refused"}
BY MailAssumption DEF MailInv, MailTypeOK, NoPass

\* Clock and owner change nothing that is said of the rows.
LEMMA MailAside ==
    ASSUME MailInv, UNCHANGED <<outbox, pass, delivered, attempted, cuts>>, MailTypeOK'
    PROVE  MailInv'
<1>1. PassForm' /\ TriesAreCounted' /\ RowsAreTrue'
  BY DEF MailInv, PassForm, PendingMail, TriesAreCounted, RowsAreTrue, InHand
<1>. QED BY <1>1 DEF MailInv

\* A pass that starts, ends or is cut.
LEMMA MailPass ==
    ASSUME MailInv, Tick \/ TickWithoutSummary \/ PassEnds \/ PassCut
    PROVE  MailInv'
<1>1. /\ UNCHANGED <<delivered, attempted, hourCome, enabled, today, waiting, switches>>
      /\ cuts' \in 0 .. MaxCuts /\ cuts' >= cuts
      /\ \A d \in MailDay : InHand(d) => cuts' = cuts + 1
  BY MailAssumption DEF Tick, TickWithoutSummary, PassEnds, PassCut, MailInv, MailTypeOK, InHand, NoPass
<1>2. /\ outbox' \in [MailDay -> [status : {"none", "pending", "sent", "gave_up"},
                                  attempts : 0 .. GiveUpAfter]]
      /\ \A d \in MailDay : \/ outbox'[d] = outbox[d]
                            \/ /\ outbox[d].attempts = 0 /\ outbox'[d].attempts = 0
                               /\ outbox'[d].status = "pending"
  <2>1. CASE Tick
    <3>1. CASE outbox' = outbox
      BY <3>1 DEF MailInv, MailTypeOK
    <3>2. CASE /\ ~ QueuedAlready(today)
               /\ outbox' = [outbox EXCEPT ![today] = [status |-> "pending", attempts |-> 0]]
      <4>1. outbox[today].attempts = 0
        BY <3>2 DEF QueuedAlready, NotQueued
      <4>2. [status |-> "pending", attempts |-> 0] \in
               [status : {"none", "pending", "sent", "gave_up"}, attempts : 0 .. GiveUpAfter]
        BY MailAssumption
      <4>3. today \in MailDay /\ outbox \in [MailDay -> [status : {"none", "pending", "sent", "gave_up"},
                                                         attempts : 0 .. GiveUpAfter]]
        BY DEF MailInv, MailTypeOK
      <4>. QED BY <3>2, <4>1, <4>2, <4>3
    <3>. QED BY <2>1, <3>1, <3>2 DEF Tick
  <2>2. CASE TickWithoutSummary \/ PassEnds \/ PassCut
    <3>1. outbox' = outbox
      BY <2>2 DEF TickWithoutSummary, PassEnds, PassCut
    <3>. QED BY <3>1 DEF MailInv, MailTypeOK
  <2>. QED BY <2>1, <2>2
<1>3. PassForm' /\ pass'.at \in {"idle", "next"}
  <2>1. CASE Tick \/ TickWithoutSummary
    <3>1. pass' = [at |-> "next", left |-> Due(outbox')]
      BY <2>1 DEF Tick, TickWithoutSummary
    <3>2. Due(outbox') \subseteq PendingMail'
      BY DEF Due, PendingMail
    <3>. QED BY <3>1, <3>2 DEF PassForm
  <2>2. CASE PassEnds \/ PassCut
    <3>1. pass' = NoPass
      BY <2>2 DEF PassEnds, PassCut
    <3>. QED BY <3>1 DEF PassForm, NoPass
  <2>. QED BY <2>1, <2>2
<1>4. MailTypeOK'
  <2>1. pass' = NoPass \/ (pass'.at \in {"next", "accepted", "refused"} /\ pass'.left \subseteq MailDay)
    BY <1>3 DEF PassForm, PendingMail
  <2>. QED BY <1>1, <1>2, <2>1 DEF MailInv, MailTypeOK
<1>5. TriesAreCounted' /\ RowsAreTrue'
  <2>1. ASSUME NEW d \in MailDay
        PROVE  /\ ~ InHand(d)' /\ attempted[d] >= outbox'[d].attempts
               /\ attempted[d] <= outbox'[d].attempts + cuts'
               /\ attempted[d] <= outbox'[d].attempts + cuts' + 1
               /\ outbox'[d].status = "pending" => outbox'[d].attempts < GiveUpAfter
               /\ outbox'[d].status = "gave_up" => outbox'[d].attempts = GiveUpAfter
               /\ outbox'[d].status = "sent" => delivered[d] >= 1
    <3>1. ~ InHand(d)'
      BY <1>3 DEF InHand
    <3>2. /\ attempted[d] >= outbox[d].attempts
          /\ attempted[d] <= outbox[d].attempts + cuts + 1
          /\ ~ InHand(d) => attempted[d] <= outbox[d].attempts + cuts
          /\ outbox[d].status = "pending" => outbox[d].attempts < GiveUpAfter
          /\ outbox[d].status = "gave_up" => outbox[d].attempts = GiveUpAfter
          /\ outbox[d].status = "sent" => delivered[d] >= 1
      BY DEF MailInv, TriesAreCounted, RowsAreTrue
    <3>3. attempted[d] <= outbox[d].attempts + cuts'
      BY <1>1, <3>2, MailRow
    <3>4. outbox[d].attempts \in Nat /\ attempted[d] \in Nat /\ cuts' \in Nat
      BY <1>1, MailRow, MailAssumption
    <3>5. CASE outbox'[d] = outbox[d]
      BY <3>1, <3>2, <3>3, <3>4, <3>5
    <3>6. CASE outbox[d].attempts = 0 /\ outbox'[d].attempts = 0 /\ outbox'[d].status = "pending"
      BY <3>1, <3>2, <3>3, <3>4, <3>6, MailAssumption
    <3>7. \/ outbox'[d] = outbox[d]
          \/ outbox[d].attempts = 0 /\ outbox'[d].attempts = 0 /\ outbox'[d].status = "pending"
      BY <1>2
    <3>. QED BY <3>5, <3>6, <3>7
  <2>2. \A d \in MailDay : ~ (pass'.at = "accepted" /\ pass'.row = d)
    BY <1>3
  <2>. QED BY <1>1, <2>1, <2>2 DEF TriesAreCounted, RowsAreTrue
<1>. QED BY <1>1, <1>3, <1>4, <1>5 DEF MailInv

\* The mail server answers.
LEMMA MailTried == ASSUME MailInv, Deliver PROVE MailInv'
<1>1. PICK d \in pass.left, accepted \in BOOLEAN, sent \in BOOLEAN :
          /\ accepted => sent
          /\ delivered' = [delivered EXCEPT ![d] = @ + IF sent THEN 1 ELSE 0]
          /\ attempted' = [attempted EXCEPT ![d] = @ + 1]
          /\ pass' = [at |-> IF accepted THEN "accepted" ELSE "refused",
                      left |-> pass.left \ {d}, row |-> d]
  BY DEF Deliver
<1>2. pass.at = "next" /\ pass.left \subseteq PendingMail
      /\ UNCHANGED <<today, hourCome, enabled, outbox, waiting, cuts, switches>>
  <2>1. pass.at = "next" /\ UNCHANGED <<today, hourCome, enabled, outbox, waiting, cuts, switches>>
    BY DEF Deliver
  <2>2. pass # NoPass
    BY <2>1 DEF NoPass
  <2>3. ASSUME NEW L \in SUBSET PendingMail, pass = [at |-> "next", left |-> L]
        PROVE  pass.left \subseteq PendingMail
    BY <2>3
  <2>4. ASSUME NEW L \in SUBSET PendingMail, NEW e \in PendingMail, NEW at \in {"accepted", "refused"},
               pass = [at |-> at, left |-> L, row |-> e]
        PROVE  FALSE
    BY <2>1, <2>4
  <2>. QED BY <2>1, <2>2, <2>3, <2>4 DEF MailInv, PassForm
<1>3. d \in MailDay /\ d \in PendingMail /\ PendingMail' = PendingMail
  BY <1>1, <1>2 DEF PendingMail
<1>4. pass'.at \in {"accepted", "refused"} /\ pass'.row = d /\ (pass'.at = "accepted" => sent)
      /\ pass'.left \subseteq MailDay
  BY <1>1, <1>2 DEF PendingMail
<1>5. PassForm'
  <2>. DEFINE L == pass.left \ {d}  at == IF accepted THEN "accepted" ELSE "refused"
  <2>1. L \in SUBSET PendingMail' /\ d \in PendingMail' /\ at \in {"accepted", "refused"} /\ d \notin L
    BY <1>1, <1>2, <1>3
  <2>2. pass' = [at |-> at, left |-> L, row |-> d]
    BY <1>1
  <2>. HIDE DEF L, at
  <2>. QED BY <2>1, <2>2 DEF PassForm
<1>6. MailTypeOK'
  BY <1>2, <1>4 DEF MailInv, MailTypeOK
<1>7. {delivered', attempted'} \subseteq [MailDay -> Nat]
      /\ attempted'[d] = attempted[d] + 1 /\ delivered'[d] = delivered[d] + (IF sent THEN 1 ELSE 0)
      /\ \A e \in MailDay : e # d => attempted'[e] = attempted[e] /\ delivered'[e] = delivered[e]
  BY <1>1, <1>3 DEF MailInv
<1>8. \A e \in MailDay : ~ InHand(e) /\ (InHand(e)' <=> e = d)
  BY <1>2, <1>4 DEF InHand
<1>9. ASSUME NEW e \in MailDay
      PROVE  /\ attempted'[e] >= outbox[e].attempts
             /\ attempted'[e] <= outbox[e].attempts + cuts + 1
             /\ InHand(e)' => attempted'[e] >= outbox[e].attempts + 1
             /\ ~ InHand(e)' => attempted'[e] <= outbox[e].attempts + cuts
             /\ outbox[e].status = "sent" => delivered'[e] >= 1
             /\ pass'.at = "accepted" /\ pass'.row = e => delivered'[e] >= 1
  <2>1. /\ attempted[e] >= outbox[e].attempts
        /\ attempted[e] <= outbox[e].attempts + cuts
        /\ outbox[e].status = "sent" => delivered[e] >= 1
    BY <1>8 DEF MailInv, TriesAreCounted, RowsAreTrue
  <2>2. outbox[e].attempts \in Nat /\ attempted[e] \in Nat /\ delivered[e] \in Nat /\ cuts \in Nat
    BY MailRow
  <2>3. CASE e = d
    BY <1>4, <1>7, <1>8, <2>1, <2>2, <2>3
  <2>4. CASE e # d
    BY <1>4, <1>7, <1>8, <2>1, <2>2, <2>4
  <2>. QED BY <2>3, <2>4
<1>10. TriesAreCounted' /\ RowsAreTrue'
  <2>1. RowsAreTrue
    BY DEF MailInv
  <2>. QED BY <1>2, <1>9, <2>1 DEF TriesAreCounted, RowsAreTrue
<1>. QED BY <1>5, <1>6, <1>7, <1>10 DEF MailInv

\* What came of the try is stored.
LEMMA MailStored == ASSUME MailInv, MailSent \/ MailFailed PROVE MailInv'
<1>1. PICK d \in PendingMail, at \in {"accepted", "refused"}, L \in SUBSET PendingMail :
          d \notin L /\ pass = [at |-> at, left |-> L, row |-> d]
  <2>1. pass.at \in {"accepted", "refused"}
    BY DEF MailSent, MailFailed
  <2>2. pass # NoPass
    BY <2>1 DEF NoPass
  <2>3. ASSUME NEW L \in SUBSET PendingMail, pass = [at |-> "next", left |-> L]
        PROVE  FALSE
    BY <2>1, <2>3
  <2>. QED BY <2>2, <2>3 DEF MailInv, PassForm
<1>2. d \in MailDay /\ outbox[d].status = "pending" /\ pass.row = d /\ pass.at = at /\ pass.left = L
  BY <1>1 DEF PendingMail
<1>3. /\ UNCHANGED <<delivered, attempted, hourCome, enabled, today, cuts, switches>>
      /\ pass' = [at |-> "next", left |-> L]
      /\ waiting' \in SUBSET MailDay
  BY <1>2 DEF MailSent, MailFailed, MailInv, MailTypeOK
<1>4. PICK status \in {"pending", "sent", "gave_up"} :
          /\ outbox' = [outbox EXCEPT ![d] = [status |-> status, attempts |-> outbox[d].attempts + 1]]
          /\ status = "sent" => pass.at = "accepted"
          /\ status = "pending" => ~ outbox[d].attempts + 1 >= GiveUpAfter
          /\ status = "gave_up" => outbox[d].attempts + 1 >= GiveUpAfter
  <2>1. CASE MailSent
    BY <1>2, <2>1 DEF MailSent
  <2>2. CASE MailFailed
    BY <1>2, <2>2 DEF MailFailed, MustGiveUp
  <2>. QED BY <2>1, <2>2
<1>5. /\ outbox \in [MailDay -> [status : {"none", "pending", "sent", "gave_up"}, attempts : 0 .. GiveUpAfter]]
      /\ outbox[d].attempts \in Nat /\ outbox[d].attempts < GiveUpAfter /\ GiveUpAfter \in Nat
  BY <1>2, MailAssumption, MailRow DEF MailInv, MailTypeOK, RowsAreTrue
<1>6. /\ outbox' \in [MailDay -> [status : {"none", "pending", "sent", "gave_up"}, attempts : 0 .. GiveUpAfter]]
      /\ outbox'[d].status = status /\ outbox'[d].attempts = outbox[d].attempts + 1
      /\ \A e \in MailDay : e # d => outbox'[e] = outbox[e]
  <2>1. [status |-> status, attempts |-> outbox[d].attempts + 1] \in
            [status : {"none", "pending", "sent", "gave_up"}, attempts : 0 .. GiveUpAfter]
    BY <1>4, <1>5
  <2>. QED BY <1>2, <1>4, <1>5, <2>1
<1>7. PassForm' /\ pass'.at = "next"
  <2>1. L \in SUBSET PendingMail'
    BY <1>1, <1>2, <1>6 DEF PendingMail
  <2>. QED BY <1>3, <2>1 DEF PassForm
<1>8. MailTypeOK'
  <2>1. pass'.at \in {"next", "accepted", "refused"} /\ pass'.left \subseteq MailDay
    BY <1>1, <1>3 DEF PendingMail
  <2>. QED BY <1>3, <1>6, <2>1 DEF MailInv, MailTypeOK
<1>9. ASSUME NEW e \in MailDay
      PROVE  /\ attempted[e] >= outbox'[e].attempts
             /\ attempted[e] <= outbox'[e].attempts + cuts
             /\ attempted[e] <= outbox'[e].attempts + cuts + 1
             /\ outbox'[e].status = "pending" => outbox'[e].attempts < GiveUpAfter
             /\ outbox'[e].status = "gave_up" => outbox'[e].attempts = GiveUpAfter
             /\ outbox'[e].status = "sent" => delivered[e] >= 1
  <2>1. /\ attempted[e] >= outbox[e].attempts
        /\ attempted[e] <= outbox[e].attempts + cuts + 1
        /\ InHand(e) => attempted[e] >= outbox[e].attempts + 1
        /\ ~ InHand(e) => attempted[e] <= outbox[e].attempts + cuts
        /\ outbox[e].status = "pending" => outbox[e].attempts < GiveUpAfter
        /\ outbox[e].status = "gave_up" => outbox[e].attempts = GiveUpAfter
        /\ outbox[e].status = "sent" => delivered[e] >= 1
        /\ pass.at = "accepted" /\ pass.row = e => delivered[e] >= 1
    BY DEF MailInv, TriesAreCounted, RowsAreTrue
  <2>2. outbox[e].attempts \in Nat /\ attempted[e] \in Nat /\ delivered[e] \in Nat /\ cuts \in Nat
    BY MailRow
  <2>3. InHand(e) <=> e = d
    BY <1>1, <1>2 DEF InHand
  <2>4. CASE e = d
    BY <1>2, <1>4, <1>5, <1>6, <2>1, <2>2, <2>3, <2>4
  <2>5. CASE e # d
    BY <1>6, <2>1, <2>2, <2>3, <2>5
  <2>. QED BY <2>4, <2>5
<1>10. TriesAreCounted' /\ RowsAreTrue'
  <2>1. \A e \in MailDay : ~ InHand(e)' /\ ~ (pass'.at = "accepted" /\ pass'.row = e)
    BY <1>7 DEF InHand
  <2>. QED BY <1>3, <1>9, <2>1 DEF TriesAreCounted, RowsAreTrue
<1>. QED BY <1>3, <1>7, <1>8, <1>10 DEF MailInv

LEMMA MailStep == MailInv /\ [MailNext]_mailVars => MailInv'
<1>. SUFFICES ASSUME MailInv, [MailNext]_mailVars PROVE MailInv'
  OBVIOUS
<1>1. CASE HourComes
  BY <1>1, MailAside DEF HourComes, MailInv, MailTypeOK
<1>2. CASE DayEnds
  <2>1. today' \in MailDay
    BY <1>2, MailAssumption DEF DayEnds, MailInv, MailTypeOK, MailDay
  <2>. QED BY <1>2, <2>1, MailAside DEF DayEnds, MailInv, MailTypeOK
<1>3. CASE Switch
  <2>1. switches' \in 0 .. MaxSwitches
    BY <1>3, MailAssumption DEF Switch, MailInv, MailTypeOK
  <2>. QED BY <1>3, <2>1, MailAside DEF Switch, MailInv, MailTypeOK
<1>4. ASSUME NEW d \in MailDay, RetryDue(d) PROVE MailInv'
  BY <1>4, MailAside DEF RetryDue, MailInv, MailTypeOK
<1>5. CASE UNCHANGED mailVars
  BY <1>5, MailAside DEF mailVars, MailInv, MailTypeOK
<1>. QED BY <1>1, <1>2, <1>3, <1>4, <1>5, MailPass, MailTried, MailStored DEF MailNext, SenderStep

LEMMA MailSafe == MailInv => MailTypeOK /\ TriesAreBounded /\ OutcomeIsTrue
<1>. SUFFICES ASSUME MailInv PROVE MailTypeOK /\ TriesAreBounded /\ OutcomeIsTrue
  OBVIOUS
<1>1. ASSUME NEW d \in MailDay
      PROVE  /\ attempted[d] <= GiveUpAfter + cuts
             /\ outbox[d].status = "sent" => delivered[d] >= 1
             /\ outbox[d].status = "gave_up" => attempted[d] >= GiveUpAfter
  <2>1. /\ attempted[d] >= outbox[d].attempts
        /\ attempted[d] <= outbox[d].attempts + cuts + 1
        /\ ~ InHand(d) => attempted[d] <= outbox[d].attempts + cuts
        /\ outbox[d].status = "pending" => outbox[d].attempts < GiveUpAfter
        /\ outbox[d].status = "gave_up" => outbox[d].attempts = GiveUpAfter
        /\ outbox[d].status = "sent" => delivered[d] >= 1
    BY DEF MailInv, TriesAreCounted, RowsAreTrue
  <2>2. InHand(d) => outbox[d].status = "pending"
    <3>1. pass = NoPass => ~ InHand(d)
      BY DEF NoPass, InHand
    <3>2. ASSUME NEW L \in SUBSET PendingMail, pass = [at |-> "next", left |-> L]
          PROVE  ~ InHand(d)
      BY <3>2 DEF InHand
    <3>3. ASSUME NEW L \in SUBSET PendingMail, NEW e \in PendingMail, NEW at \in {"accepted", "refused"},
                 pass = [at |-> at, left |-> L, row |-> e]
          PROVE  InHand(d) => outbox[d].status = "pending"
      BY <3>3 DEF InHand, PendingMail
    <3>. QED BY <3>1, <3>2, <3>3 DEF MailInv, PassForm
  <2>3. /\ outbox[d].attempts \in 0 .. GiveUpAfter /\ attempted[d] \in Nat /\ delivered[d] \in Nat
        /\ cuts \in Nat /\ GiveUpAfter \in Nat
    BY MailRow
  <2>. QED BY <2>1, <2>2, <2>3
<1>. QED BY <1>1 DEF MailInv, TriesAreBounded, OutcomeIsTrue

\* However often a pass is cut, the mail server is asked no more often than
\* promised for one day's summary, and what a row says of it has happened
\* (mail_service.py _attempt, _failed).
THEOREM MailKeepsCount == MailSpec => []TriesAreBounded /\ []OutcomeIsTrue
<1>1. MailSpec => []MailInv
  BY MailStarts, MailStep, PTL DEF MailSpec
<1>. QED BY <1>1, MailSafe, PTL

(***************************************************************************)
(* The background checks (module CheckWorker).                             *)
(***************************************************************************)

\* A run knows every save up to its beginning and nothing from after now; the
\* days behind it are written, those ahead are older than it.
RunIsSound ==
    run # NoRun =>
        /\ run.since <= saved
        /\ \A r \in run.got : r.seen \in run.since .. saved
        /\ \A r, s \in run.got : r.check = s.check => r = s
        /\ \A d \in Day, c \in Check :
               /\ d < run.day => verdict[d][c] >= run.since
               /\ d >= run.day => verdict[d][c] <= run.since

\* Where the newest save is: with its saver, with the worker, lost or done.
NewestIsKnown ==
    \/ \E u \in Saver : post[u] = saved
    \/ token # NoToken
    \/ run # NoRun /\ run.since = saved
    \/ missed = saved
    \/ UpTo(saved)

WorkerInv ==
    /\ CheckWorkerTypeOK /\ RunIsSound /\ NewestIsKnown
    /\ \A d \in Day, c \in Check : verdict[d][c] <= saved

LEMMA WorkerStarts == CheckWorkerInit => WorkerInv
<1>. SUFFICES ASSUME CheckWorkerInit PROVE WorkerInv
  OBVIOUS
<1>1. saved = 0 /\ missed = 0 /\ run = NoRun /\ \A d \in Day, c \in Check : verdict[d][c] = 0
  BY DEF CheckWorkerInit
<1>2. CheckWorkerTypeOK
  <2>1. verdict \in [Day -> [Check -> 0 .. MaxSaves]]
    BY CheckWorkerAssumption DEF CheckWorkerInit
  <2>2. saved \in 0 .. MaxSaves /\ missed \in 0 .. saved /\ stops \in 0 .. MaxStops
    BY CheckWorkerAssumption DEF CheckWorkerInit
  <2>3. post \in [Saver -> 0 .. saved]
    BY <2>2 DEF CheckWorkerInit, NoPost
  <2>. QED BY <2>1, <2>2, <2>3 DEF CheckWorkerInit, CheckWorkerTypeOK
<1>. QED BY <1>1, <1>2 DEF WorkerInv, RunIsSound, NewestIsKnown

\* The types, spelt out.
LEMMA WorkerTypes ==
    ASSUME WorkerInv
    PROVE  /\ saved \in Nat /\ saved <= MaxSaves /\ MaxSaves \in Nat /\ LastDay \in Nat \ {0}
           /\ missed \in Nat /\ missed <= saved
           /\ \A u \in Saver : post[u] \in Nat /\ post[u] <= saved
           /\ \A d \in Day, c \in Check : verdict[d][c] \in Nat /\ verdict[d][c] <= saved
           /\ run # NoRun => /\ run \in RunRow /\ run.since \in Nat /\ run.since <= saved
                             /\ run.day \in Day /\ run.token \in Saver
                             /\ run.got \subseteq [check : Check, seen : 0 .. MaxSaves]
BY CheckWorkerAssumption DEF WorkerInv, CheckWorkerTypeOK, RunIsSound, RunRow

\* Saves, requests, losses and the clock.
LEMMA WorkerAsked ==
    ASSUME WorkerInv,
           \/ \E u \in Saver : Save(u) \/ Request(u) \/ Dropped(u) \/ SignOut(u)
           \/ QuietOver \/ UNCHANGED checkVars
    PROVE  WorkerInv' /\ verdict' = verdict
<1>. DEFINE Types == /\ saved' \in 0 .. MaxSaves /\ saved' >= saved /\ missed' \in 0 .. saved'
                     /\ post' \in [Saver -> 0 .. saved'] /\ signedIn' \in SUBSET Saver
                     /\ token' \in Saver \cup {NoToken}
            Kept == UNCHANGED <<run, verdict, stops>>
<1>1. /\ saved \in 0 .. MaxSaves /\ missed \in 0 .. saved /\ MaxSaves \in Nat
      /\ post \in [Saver -> 0 .. saved] /\ signedIn \in SUBSET Saver
      /\ token \in Saver \cup {NoToken} /\ NoToken \notin Saver
  BY CheckWorkerAssumption DEF WorkerInv, CheckWorkerTypeOK
<1>2. ASSUME NEW u \in Saver, Save(u) PROVE Types /\ Kept /\ NewestIsKnown'
  <2>1. /\ saved' = saved + 1 /\ saved' \in 0 .. MaxSaves /\ post' = [post EXCEPT ![u] = saved']
        /\ UNCHANGED <<signedIn, token, quiet, run, verdict, missed, stops>>
    BY <1>1, <1>2 DEF Save
  <2>2. post' \in [Saver -> 0 .. saved'] /\ post'[u] = saved' /\ missed \in 0 .. saved'
    BY <1>1, <2>1
  <2>. QED BY <1>1, <2>1, <2>2 DEF NewestIsKnown
<1>3. ASSUME NEW u \in Saver, Request(u) PROVE Types /\ Kept /\ NewestIsKnown'
  <2>1. /\ token' = u /\ post' = [post EXCEPT ![u] = 0]
        /\ UNCHANGED <<saved, signedIn, run, verdict, missed, stops>>
    BY <1>3 DEF Request, Requested
  <2>2. post' \in [Saver -> 0 .. saved] /\ token' # NoToken
    BY <1>1, <2>1
  <2>3. NewestIsKnown'
    BY <2>2 DEF NewestIsKnown
  <2>. QED BY <1>1, <2>1, <2>2, <2>3
<1>4. ASSUME NEW u \in Saver, Dropped(u) PROVE Types /\ Kept /\ NewestIsKnown'
  <2>1. /\ post' = [post EXCEPT ![u] = 0] /\ missed' = IF post[u] > missed THEN post[u] ELSE missed
        /\ UNCHANGED <<saved, signedIn, token, quiet, run, verdict, stops>>
    BY <1>4 DEF Dropped, MissedUpTo
  <2>2. /\ post' \in [Saver -> 0 .. saved] /\ missed' \in 0 .. saved
        /\ \A v \in Saver : v # u => post'[v] = post[v]
    BY <1>1, <2>1
  <2>3. missed = saved \/ post[u] = saved => missed' = saved
    BY <1>1, <2>1
  <2>4. NewestIsKnown'
    <3>1. CASE \E v \in Saver : post[v] = saved
      BY <2>1, <2>2, <2>3, <3>1 DEF NewestIsKnown
    <3>2. CASE token # NoToken \/ (run # NoRun /\ run.since = saved) \/ missed = saved \/ UpTo(saved)
      BY <2>1, <2>3, <3>2 DEF NewestIsKnown, UpTo
    <3>. QED BY <3>1, <3>2 DEF WorkerInv, NewestIsKnown
  <2>. QED BY <1>1, <2>1, <2>2, <2>4
<1>5. ASSUME (\E u \in Saver : SignOut(u)) \/ QuietOver \/ UNCHANGED checkVars
      PROVE  Types /\ Kept /\ NewestIsKnown'
  <2>1. /\ UNCHANGED <<saved, post, token, run, verdict, missed, stops>>
        /\ signedIn' \in SUBSET signedIn
    BY <1>1, <1>5 DEF SignOut, QuietOver, checkVars
  <2>2. NewestIsKnown'
    BY <2>1 DEF WorkerInv, NewestIsKnown, UpTo
  <2>3. saved' >= saved
    BY <1>1, <2>1
  <2>4. Types
    BY <1>1, <2>1, <2>3
  <2>. QED BY <2>1, <2>2, <2>4
<1>. HIDE DEF Types, Kept
<1>6. Types /\ Kept /\ NewestIsKnown'
  <2>1. CASE \E u \in Saver : Save(u) \/ Request(u) \/ Dropped(u)
    BY <1>2, <1>3, <1>4, <2>1
  <2>2. CASE (\E u \in Saver : SignOut(u)) \/ QuietOver \/ UNCHANGED checkVars
    BY <1>5, <2>2
  <2>. QED BY <2>1, <2>2
<1>7. CheckWorkerTypeOK'
  <2>1. quiet' \in {quiet, TRUE, FALSE}
    BY DEF Save, Request, Dropped, SignOut, QuietOver, checkVars
  <2>. QED BY <1>6, <2>1 DEF Types, Kept, WorkerInv, CheckWorkerTypeOK
<1>8. RunIsSound'
  <2>. SUFFICES ASSUME run # NoRun PROVE RunIsSound'
    BY <1>6 DEF Kept, RunIsSound
  <2>1. run.since <= saved' /\ \A r \in run.got : r.seen \in run.since .. saved'
    <3>1. \A r \in run.got : r.seen \in run.since .. saved
      BY DEF WorkerInv, RunIsSound
    <3>. QED BY <1>1, <1>6, <3>1, WorkerTypes DEF Types
  <2>. QED BY <1>6, <2>1 DEF Kept, WorkerInv, RunIsSound
<1>9. \A d \in Day, c \in Check : verdict'[d][c] <= saved'
  BY <1>6, WorkerTypes DEF Types, Kept
<1>. QED BY <1>6, <1>7, <1>8, <1>9 DEF Kept, WorkerInv

\* A run begins, is let in, or is dropped.
LEMMA WorkerBegins ==
    ASSUME WorkerInv, TakeRequest \/ Validated \/ Refused \/ Restart
    PROVE  WorkerInv' /\ verdict' = verdict
<1>1. CASE TakeRequest
  <2>1. /\ UNCHANGED <<saved, post, signedIn, quiet, verdict, missed, stops>> /\ token' = NoToken
        /\ token \in Saver
        /\ run' = [token |-> token, valid |-> FALSE, since |-> saved, day |-> 1, got |-> {}]
    BY <1>1 DEF TakeRequest, WorkerInv, CheckWorkerTypeOK
  <2>2. run' \in RunRow /\ run'.since = saved /\ run'.day = 1 /\ run'.got = {}
    <3>1. saved \in 0 .. MaxSaves /\ 1 \in Day
      BY WorkerTypes DEF Day
    <3>. QED BY <2>1, <3>1 DEF RunRow
  <2>3. CheckWorkerTypeOK'
    BY <2>1, <2>2 DEF WorkerInv, CheckWorkerTypeOK
  <2>4. RunIsSound'
    <3>1. \A d \in Day : d >= 1 /\ ~ d < 1
      BY WorkerTypes DEF Day
    <3>. QED BY <2>1, <2>2, <3>1, WorkerTypes DEF RunIsSound
  <2>5. run' # NoRun
    BY <2>2, RunAssumption
  <2>6. NewestIsKnown'
    BY <2>1, <2>2, <2>5 DEF NewestIsKnown
  <2>. QED BY <2>1, <2>3, <2>4, <2>6 DEF WorkerInv
<1>2. CASE Validated
  <2>1. /\ UNCHANGED <<saved, post, signedIn, token, quiet, verdict, missed, stops>>
        /\ run # NoRun /\ run' = [run EXCEPT !.valid = TRUE]
    BY <1>2 DEF Validated
  <2>2. /\ run' \in RunRow /\ run'.since = run.since /\ run'.day = run.day /\ run'.got = run.got
        /\ run' # NoRun
    BY <2>1, WorkerTypes, RunAssumption DEF RunRow
  <2>3. CheckWorkerTypeOK'
    BY <2>1, <2>2 DEF WorkerInv, CheckWorkerTypeOK
  <2>4. RunIsSound'
    BY <2>1, <2>2 DEF WorkerInv, RunIsSound
  <2>5. NewestIsKnown'
    BY <2>1, <2>2 DEF WorkerInv, NewestIsKnown, UpTo
  <2>. QED BY <2>1, <2>3, <2>4, <2>5 DEF WorkerInv
<1>3. CASE Refused
  <2>1. /\ UNCHANGED <<saved, post, signedIn, token, quiet, verdict, stops>> /\ run' = NoRun
        /\ run # NoRun /\ missed' = IF run.since > missed THEN run.since ELSE missed
    BY <1>3 DEF Refused, MissedUpTo
  <2>2. missed' \in 0 .. saved /\ (missed = saved \/ run.since = saved => missed' = saved)
    BY <2>1, WorkerTypes
  <2>3. CheckWorkerTypeOK'
    BY <2>1, <2>2 DEF WorkerInv, CheckWorkerTypeOK
  <2>4. NewestIsKnown'
    BY <2>1, <2>2 DEF WorkerInv, NewestIsKnown, UpTo
  <2>. QED BY <2>1, <2>3, <2>4 DEF WorkerInv, RunIsSound
<1>4. CASE Restart
  <2>1. /\ UNCHANGED <<saved, signedIn, quiet, verdict>>
        /\ post' = NoPost /\ token' = NoToken /\ run' = NoRun /\ stops' \in 0 .. MaxStops
        /\ missed' = IF post # NoPost \/ token # NoToken \/ run # NoRun THEN saved ELSE missed
    BY <1>4, CheckWorkerAssumption DEF Restart, WorkerInv, CheckWorkerTypeOK
  <2>2. missed' \in 0 .. saved /\ post' \in [Saver -> 0 .. saved]
    BY <2>1, WorkerTypes DEF NoPost
  <2>3. CheckWorkerTypeOK'
    BY <2>1, <2>2 DEF WorkerInv, CheckWorkerTypeOK
  <2>4. NewestIsKnown'
    <3>1. CASE missed' = saved
      BY <2>1, <3>1 DEF NewestIsKnown
    <3>2. CASE post = NoPost /\ token = NoToken /\ run = NoRun /\ missed' = missed
      BY <2>1, <3>2 DEF WorkerInv, NewestIsKnown, UpTo
    <3>. QED BY <2>1, <3>1, <3>2
  <2>. QED BY <2>1, <2>3, <2>4 DEF WorkerInv, RunIsSound
<1>. QED BY <1>1, <1>2, <1>3, <1>4

LEMMA WorkerComputes ==
    ASSUME WorkerInv, NEW c \in Check, Compute(c)
    PROVE  WorkerInv' /\ verdict' = verdict
<1>1. PICK v \in run.since .. saved : run' = [run EXCEPT !.got = @ \cup {[check |-> c, seen |-> v]}]
  BY DEF Compute, FirstSeen
<1>2. /\ UNCHANGED <<saved, post, signedIn, token, quiet, verdict, missed, stops>>
      /\ run # NoRun /\ \A r \in run.got : r.check # c
  BY DEF Compute, ReadSoFar
<1>3. run'.got = run.got \cup {[check |-> c, seen |-> v]}
      /\ run'.since = run.since /\ run'.day = run.day
  BY <1>1, <1>2, WorkerTypes DEF RunRow
<1>4. run' \in RunRow
  <2>1. [check |-> c, seen |-> v] \in [check : Check, seen : 0 .. MaxSaves]
    BY <1>2, WorkerTypes
  <2>2. run.got \cup {[check |-> c, seen |-> v]} \in SUBSET [check : Check, seen : 0 .. MaxSaves]
    BY <1>2, <2>1, WorkerTypes
  <2>3. run \in RunRow
    BY <1>2, WorkerTypes
  <2>. QED BY <1>1, <2>2, <2>3 DEF RunRow
<1>5. CheckWorkerTypeOK'
  BY <1>2, <1>4 DEF WorkerInv, CheckWorkerTypeOK
<1>6. RunIsSound'
  <2>1. \A r \in run'.got : r.seen \in run.since .. saved
    BY <1>2, <1>3 DEF WorkerInv, RunIsSound
  <2>2. \A r, s \in run'.got : r.check = s.check => r = s
    BY <1>2, <1>3 DEF WorkerInv, RunIsSound
  <2>. QED BY <1>2, <1>3, <2>1, <2>2 DEF WorkerInv, RunIsSound
<1>7. NewestIsKnown'
  BY <1>2, <1>3, <1>4, RunAssumption DEF WorkerInv, NewestIsKnown, UpTo
<1>. QED BY <1>2, <1>5, <1>6, <1>7 DEF WorkerInv

\* What is written for a day is as new as the run.
LEMMA WorkerWrites ==
    ASSUME WorkerInv, run # NoRun
    PROVE  /\ Stored(run.day) \in [Day -> [Check -> 0 .. MaxSaves]]
           /\ \A d \in Day, c \in Check :
                  /\ Stored(run.day)[d][c] \in Nat /\ Stored(run.day)[d][c] <= saved
                  /\ Stored(run.day)[d][c] >= verdict[d][c]
                  /\ d # run.day => Stored(run.day)[d][c] = verdict[d][c]
                  /\ c \in ReadSoFar => Stored(run.day)[run.day][c] >= run.since
<1>. DEFINE New == [c \in Check |->
                IF c \in ReadSoFar THEN (CHOOSE r \in run.got : r.check = c).seen
                ELSE verdict[run.day][c]]
<1>1. verdict \in [Day -> [Check -> 0 .. MaxSaves]] /\ run.day \in Day
  BY WorkerTypes DEF WorkerInv, CheckWorkerTypeOK
<1>2. Stored(run.day) = [verdict EXCEPT ![run.day] = New]
  BY <1>1 DEF Stored
<1>3. ASSUME NEW c \in Check
      PROVE  /\ New[c] \in 0 .. MaxSaves /\ New[c] <= saved /\ New[c] >= verdict[run.day][c]
             /\ c \in ReadSoFar => New[c] >= run.since
  <2>1. CASE c \in ReadSoFar
    <3>. DEFINE r == CHOOSE q \in run.got : q.check = c
    <3>1. r \in run.got /\ New[c] = r.seen
      BY <2>1 DEF ReadSoFar
    <3>2. r.seen \in run.since .. saved
      BY <3>1 DEF WorkerInv, RunIsSound
    <3>3. verdict[run.day][c] <= run.since
      <4>1. run.day >= run.day
        BY <1>1 DEF Day
      <4>. QED BY <1>1, <4>1 DEF WorkerInv, RunIsSound
    <3>. HIDE DEF r, New
    <3>. QED BY <1>1, <3>1, <3>2, <3>3, WorkerTypes
  <2>2. CASE c \notin ReadSoFar
    <3>1. New[c] = verdict[run.day][c]
      BY <2>2
    <3>. HIDE DEF New
    <3>. QED BY <1>1, <2>2, <3>1, WorkerTypes
  <2>. QED BY <2>1, <2>2
<1>4. New \in [Check -> 0 .. MaxSaves]
  <2>1. DOMAIN New = Check /\ New = [c \in Check |-> New[c]]
    OBVIOUS
  <2>. HIDE DEF New
  <2>. QED BY <1>3, <2>1
<1>. HIDE DEF New
<1>5. /\ Stored(run.day) \in [Day -> [Check -> 0 .. MaxSaves]] /\ Stored(run.day)[run.day] = New
      /\ \A d \in Day : d # run.day => Stored(run.day)[d] = verdict[d]
  BY <1>1, <1>2, <1>4
<1>6. ASSUME NEW d \in Day, NEW c \in Check
      PROVE  /\ Stored(run.day)[d][c] \in Nat /\ Stored(run.day)[d][c] <= saved
             /\ Stored(run.day)[d][c] >= verdict[d][c]
             /\ d # run.day => Stored(run.day)[d][c] = verdict[d][c]
             /\ c \in ReadSoFar => Stored(run.day)[run.day][c] >= run.since
  <2>1. CASE d = run.day
    BY <1>3, <1>5, <2>1, WorkerTypes
  <2>2. CASE d # run.day
    BY <1>3, <1>5, <2>2, WorkerTypes
  <2>. QED BY <2>1, <2>2
<1>. QED BY <1>5, <1>6

LEMMA WorkerEnds ==
    ASSUME WorkerInv, EndDay \/ RunFails
    PROVE  WorkerInv' /\ \A d \in Day, c \in Check : verdict'[d][c] >= verdict[d][c]
<1>1. run # NoRun /\ UNCHANGED <<saved, post, signedIn, quiet, stops, token>>
  BY DEF EndDay, RunFails, TokenAfterRun
<1>2. verdict' \in {verdict, Stored(run.day)}
  BY DEF EndDay, RunFails
<1>3. /\ verdict' \in [Day -> [Check -> 0 .. MaxSaves]]
      /\ \A d \in Day, c \in Check : /\ verdict'[d][c] \in Nat /\ verdict'[d][c] <= saved
                                     /\ verdict'[d][c] >= verdict[d][c]
  <2>1. CASE verdict' = verdict
    BY <2>1, WorkerTypes DEF WorkerInv, CheckWorkerTypeOK
  <2>2. CASE verdict' = Stored(run.day)
    BY <1>1, <2>2, WorkerWrites
  <2>. QED BY <1>2, <2>1, <2>2
<1>4. UpTo(saved) => UpTo(saved)'
  <2>1. \A d \in Day, c \in Check : verdict[d][c] \in Nat /\ verdict'[d][c] >= verdict[d][c]
    BY <1>3, WorkerTypes
  <2>. QED BY <1>1, <1>3, <2>1, WorkerTypes DEF UpTo
<1>5. CASE RunFails
  <2>1. run' = NoRun /\ missed' = IF run.since > missed THEN run.since ELSE missed
    BY <1>5 DEF RunFails, MissedUpTo
  <2>2. missed' \in 0 .. saved /\ (missed = saved \/ run.since = saved => missed' = saved)
    BY <1>1, <2>1, WorkerTypes
  <2>3. CheckWorkerTypeOK'
    BY <1>1, <1>3, <2>1, <2>2 DEF WorkerInv, CheckWorkerTypeOK
  <2>4. NewestIsKnown'
    BY <1>1, <1>4, <2>1, <2>2 DEF WorkerInv, NewestIsKnown
  <2>. QED BY <1>1, <1>3, <2>1, <2>3, <2>4 DEF WorkerInv, RunIsSound
<1>6. CASE EndDay
  <2>1. verdict' = Stored(run.day) /\ ReadSoFar = Check
    BY <1>6 DEF EndDay
  <2>2. \A d \in Day, c \in Check :
            /\ d <= run.day => verdict'[d][c] >= run.since
            /\ d > run.day => verdict'[d][c] <= run.since
    <3>1. ASSUME NEW d \in Day, NEW c \in Check
          PROVE  /\ d <= run.day => verdict'[d][c] >= run.since
                 /\ d > run.day => verdict'[d][c] <= run.since
      <4>1. CASE d = run.day
        BY <1>1, <2>1, <4>1, WorkerWrites, WorkerTypes DEF Day
      <4>2. CASE d # run.day
        <5>1. verdict'[d][c] = verdict[d][c]
          BY <1>1, <2>1, <4>2, WorkerWrites
        <5>2. /\ d < run.day => verdict[d][c] >= run.since
              /\ d >= run.day => verdict[d][c] <= run.since
          BY <1>1 DEF WorkerInv, RunIsSound
        <5>. QED BY <1>1, <4>2, <5>1, <5>2, WorkerTypes DEF Day
      <4>. QED BY <4>1, <4>2
    <3>. QED BY <3>1
  <2>3. CASE run.day < LastDay
    <3>1. run' = [run EXCEPT !.day = @ + 1, !.got = {}] /\ missed' = missed
      BY <1>6, <2>3 DEF EndDay, MoreDays
    <3>2. run \in RunRow /\ run.day \in Day
      BY <1>1, WorkerTypes
    <3>3. run' \in RunRow /\ run'.day = run.day + 1 /\ run'.got = {} /\ run'.since = run.since
      <4>1. run.day + 1 \in Day
        BY <2>3, <3>2, WorkerTypes DEF Day
      <4>. QED BY <3>1, <3>2, <4>1 DEF RunRow
    <3>4. run' # NoRun
      BY <3>3, RunAssumption
    <3>5. CheckWorkerTypeOK'
      BY <1>1, <1>3, <3>1, <3>3 DEF WorkerInv, CheckWorkerTypeOK
    <3>6. RunIsSound'
      <4>1. \A d \in Day : (d < run'.day => d <= run.day) /\ (d >= run'.day => d > run.day)
        BY <3>2, <3>3 DEF Day
      <4>2. run.since <= saved
        BY <1>1 DEF WorkerInv, RunIsSound
      <4>. QED BY <1>1, <2>2, <3>3, <4>1, <4>2 DEF RunIsSound
    <3>7. NewestIsKnown'
      BY <1>1, <1>4, <3>1, <3>3, <3>4 DEF WorkerInv, NewestIsKnown
    <3>. QED BY <1>1, <1>3, <3>5, <3>6, <3>7 DEF WorkerInv
  <2>4. CASE ~ run.day < LastDay
    <3>1. run' = NoRun /\ missed' = IF missed <= run.since THEN 0 ELSE missed
      BY <1>6, <2>4 DEF EndDay, MoreDays
    <3>2. missed' \in 0 .. saved /\ (missed = saved /\ run.since # saved => missed' = saved)
      BY <1>1, <3>1, WorkerTypes
    <3>3. CheckWorkerTypeOK'
      BY <1>1, <1>3, <3>1, <3>2 DEF WorkerInv, CheckWorkerTypeOK
    <3>4. run.since = saved => UpTo(saved)'
      <4>1. \A d \in Day : d <= run.day
        BY <1>1, <2>4, WorkerTypes DEF Day
      <4>. QED BY <1>1, <2>2, <4>1 DEF UpTo
    <3>5. NewestIsKnown'
      <4>1. CASE run.since = saved
        BY <3>4, <4>1 DEF NewestIsKnown
      <4>2. CASE run.since # saved
        BY <1>1, <1>4, <3>1, <3>2, <4>2 DEF WorkerInv, NewestIsKnown
      <4>. QED BY <4>1, <4>2
    <3>. QED BY <1>1, <1>3, <3>1, <3>3, <3>5 DEF WorkerInv, RunIsSound
  <2>. QED BY <2>3, <2>4
<1>. QED BY <1>3, <1>5, <1>6

LEMMA WorkerStep ==
    ASSUME WorkerInv, [CheckWorkerNext]_checkVars
    PROVE  WorkerInv' /\ \A d \in Day, c \in Check : verdict'[d][c] >= verdict[d][c]
<1>1. CASE verdict' = verdict
  <2>1. \A d \in Day, c \in Check : verdict'[d][c] >= verdict[d][c]
    BY <1>1, WorkerTypes
  <2>. QED BY <2>1, WorkerAsked, WorkerBegins, WorkerComputes, WorkerEnds DEF CheckWorkerNext, CheckWorkerStep
<1>2. CASE verdict' # verdict
  BY <1>2, WorkerAsked, WorkerBegins, WorkerComputes, WorkerEnds DEF CheckWorkerNext, CheckWorkerStep
<1>. QED BY <1>1, <1>2

\* However saves, answers cut off, requests, ended sessions, failures and stops
\* overlap, a worker at rest has taken every save into account, unless the run of
\* the newest was lost, and no verdict goes back to older data (check_worker.py,
\* check_hook.py, guard.py).
THEOREM ChecksAreCurrent == CheckWorkerSpec => []IdleMeansCurrent /\ VerdictsMoveForward
<1>1. WorkerInv /\ [CheckWorkerNext]_checkVars
          => WorkerInv' /\ \A d \in Day, c \in Check : verdict'[d][c] >= verdict[d][c]
  BY WorkerStep
<1>2. CheckWorkerSpec => []WorkerInv
  BY <1>1, WorkerStarts, PTL DEF CheckWorkerSpec
<1>3. WorkerInv => IdleMeansCurrent
  <2>. SUFFICES ASSUME WorkerInv, AtRest PROVE UpTo(saved) \/ missed = saved
    BY DEF IdleMeansCurrent
  <2>1. CASE \E u \in Saver : post[u] = saved
    BY <2>1, WorkerTypes DEF AtRest, NoPost
  <2>2. CASE UpTo(saved) \/ missed = saved
    BY <2>2
  <2>. QED BY <2>1, <2>2 DEF WorkerInv, NewestIsKnown, AtRest
<1>4. WorkerInv /\ [CheckWorkerNext]_checkVars
          => [\A d \in Day, c \in Check : verdict'[d][c] >= verdict[d][c]]_checkVars
  BY <1>1
<1>. QED BY <1>2, <1>3, <1>4, PTL DEF CheckWorkerSpec, VerdictsMoveForward

(***************************************************************************)
(* The PCs of the network (module Devices).                                *)
(***************************************************************************)

\* The PCs a code lets in: those stored and those on their way.
BroughtIn(c) == invited[c] \cup {d \in Device : enrolling[d] = c}

PairingInv ==
    /\ opened + starting <= codes
    /\ pairing # NoCode => wrong[pairing] < MaxWrongTries /\ BroughtIn(pairing) = {}
    /\ \A c \in Code : c > codes => wrong[c] = 0 /\ BroughtIn(c) = {}
    /\ \A c \in Code : \A a, b \in BroughtIn(c) : a = b
    /\ \A d \in Device : enrolling[d] # NoCode => device[d] = "absent"

\* A removal is alone until another one begins, and what it lists is then all
\* there is to list.
RemovalInv ==
    /\ DOMAIN revoking = Owner /\ revoking = [o \in Owner |-> revoking[o]]
    /\ \A o \in Owner : revoking[o] # NotRevoking =>
           /\ device[revoking[o].device] # "absent"
           /\ revoking[o].alone => \A p \in Owner \ {o} : revoking[p] = NotRevoking
           /\ revoking[o].alone /\ revoking[o].at = "write" => revoking[o].rows = Revoked

DevicesInv == DevicesTypeOK /\ PairingInv /\ RemovalInv /\ restarts \in Nat

\* The counters and codes, with what their bounds give.
LEMMA PairingTypes ==
    ASSUME DevicesInv
    PROVE  /\ MaxCodes \in Nat \ {0} /\ MaxWrongTries \in Nat \ {0} /\ MaxRestarts \in Nat
           /\ codes \in Nat /\ codes <= MaxCodes /\ starting \in Nat /\ opened \in Nat
           /\ opened + starting <= codes
           /\ pairing # NoCode => pairing = codes /\ pairing \in Code
           /\ wrong \in [Code -> 0 .. MaxWrongTries] /\ \A c \in Code : wrong[c] \in Nat
<1>1. MaxCodes \in Nat \ {0} /\ MaxWrongTries \in Nat \ {0} /\ MaxRestarts \in Nat
  BY DevicesAssumption
<1>2. codes \in 0 .. MaxCodes /\ starting \in 0 .. MaxCodes /\ opened \in 0 .. MaxCodes
      /\ pairing \in {NoCode, codes} /\ opened + starting <= codes
      /\ wrong \in [Code -> 0 .. MaxWrongTries]
  BY DEF DevicesInv, DevicesTypeOK, PairingInv
<1>3. \A c \in Code : wrong[c] \in Nat
  BY <1>1, <1>2
<1>. QED BY <1>1, <1>2, <1>3 DEF Code, NoCode

LEMMA DevicesStart == DevicesInit => DevicesInv
<1>. SUFFICES ASSUME DevicesInit PROVE DevicesInv
  OBVIOUS
<1>1. /\ codes = 0 /\ pairing = NoCode /\ starting = 0 /\ opened = 0 /\ port = FALSE /\ late = FALSE
      /\ wrong = [c \in Code |-> 0] /\ watcher = [w \in Code |-> "none"]
      /\ enrolling = [d \in Device |-> NoCode] /\ invited = [c \in Code |-> {}]
      /\ device = [d \in Device |-> "absent"] /\ crl = {} /\ touching = {} /\ restarts = 0
      /\ revoking = [o \in Owner |-> NotRevoking]
  BY DEF DevicesInit
<1>2. DevicesTypeOK
  <2>1. wrong \in [Code -> 0 .. MaxWrongTries] /\ 0 \in 0 .. MaxCodes
    BY <1>1, DevicesAssumption
  <2>2. /\ watcher \in [Code -> {"none", "looking", "again", "stopping"}]
        /\ enrolling \in [Device -> Code \cup {NoCode}]
        /\ invited \in [Code -> SUBSET Device]
        /\ device \in [Device -> {"absent", "active", "revoked"}]
    BY <1>1
  <2>3. \A o \in Owner : revoking[o] = NotRevoking
    BY <1>1
  <2>. QED BY <1>1, <2>1, <2>2, <2>3 DEF DevicesTypeOK
<1>3. \A c \in Code : BroughtIn(c) = {} /\ wrong[c] = 0
  BY <1>1, DevicesAssumption DEF BroughtIn, Code, NoCode
<1>4. PairingInv
  BY <1>1, <1>3 DEF PairingInv
<1>5. RemovalInv
  BY <1>1 DEF RemovalInv
<1>. QED BY <1>1, <1>2, <1>4, <1>5 DEF DevicesInv

\* Codes, the port and its watchers.
LEMMA PairingStep ==
    ASSUME DevicesInv,
           \/ CreateCode \/ StartListener \/ (\E slow \in BOOLEAN : StartGivesUp(slow)) \/ OpensLate
           \/ CodeEnds \/ CancelClosesPort \/ EnrolWrong
           \/ \E w \in Code : Watch(w) \/ WatchStops(w)
    PROVE  DevicesInv' /\ UNCHANGED <<rowVars, restarts>>
<1>1. UNCHANGED <<rowVars, restarts>>
  BY DEF CreateCode, StartListener, StartGivesUp, OpensLate, CodeEnds, CancelClosesPort, EnrolWrong, Watch, WatchStops
<1>2. RemovalInv' /\ restarts' \in Nat
  BY <1>1 DEF DevicesInv, RemovalInv, rowVars, Revoked
<1>3. \A c \in Code : BroughtIn(c)' = BroughtIn(c)
  BY <1>1 DEF rowVars, BroughtIn
<1>4. \A d \in Device : enrolling'[d] # NoCode => device'[d] = "absent"
  BY <1>1 DEF rowVars, DevicesInv, PairingInv
<1>5. {port, late}' \subseteq BOOLEAN
  BY DEF CreateCode, StartListener, StartGivesUp, OpensLate, CodeEnds, CancelClosesPort, EnrolWrong, Watch,
         WatchStops, DevicesInv, DevicesTypeOK
<1>6. ASSUME codes' \in 0 .. MaxCodes, pairing' \in {NoCode, codes'},
             wrong' \in [Code -> 0 .. MaxWrongTries],
             starting' \in 0 .. MaxCodes, opened' \in 0 .. MaxCodes,
             watcher' \in [Code -> {"none", "looking", "again", "stopping"}]
      PROVE  DevicesTypeOK'
  BY <1>1, <1>5, <1>6 DEF rowVars, DevicesInv, DevicesTypeOK
<1>7. CASE CreateCode
  <2>1. /\ codes < MaxCodes /\ codes' = codes + 1 /\ pairing' = codes + 1 /\ starting' = starting + 1
        /\ UNCHANGED <<wrong, opened, port, watcher>>
    BY <1>7 DEF CreateCode
  <2>2. DevicesTypeOK'
    BY <1>6, <2>1, PairingTypes DEF DevicesInv, DevicesTypeOK
  <2>3. codes' \in Code /\ codes' > codes
    BY <2>1, PairingTypes DEF Code
  <2>4. wrong[codes'] = 0 /\ BroughtIn(codes') = {}
    BY <2>3 DEF DevicesInv, PairingInv
  <2>5. \A c \in Code : c > codes' => c > codes
    BY <2>1, PairingTypes DEF Code
  <2>6. PairingInv'
    <3>1. opened' + starting' <= codes'
      BY <2>1, PairingTypes
    <3>2. wrong'[pairing'] < MaxWrongTries /\ BroughtIn(pairing)' = {}
      BY <1>1, <2>1, <2>4, PairingTypes DEF BroughtIn, rowVars
    <3>3. \A c \in Code : c > codes' => wrong'[c] = 0 /\ BroughtIn(c)' = {}
      BY <1>3, <2>1, <2>5 DEF DevicesInv, PairingInv
    <3>4. \A c \in Code : \A a, b \in BroughtIn(c)' : a = b
      BY <1>3 DEF DevicesInv, PairingInv
    <3>. QED BY <1>4, <3>1, <3>2, <3>3, <3>4 DEF PairingInv, BroughtIn
  <2>. QED BY <1>1, <1>2, <2>2, <2>6 DEF DevicesInv
<1>8. CASE StartListener
  <2>1. starting > 0 /\ starting' = starting - 1 /\ UNCHANGED <<codes, pairing, wrong>>
    BY <1>8 DEF StartListener
  <2>2. opened + 1 \in Code /\ opened' \in {opened, opened + 1}
    BY <1>8, <2>1, PairingTypes DEF StartListener, Code
  <2>3. watcher' \in [Code -> {"none", "looking", "again", "stopping"}]
    BY <1>8, <2>2 DEF StartListener, DevicesInv, DevicesTypeOK
  <2>4. DevicesTypeOK'
    <3>1. codes' \in 0 .. MaxCodes /\ pairing' \in {NoCode, codes'} /\ wrong' \in [Code -> 0 .. MaxWrongTries]
          /\ starting \in 0 .. MaxCodes /\ opened \in 0 .. MaxCodes
      BY <2>1 DEF DevicesInv, DevicesTypeOK
    <3>2. starting' \in 0 .. MaxCodes /\ opened' \in 0 .. MaxCodes
      BY <2>1, <2>2, <3>1, PairingTypes DEF Code
    <3>. QED BY <1>6, <2>3, <3>1, <3>2
  <2>5. opened' + starting' <= codes'
    BY <2>1, <2>2, PairingTypes
  <2>6. PairingInv'
    BY <1>3, <1>4, <2>1, <2>5, PairingTypes DEF DevicesInv, PairingInv, BroughtIn
  <2>. QED BY <1>1, <1>2, <2>4, <2>6 DEF DevicesInv
<1>9. CASE EnrolWrong
  <2>1. /\ UNCHANGED <<codes, starting, opened, port, watcher>> /\ pairing # NoCode
        /\ wrong' = [wrong EXCEPT ![pairing] = @ + 1]
        /\ pairing' = IF wrong'[pairing] >= MaxWrongTries THEN NoCode ELSE pairing
    BY <1>9 DEF EnrolWrong, AfterWrong
  <2>2. pairing \in Code /\ pairing = codes /\ wrong[pairing] < MaxWrongTries /\ BroughtIn(pairing) = {}
    BY <2>1, PairingTypes DEF DevicesInv, PairingInv
  <2>3. wrong[pairing] + 1 \in 0 .. MaxWrongTries
    BY <2>2, PairingTypes
  <2>4. wrong' \in [Code -> 0 .. MaxWrongTries] /\ wrong'[pairing] = wrong[pairing] + 1
        /\ \A c \in Code : c # pairing => wrong'[c] = wrong[c]
    BY <2>1, <2>2, <2>3, PairingTypes
  <2>5. pairing' \in {NoCode, pairing} /\ (pairing' # NoCode => wrong'[pairing] < MaxWrongTries)
    BY <2>1, <2>3, <2>4, PairingTypes
  <2>6. DevicesTypeOK'
    BY <1>6, <2>1, <2>2, <2>4, <2>5 DEF DevicesInv, DevicesTypeOK
  <2>7. \A c \in Code : c > codes => c # pairing
    BY <2>2, PairingTypes DEF Code
  <2>8. PairingInv'
    BY <1>3, <1>4, <2>1, <2>2, <2>4, <2>5, <2>7 DEF DevicesInv, PairingInv, BroughtIn
  <2>. QED BY <1>1, <1>2, <2>6, <2>8 DEF DevicesInv
<1>10. CASE \E slow \in BOOLEAN : StartGivesUp(slow)
  <2>1. starting > 0 /\ starting' = starting - 1 /\ UNCHANGED <<codes, pairing, wrong, opened, watcher>>
    BY <1>10 DEF StartGivesUp
  <2>2. DevicesTypeOK'
    BY <1>6, <2>1, PairingTypes DEF DevicesInv, DevicesTypeOK
  <2>3. opened' + starting' <= codes'
    BY <2>1, PairingTypes
  <2>4. PairingInv'
    BY <1>3, <1>4, <2>1, <2>3, PairingTypes DEF DevicesInv, PairingInv, BroughtIn
  <2>. QED BY <1>1, <1>2, <2>2, <2>4 DEF DevicesInv
<1>11. CASE OpensLate \/ CodeEnds \/ CancelClosesPort \/ \E w \in Code : Watch(w) \/ WatchStops(w)
  <2>1. UNCHANGED <<codes, wrong, starting, opened>> /\ pairing' \in {pairing, NoCode}
    BY <1>11 DEF OpensLate, CodeEnds, CancelClosesPort, Watch, WatchStops
  <2>2. watcher' \in [Code -> {"none", "looking", "again", "stopping"}]
    <3>1. watcher \in [Code -> {"none", "looking", "again", "stopping"}]
      BY DEF DevicesInv, DevicesTypeOK
    <3>2. CASE OpensLate \/ CodeEnds \/ CancelClosesPort
      BY <3>1, <3>2 DEF OpensLate, CodeEnds, CancelClosesPort
    <3>3. ASSUME NEW w \in Code, WatchStops(w) PROVE <2>2
      BY <3>1, <3>3 DEF WatchStops
    <3>4. ASSUME NEW w \in Code, Watch(w) PROVE <2>2
      <4>1. PICK x \in {"none", "again", "stopping", "looking"} : watcher' = [watcher EXCEPT ![w] = x]
        BY <3>1, <3>4 DEF Watch, SecondLook
      <4>. QED BY <3>1, <4>1
    <3>. QED BY <1>11, <3>2, <3>3, <3>4
  <2>3. DevicesTypeOK'
    BY <1>6, <2>1, <2>2 DEF DevicesInv, DevicesTypeOK
  <2>4. PairingInv'
    <3>1. pairing' # NoCode => wrong'[pairing'] < MaxWrongTries /\ BroughtIn(pairing)' = {}
      BY <1>1, <2>1 DEF DevicesInv, PairingInv, BroughtIn, rowVars
    <3>2. \A c \in Code : c > codes' => wrong'[c] = 0 /\ BroughtIn(c)' = {}
      BY <1>3, <2>1 DEF DevicesInv, PairingInv
    <3>3. \A c \in Code : \A a, b \in BroughtIn(c)' : a = b
      BY <1>3 DEF DevicesInv, PairingInv
    <3>4. opened' + starting' <= codes'
      BY <2>1 DEF DevicesInv, PairingInv
    <3>. QED BY <1>4, <3>1, <3>2, <3>3, <3>4 DEF PairingInv, BroughtIn
  <2>. QED BY <1>1, <1>2, <2>3, <2>4 DEF DevicesInv
<1>. QED BY <1>1, <1>7, <1>8, <1>9, <1>11, <1>10

\* What a step of one PC's enrolment keeps.
LEMMA EnrolStep ==
    ASSUME DevicesInv, NEW d \in Device, EnrolConsume(d) \/ EnrolStore(d) \/ EnrolFails(d) \/ EnrolLocal(d)
    PROVE  /\ DevicesInv' /\ UNCHANGED <<crl, revoking, touching, restarts>>
           /\ \A e \in Device : device'[e] = "revoked" <=> device[e] = "revoked"
<1>1. UNCHANGED <<codes, wrong, starting, opened, port, late, watcher, crl, revoking, touching, restarts>>
  BY DEF EnrolConsume, EnrolStore, EnrolFails, EnrolLocal, pairingVars
<1>2. /\ enrolling \in [Device -> Code \cup {NoCode}] /\ invited \in [Code -> SUBSET Device]
      /\ device \in [Device -> {"absent", "active", "revoked"}] /\ NoCode \notin Code
  BY DEF DevicesInv, DevicesTypeOK, Code, NoCode
<1>3. ASSUME pairing' \in {NoCode, pairing},
             enrolling' \in [Device -> Code \cup {NoCode}], invited' \in [Code -> SUBSET Device],
             device' \in [Device -> {"absent", "active", "revoked"}]
      PROVE  DevicesTypeOK'
  BY <1>1, <1>3 DEF DevicesInv, DevicesTypeOK
<1>4. ASSUME \A e \in Device : device[e] # "absent" => device'[e] # "absent",
             \A e \in Device : device'[e] = "revoked" <=> device[e] = "revoked"
      PROVE  RemovalInv'
  <2>1. Revoked' = Revoked
    BY <1>4 DEF Revoked
  <2>2. \A o \in Owner : revoking[o] # NotRevoking => revoking[o].device \in Device
    BY DEF DevicesInv, DevicesTypeOK
  <2>. QED BY <1>1, <1>4, <2>1, <2>2 DEF DevicesInv, RemovalInv
<1>5. CASE EnrolConsume(d)
  <2>1. /\ pairing # NoCode /\ device[d] = "absent" /\ enrolling[d] = NoCode
        /\ enrolling' = [enrolling EXCEPT ![d] = pairing] /\ pairing' = NoCode
        /\ UNCHANGED <<invited, device>>
    BY <1>5 DEF EnrolConsume, UsedUp
  <2>2. pairing \in Code /\ pairing = codes /\ BroughtIn(pairing) = {}
    BY <2>1, PairingTypes DEF DevicesInv, PairingInv
  <2>3. /\ enrolling' \in [Device -> Code \cup {NoCode}] /\ enrolling'[d] = pairing
        /\ \A e \in Device : e # d => enrolling'[e] = enrolling[e]
    BY <1>2, <2>1, <2>2
  <2>4. BroughtIn(pairing) = {} /\ invited'[pairing] = {} /\ \A e \in Device : enrolling[e] # pairing
    BY <2>1, <2>2 DEF BroughtIn
  <2>5. \A c \in Code \ {pairing} : {e \in Device : enrolling'[e] = c} = {e \in Device : enrolling[e] = c}
    BY <2>1, <2>3, <1>2
  <2>6. \A c \in Code \ {pairing} : BroughtIn(c)' = BroughtIn(c)
    BY <2>1, <2>5 DEF BroughtIn
  <2>7. invited'[pairing] \cup {e \in Device : enrolling'[e] = pairing} = {d}
    BY <2>3, <2>4
  <2>8. \A c \in Code : c > codes => c # pairing
    BY <2>2, PairingTypes DEF Code
  <2>9. \A c \in Code : c > codes' => wrong'[c] = 0 /\ BroughtIn(c)' = {}
    BY <1>1, <2>6, <2>8 DEF DevicesInv, PairingInv
  <2>10. \A c \in Code : \A a, b \in BroughtIn(c)' : a = b
    <3>1. \A c \in Code \ {pairing} : \A a, b \in BroughtIn(c)' : a = b
      BY <2>6 DEF DevicesInv, PairingInv
    <3>2. \A a, b \in invited'[pairing] \cup {e \in Device : enrolling'[e] = pairing} : a = b
      BY <2>7
    <3>. QED BY <3>1, <3>2 DEF BroughtIn
  <2>11. \A e \in Device : enrolling'[e] # NoCode => device'[e] = "absent"
    BY <2>1, <2>3 DEF DevicesInv, PairingInv
  <2>12. PairingInv'
    <3>1. opened' + starting' <= codes' /\ ~ pairing' # NoCode
      BY <1>1, <2>1 DEF DevicesInv, PairingInv
    <3>. QED BY <2>9, <2>10, <2>11, <3>1 DEF PairingInv
  <2>13. DevicesTypeOK'
    BY <1>2, <1>3, <2>1, <2>3
  <2>14. RemovalInv'
    BY <1>4, <2>1
  <2>. QED BY <1>1, <2>1, <2>12, <2>13, <2>14 DEF DevicesInv
<1>6. CASE EnrolStore(d)
  <2>. DEFINE c0 == enrolling[d]
  <2>1. /\ c0 # NoCode /\ UNCHANGED pairing
        /\ device' = [device EXCEPT ![d] = "active"]
        /\ invited' = [invited EXCEPT ![c0] = @ \cup {d}]
        /\ enrolling' = [enrolling EXCEPT ![d] = NoCode]
    BY <1>6 DEF EnrolStore, pairingVars
  <2>2. c0 \in Code /\ device[d] = "absent" /\ d \in BroughtIn(c0)
    BY <1>2, <2>1 DEF DevicesInv, PairingInv, BroughtIn
  <2>3. /\ enrolling' \in [Device -> Code \cup {NoCode}] /\ enrolling'[d] = NoCode
        /\ \A e \in Device : e # d => enrolling'[e] = enrolling[e]
        /\ device' \in [Device -> {"absent", "active", "revoked"}] /\ device'[d] = "active"
        /\ \A e \in Device : e # d => device'[e] = device[e]
        /\ invited' \in [Code -> SUBSET Device] /\ invited'[c0] = invited[c0] \cup {d}
        /\ \A c \in Code : c # c0 => invited'[c] = invited[c]
    BY <1>2, <2>1, <2>2
  <2>. HIDE DEF c0
  <2>4. \A c \in Code : BroughtIn(c)' = BroughtIn(c)
    <3>1. ASSUME NEW c \in Code PROVE BroughtIn(c)' = BroughtIn(c)
      <4>1. CASE c = c0
        BY <1>2, <2>2, <2>3, <4>1 DEF BroughtIn, c0
      <4>2. CASE c # c0
        BY <1>2, <2>2, <2>3, <4>2 DEF BroughtIn, c0
      <4>. QED BY <4>1, <4>2
    <3>. QED BY <3>1
  <2>5. PairingInv'
    <3>1. opened' + starting' <= codes'
      BY <1>1 DEF DevicesInv, PairingInv
    <3>2. pairing' # NoCode => wrong'[pairing'] < MaxWrongTries /\ BroughtIn(pairing)' = {}
      <4>1. pairing # NoCode => pairing \in Code /\ wrong[pairing] < MaxWrongTries /\ BroughtIn(pairing) = {}
        BY PairingTypes DEF DevicesInv, PairingInv
      <4>2. pairing \in Code => invited'[pairing] \cup {e \in Device : enrolling'[e] = pairing} = BroughtIn(pairing)
        BY <2>4 DEF BroughtIn
      <4>. QED BY <1>1, <2>1, <4>1, <4>2 DEF BroughtIn
    <3>3. \A c \in Code : c > codes' => wrong'[c] = 0 /\ BroughtIn(c)' = {}
      BY <1>1, <2>4 DEF DevicesInv, PairingInv
    <3>4. \A c \in Code : \A a, b \in BroughtIn(c)' : a = b
      BY <2>4 DEF DevicesInv, PairingInv
    <3>5. \A e \in Device : enrolling'[e] # NoCode => device'[e] = "absent"
      BY <2>3 DEF DevicesInv, PairingInv
    <3>. QED BY <3>1, <3>2, <3>3, <3>4, <3>5 DEF PairingInv, BroughtIn
  <2>6. DevicesTypeOK'
    BY <1>3, <2>1, <2>3
  <2>7. \A e \in Device : /\ device[e] # "absent" => device'[e] # "absent"
                          /\ device'[e] = "revoked" <=> device[e] = "revoked"
    BY <2>2, <2>3
  <2>. QED BY <1>1, <1>4, <2>5, <2>6, <2>7 DEF DevicesInv
<1>7. CASE EnrolFails(d) \/ EnrolLocal(d)
  <2>1. /\ UNCHANGED <<pairing, invited>>
        /\ enrolling' \in {enrolling, [enrolling EXCEPT ![d] = NoCode]}
        /\ \/ device' = device
           \/ device' = [device EXCEPT ![d] = "active"] /\ device[d] = "absent" /\ enrolling'[d] = NoCode
    BY <1>7 DEF EnrolFails, EnrolLocal, pairingVars
  <2>2. /\ enrolling' \in [Device -> Code \cup {NoCode}]
        /\ \A e \in Device : enrolling'[e] \in {enrolling[e], NoCode}
    BY <1>2, <2>1
  <2>3. /\ device' \in [Device -> {"absent", "active", "revoked"}]
        /\ \A e \in Device : device'[e] = device[e] \/ (device[e] = "absent" /\ device'[e] = "active" /\ enrolling'[e] = NoCode)
    BY <1>2, <2>1
  <2>4. \A c \in Code : \A a \in BroughtIn(c)' : a \in BroughtIn(c)
    BY <1>2, <2>1, <2>2 DEF BroughtIn
  <2>5. PairingInv'
    <3>1. opened' + starting' <= codes'
      BY <1>1 DEF DevicesInv, PairingInv
    <3>2. pairing' # NoCode => wrong'[pairing'] < MaxWrongTries /\ BroughtIn(pairing)' = {}
      <4>1. pairing # NoCode => pairing \in Code /\ wrong[pairing] < MaxWrongTries /\ BroughtIn(pairing) = {}
        BY PairingTypes DEF DevicesInv, PairingInv
      <4>2. pairing \in Code => \A a \in invited'[pairing] \cup {e \in Device : enrolling'[e] = pairing} : a \in BroughtIn(pairing)
        BY <2>4 DEF BroughtIn
      <4>. QED BY <1>1, <2>1, <4>1, <4>2 DEF BroughtIn
    <3>3. \A c \in Code : c > codes' => wrong'[c] = 0 /\ BroughtIn(c)' = {}
      BY <1>1, <2>4 DEF DevicesInv, PairingInv
    <3>4. \A c \in Code : \A a, b \in BroughtIn(c)' : a = b
      BY <2>4 DEF DevicesInv, PairingInv
    <3>5. \A e \in Device : enrolling'[e] # NoCode => device'[e] = "absent"
      BY <2>2, <2>3 DEF DevicesInv, PairingInv
    <3>. QED BY <3>1, <3>2, <3>3, <3>4, <3>5 DEF PairingInv, BroughtIn
  <2>6. DevicesTypeOK'
    BY <1>2, <1>3, <2>1, <2>2, <2>3
  <2>7. \A e \in Device : /\ device[e] # "absent" => device'[e] # "absent"
                          /\ device'[e] = "revoked" <=> device[e] = "revoked"
    BY <2>3
  <2>. QED BY <1>1, <1>4, <2>5, <2>6, <2>7 DEF DevicesInv
<1>. QED BY <1>5, <1>6, <1>7

\* What the removals hold in hand, spelt out for one of them.
LEMMA RemovalTypes ==
    ASSUME DevicesInv, NEW o \in Owner, revoking[o] # NotRevoking
    PROVE  /\ revoking[o] \in [at : {"store", "list", "write"}, device : Device, alone : BOOLEAN,
                               rows : SUBSET Device]
           /\ revoking[o].device \in Device /\ revoking[o].alone \in BOOLEAN
           /\ revoking[o].at \in {"store", "list", "write"} /\ revoking[o].rows \subseteq Device
BY DEF DevicesInv, DevicesTypeOK

\* A step of the removal of o leaves the other removals as they are.
LEMMA RemovalStep ==
    ASSUME DevicesInv, NEW o \in Owner, RevokeStore(o) \/ RevokeList(o) \/ RevokeWrite(o)
    PROVE  /\ DevicesInv' /\ UNCHANGED restarts
           /\ \A d \in Device : device[d] = "revoked" => device'[d] = "revoked"
           /\ \A p \in Owner : revoking[p] # NotRevoking /\ revoking[p].alone /\ revoking'[p] = NotRevoking
                                   => crl' = Revoked'
<1>. DEFINE r == revoking[o]
<1>1. /\ UNCHANGED <<pairingVars, enrolling, invited, touching, restarts>> /\ r.at \in {"store", "list", "write"}
  BY DEF RevokeStore, RevokeList, RevokeWrite
<1>2. r # NotRevoking
  BY <1>1 DEF NotRevoking
<1>3. /\ r \in [at : {"store", "list", "write"}, device : Device, alone : BOOLEAN, rows : SUBSET Device]
      /\ device[r.device] # "absent" /\ r.device \in Device
      /\ r.alone => \A p \in Owner \ {o} : revoking[p] = NotRevoking
      /\ r.alone /\ r.at = "write" => r.rows = Revoked
  BY <1>2, RemovalTypes DEF DevicesInv, RemovalInv
<1>4. /\ revoking = [p \in Owner |-> revoking[p]] /\ device \in [Device -> {"absent", "active", "revoked"}]
      /\ crl \subseteq Device
  BY DEF DevicesInv, DevicesTypeOK, RemovalInv
<1>5. PICK q : /\ revoking' = [revoking EXCEPT ![o] = q]
               /\ \/ /\ q \in [at : {"list", "write"}, device : Device, alone : BOOLEAN, rows : SUBSET Device]
                     /\ q.device = r.device /\ q.alone = r.alone
                     /\ q.at = "write" => q.rows = Revoked /\ device' = device
                  \/ q = NotRevoking /\ crl' = r.rows /\ device' = device /\ r.at = "write"
  <2>1. CASE RevokeStore(o)
    <3>. DEFINE q == [r EXCEPT !.at = "list"]
    <3>1. q \in [at : {"list", "write"}, device : Device, alone : BOOLEAN, rows : SUBSET Device]
          /\ q.device = r.device /\ q.alone = r.alone /\ q.at = "list"
      BY <1>3
    <3>2. revoking' = [revoking EXCEPT ![o] = q]
      BY <2>1 DEF RevokeStore
    <3>. HIDE DEF q, r
    <3>. QED BY <3>1, <3>2
  <2>2. CASE RevokeList(o)
    <3>. DEFINE q == [r EXCEPT !.at = "write", !.rows = Revoked]
    <3>1. Revoked \in SUBSET Device
      BY DEF Revoked
    <3>2. q \in [at : {"list", "write"}, device : Device, alone : BOOLEAN, rows : SUBSET Device]
          /\ q.device = r.device /\ q.alone = r.alone /\ q.rows = Revoked
      BY <1>3, <3>1
    <3>3. revoking' = [revoking EXCEPT ![o] = q] /\ device' = device
      BY <2>2 DEF RevokeList, Listed
    <3>. HIDE DEF q, r
    <3>. QED BY <3>2, <3>3
  <2>3. CASE RevokeWrite(o)
    BY <2>3 DEF RevokeWrite
  <2>. QED BY <2>1, <2>2, <2>3
<1>. HIDE DEF r
<1>6. /\ revoking'[o] = q /\ \A p \in Owner \ {o} : revoking'[p] = revoking[p]
      /\ DOMAIN revoking' = Owner /\ revoking' = [p \in Owner |-> revoking'[p]]
  BY <1>4, <1>5
<1>7. /\ device' \in [Device -> {"absent", "active", "revoked"}]
      /\ \A d \in Device : \/ device'[d] = device[d]
                           \/ device[d] # "absent" /\ device'[d] = "revoked"
  BY <1>3, <1>4 DEF RevokeStore, RevokeList, RevokeWrite, r
<1>8. crl' \subseteq Device
  BY <1>3, <1>4 DEF RevokeStore, RevokeList, RevokeWrite, r
<1>9. DevicesTypeOK'
  <2>1. \A p \in Owner : revoking'[p] = NotRevoking \/ revoking'[p] \in
            [at : {"store", "list", "write"}, device : Device, alone : BOOLEAN, rows : SUBSET Device]
    <3>1. q = NotRevoking \/ q \in [at : {"store", "list", "write"}, device : Device, alone : BOOLEAN,
                                    rows : SUBSET Device]
      BY <1>5
    <3>. QED BY <1>6, <3>1 DEF DevicesInv, DevicesTypeOK
  <2>. QED BY <1>1, <1>7, <1>8, <2>1 DEF DevicesInv, DevicesTypeOK, pairingVars
<1>10. PairingInv'
  <2>1. \A d \in Device : enrolling'[d] # NoCode => device'[d] = "absent"
    BY <1>1, <1>7 DEF DevicesInv, PairingInv
  <2>. QED BY <1>1, <2>1 DEF DevicesInv, PairingInv, BroughtIn, pairingVars
<1>11. RemovalInv'
  <2>1. q # NotRevoking => /\ device'[q.device] # "absent"
                           /\ q.alone => \A p \in Owner \ {o} : revoking'[p] = NotRevoking
                           /\ q.alone /\ q.at = "write" => q.rows = Revoked'
    BY <1>3, <1>5, <1>6, <1>7 DEF Revoked
  <2>2. ASSUME NEW p \in Owner \ {o}, revoking[p] # NotRevoking
        PROVE  /\ device'[revoking[p].device] # "absent" /\ ~ revoking[p].alone
    <3>1. revoking[p].device \in Device /\ device[revoking[p].device] # "absent"
      BY <2>2, RemovalTypes DEF DevicesInv, RemovalInv
    <3>2. ~ revoking[p].alone
      BY <1>2, <2>2 DEF DevicesInv, RemovalInv, r
    <3>. QED BY <1>7, <3>1, <3>2
  <2>. QED BY <1>6, <2>1, <2>2 DEF RemovalInv
<1>12. ASSUME NEW p \in Owner, revoking[p] # NotRevoking, revoking[p].alone, revoking'[p] = NotRevoking
       PROVE  crl' = Revoked'
  <2>1. p = o /\ q = NotRevoking
    BY <1>6, <1>12
  <2>2. crl' = r.rows /\ device' = device /\ r.at = "write"
    BY <1>5, <2>1 DEF NotRevoking
  <2>. QED BY <1>3, <1>12, <2>1, <2>2 DEF Revoked, r
<1>. QED BY <1>1, <1>7, <1>9, <1>10, <1>11, <1>12 DEF DevicesInv

\* A removal begins beside the others.
LEMMA RemovalBegins ==
    ASSUME DevicesInv, NEW o \in Owner, NEW d \in Device, RevokeRead(o, d)
    PROVE  /\ DevicesInv' /\ UNCHANGED <<restarts, device, crl>>
           /\ \A p \in Owner : revoking[p] # NotRevoking => revoking'[p] # NotRevoking
<1>. DEFINE alone == \A p \in Owner : revoking[p] = NotRevoking
            Begun == [at |-> "store", device |-> d, alone |-> alone, rows |-> {}]
            Rec == [at : {"store", "list", "write"}, device : Device, alone : BOOLEAN, rows : SUBSET Device]
<1>1. /\ UNCHANGED <<pairingVars, enrolling, invited, device, crl, touching, restarts>>
      /\ device[d] # "absent" /\ revoking[o] = NotRevoking
      /\ revoking' = [p \in Owner |-> IF p = o THEN Begun
                                      ELSE IF revoking[p] = NotRevoking THEN NotRevoking
                                      ELSE [revoking[p] EXCEPT !.alone = FALSE]]
  BY DEF RevokeRead
<1>2. Begun \in Rec /\ Begun # NotRevoking /\ Begun.device = d /\ Begun.alone = alone /\ Begun.at = "store"
  <2>1. alone \in BOOLEAN
    OBVIOUS
  <2>. HIDE DEF alone
  <2>. QED BY <2>1 DEF NotRevoking
<1>3. ASSUME NEW p \in Owner \ {o}, revoking[p] # NotRevoking
      PROVE  /\ revoking'[p] \in Rec /\ revoking'[p] # NotRevoking /\ ~ revoking'[p].alone
             /\ revoking'[p].device = revoking[p].device
  <2>1. revoking[p] \in Rec
    BY <1>3, RemovalTypes
  <2>2. revoking'[p] = [revoking[p] EXCEPT !.alone = FALSE]
    BY <1>1, <1>3
  <2>. QED BY <2>1, <2>2 DEF NotRevoking
<1>4. revoking'[o] = Begun /\ \A p \in Owner \ {o} : revoking[p] = NotRevoking => revoking'[p] = NotRevoking
  BY <1>1
<1>. HIDE DEF Begun, Rec
<1>5. DevicesTypeOK'
  <2>1. \A p \in Owner : revoking'[p] = NotRevoking \/ revoking'[p] \in Rec
    BY <1>2, <1>3, <1>4
  <2>. QED BY <1>1, <2>1 DEF DevicesInv, DevicesTypeOK, pairingVars, Rec
<1>6. PairingInv'
  BY <1>1 DEF DevicesInv, PairingInv, BroughtIn, pairingVars
<1>7. RemovalInv'
  <2>1. DOMAIN revoking' = Owner /\ revoking' = [p \in Owner |-> revoking'[p]]
    BY <1>1
  <2>2. ASSUME NEW p \in Owner, revoking'[p] # NotRevoking
        PROVE  /\ device'[revoking'[p].device] # "absent"
               /\ revoking'[p].alone => \A q \in Owner \ {p} : revoking'[q] = NotRevoking
               /\ revoking'[p].alone /\ revoking'[p].at = "write" => revoking'[p].rows = Revoked'
    <3>1. CASE p = o
      BY <1>1, <1>2, <1>4, <3>1
    <3>2. CASE p # o
      <4>1. revoking[p] # NotRevoking
        BY <1>4, <2>2, <3>2
      <4>. QED BY <1>1, <1>3, <3>2, <4>1 DEF DevicesInv, RemovalInv
    <3>. QED BY <3>1, <3>2
  <2>. QED BY <2>1, <2>2 DEF RemovalInv
<1>8. \A p \in Owner : revoking[p] # NotRevoking => revoking'[p] # NotRevoking
  BY <1>1, <1>2, <1>3, <1>4
<1>. QED BY <1>1, <1>5, <1>6, <1>7, <1>8 DEF DevicesInv

LEMMA RestartKeeps ==
    ASSUME DevicesInv, RestartMainPC
    PROVE  DevicesInv' /\ device' = device /\ restarts' # restarts
<1>1. /\ restarts' = restarts + 1 /\ pairing' = NoCode /\ starting' = 0 /\ port' = FALSE /\ late' = FALSE
      /\ watcher' = [w \in Code |-> "none"] /\ enrolling' = [d \in Device |-> NoCode]
      /\ revoking' = [o \in Owner |-> NotRevoking] /\ touching' = {}
      /\ UNCHANGED <<codes, wrong, opened, invited, device, crl>>
  BY DEF RestartMainPC
<1>2. NoCode \notin Code
  BY DEF NoCode, Code
<1>3. \A c \in Code : \A a \in BroughtIn(c)' : a \in BroughtIn(c)
  BY <1>1, <1>2 DEF BroughtIn
<1>4. DevicesTypeOK'
  <2>1. /\ watcher' \in [Code -> {"none", "looking", "again", "stopping"}]
        /\ enrolling' \in [Device -> Code \cup {NoCode}]
    BY <1>1
  <2>2. 0 \in 0 .. MaxCodes
    BY PairingTypes
  <2>3. \A o \in Owner : revoking'[o] = NotRevoking
    BY <1>1
  <2>. QED BY <1>1, <2>1, <2>2, <2>3 DEF DevicesInv, DevicesTypeOK
<1>5. PairingInv'
  <2>1. opened' + starting' <= codes'
    BY <1>1, PairingTypes
  <2>2. \A c \in Code : c > codes' => wrong'[c] = 0 /\ BroughtIn(c)' = {}
    BY <1>1, <1>3 DEF DevicesInv, PairingInv
  <2>3. \A c \in Code : \A a, b \in BroughtIn(c)' : a = b
    BY <1>3 DEF DevicesInv, PairingInv
  <2>4. \A d \in Device : enrolling'[d] = NoCode
    BY <1>1
  <2>. QED BY <1>1, <2>1, <2>2, <2>3, <2>4 DEF PairingInv
<1>6. RemovalInv' /\ restarts' \in Nat /\ restarts' # restarts
  <2>1. RemovalInv'
    BY <1>1 DEF RemovalInv
  <2>. QED BY <1>1, <2>1 DEF DevicesInv
<1>. QED BY <1>1, <1>4, <1>5, <1>6 DEF DevicesInv

\* Every step, with what it may not do.
LEMMA DevicesStep ==
    ASSUME DevicesInv, [DevicesNext]_deviceVars
    PROVE  /\ DevicesInv'
           /\ \A d \in Device : device[d] = "revoked" => device'[d] = "revoked"
           /\ \A o \in Owner : revoking[o] # NotRevoking /\ revoking[o].alone /\ revoking'[o] = NotRevoking
                                   /\ restarts' = restarts => crl' = Revoked'
<1>1. CASE \/ CreateCode \/ StartListener \/ (\E slow \in BOOLEAN : StartGivesUp(slow)) \/ OpensLate
           \/ CodeEnds \/ CancelClosesPort \/ EnrolWrong
           \/ \E w \in Code : Watch(w) \/ WatchStops(w)
  <2>1. DevicesInv' /\ UNCHANGED <<rowVars, restarts>>
    BY <1>1, PairingStep
  <2>. QED BY <2>1 DEF rowVars
<1>2. ASSUME NEW d \in Device, EnrolConsume(d) \/ EnrolStore(d) \/ EnrolFails(d) \/ EnrolLocal(d)
      PROVE  /\ DevicesInv' /\ revoking' = revoking
             /\ \A e \in Device : device[e] = "revoked" => device'[e] = "revoked"
  BY <1>2, EnrolStep
<1>3. ASSUME NEW d \in Device, Recognise(d) \/ Touch(d)
      PROVE  DevicesInv' /\ UNCHANGED <<device, revoking>>
  <2>1. device \in [Device -> {"absent", "active", "revoked"}] /\ touching \subseteq Device
    BY DEF DevicesInv, DevicesTypeOK
  <2>2. /\ UNCHANGED <<pairingVars, enrolling, invited, crl, revoking, restarts, device>>
        /\ touching' \in SUBSET Device
    BY <1>3, <2>1 DEF Recognise, Touch, Touched
  <2>3. DevicesTypeOK'
    BY <2>2 DEF DevicesInv, DevicesTypeOK, pairingVars
  <2>4. PairingInv' /\ RemovalInv'
    BY <2>2 DEF DevicesInv, PairingInv, RemovalInv, BroughtIn, Revoked, pairingVars
  <2>. QED BY <2>2, <2>3, <2>4 DEF DevicesInv
<1>4. CASE UNCHANGED deviceVars
  <2>1. DevicesTypeOK' /\ PairingInv' /\ RemovalInv' /\ restarts' = restarts
    BY <1>4 DEF DevicesInv, DevicesTypeOK, PairingInv, RemovalInv, BroughtIn, Revoked, deviceVars,
                pairingVars, rowVars
  <2>. QED BY <1>4, <2>1 DEF DevicesInv, deviceVars, rowVars
<1>5. ASSUME NEW o \in Owner, NEW d \in Device, RevokeRead(o, d)
      PROVE  DevicesInv' /\ device' = device /\ \A p \in Owner : revoking[p] # NotRevoking => revoking'[p] # NotRevoking
  BY <1>5, RemovalBegins
<1>. QED BY <1>1, <1>2, <1>3, <1>4, <1>5, RemovalStep, RestartKeeps
         DEF DevicesNext, PairingNext, RowsNext

LEMMA DevicesSafe == DevicesInv => DevicesTypeOK /\ CodeIsSingleUse
<1>. SUFFICES ASSUME DevicesInv PROVE DevicesTypeOK /\ CodeIsSingleUse
  OBVIOUS
<1>1. ASSUME NEW c \in Code
      PROVE  Cardinality(invited[c] \cup {d \in Device : enrolling[d] = c}) <= 1
  <2>. DEFINE B == invited[c] \cup {d \in Device : enrolling[d] = c}
  <2>1. \A a, b \in B : a = b
    BY DEF DevicesInv, PairingInv, BroughtIn
  <2>. HIDE DEF B
  <2>2. CASE B = {}
    BY <2>2, FS_EmptySet DEF B
  <2>3. CASE B # {}
    <3>1. PICK a : a \in B
      BY <2>3
    <3>2. B = {a}
      BY <2>1, <3>1
    <3>3. Cardinality({a}) = 1
      BY FS_Singleton
    <3>. QED BY <3>2, <3>3 DEF B
  <2>. QED BY <2>2, <2>3
<1>. QED BY <1>1 DEF DevicesInv, CodeIsSingleUse

\* However pairings, requests, removals and restarts overlap: a code lets one PC
\* in, a removed PC stays out, and a removal that ran by itself leaves a complete
\* list (devices.py consume, recognise, write_crl).
THEOREM DoorKeepsItsPromise ==
    DevicesSpec => []CodeIsSingleUse /\ RemovedStaysRemoved /\ LoneRemovalCompletesList
<1>1. DevicesInv /\ [DevicesNext]_deviceVars
          => /\ DevicesInv'
             /\ \A d \in Device : device[d] = "revoked" => device'[d] = "revoked"
             /\ \A o \in Owner : revoking[o] # NotRevoking /\ revoking[o].alone /\ revoking'[o] = NotRevoking
                                     /\ restarts' = restarts => crl' = Revoked'
  BY DevicesStep
<1>2. DevicesSpec => []DevicesInv
  BY <1>1, DevicesStart, PTL DEF DevicesSpec
<1>3. DevicesInv /\ [DevicesNext]_deviceVars
          => /\ [\A d \in Device : device[d] = "revoked" => device'[d] = "revoked"]_deviceVars
             /\ [\A o \in Owner : revoking[o] # NotRevoking /\ revoking[o].alone /\ revoking'[o] = NotRevoking
                                      /\ restarts' = restarts => crl' = Revoked']_deviceVars
  BY <1>1
<1>. QED BY <1>2, <1>3, DevicesSafe, PTL DEF DevicesSpec, RemovedStaysRemoved, LoneRemovalCompletesList

(***************************************************************************)
(* Backups (module Backups).                                               *)
(***************************************************************************)

One(b) == IF b THEN 1 ELSE 0

BackupFile == [state : {"empty", "whole", "damaged"}, holds : SUBSET Nat, noted : Nat]

\* The database, the files and the copy hold what was saved by now.
BackupData ==
    /\ night \in Night /\ kept \in 0 .. MaxKept /\ stale \in BOOLEAN
    /\ live \in [saves : SUBSET (1 .. kept), noted : 0 .. night, sound : BOOLEAN]
    /\ files \in Seq(BackupFile)
    /\ \A n \in 1 .. Newest : files[n].holds \subseteq 1 .. kept /\ files[n].noted \in 0 .. night
    /\ copy \in [no : 0 .. Newest, state : {"empty", "whole", "damaged"}, said : BOOLEAN]
    /\ copied \in 0 .. night

\* Who can be at work, and on which file.
BackupTasks ==
    /\ DOMAIN task = Party
    /\ task["scheduler"] = Nobody
       \/ (/\ task["scheduler"].at \in {"due", "filling", "offsite", "proving"}
           /\ task["scheduler"].of \in 0 .. night)
    /\ task["request"] = Nobody
       \/ (/\ task["request"].at \in {"filling", "restoring"}
           /\ task["request"].of \in 0 .. Newest)
    /\ task["request"].at = "restoring" => task["request"].of # 0
    /\ task["startup"] = Nobody \/ task["startup"].at = "filling"
    /\ \A p \in Party : task[p].at = "filling" => task[p].no \in 1 .. Newest
    /\ ~ up => task["request"] = Nobody /\ task["scheduler"] = Nobody
    /\ up => task["startup"] = Nobody /\ Newest >= 1
    /\ ~ onMainPC => task["scheduler"] = Nobody
    /\ task["request"] # Nobody => orders >= 1

\* Every file but the first was ordered, or made good a mishap.
FilesAreFew ==
    /\ Newest + One(stale) + One(~ up /\ task["startup"] = Nobody) <= 1 + orders + mishaps
    /\ orders \in 0 .. MaxOrders /\ mishaps \in 0 .. MaxMishaps

\* Save k is in a whole file.
InWholeFile(k) == \E n \in 1 .. Newest : files[n].state = "whole" /\ k \in files[n].holds

\* What is overwritten where requests run one after the other is kept elsewhere,
\* and a file that is being filled has nothing in it that could be lost.
LossIsPrevented ==
    ~ onMainPC =>
        /\ \A k \in 1 .. kept : k \in live.saves \/ InWholeFile(k)
        /\ task["request"].at = "restoring" => \A k \in 1 .. kept : InWholeFile(k)
        /\ \A p \in Party : task[p].at = "filling" => files[task[p].no].state = "empty"

\* The row of the night's run can be taken away once for every order and stop.
RunsAreCounted ==
    /\ checked \in Nat /\ downs \in Nat
    /\ up => checked <= One(live.noted = night) + orders + downs - One(task["request"] # Nobody)
    /\ ~ up => checked <= orders + downs

BackupsInv ==
    /\ {onMainPC, folder, encrypted, up} \subseteq BOOLEAN
    /\ BackupData /\ BackupTasks /\ FilesAreFew /\ LossIsPrevented /\ RunsAreCounted

LEMMA BackupsStart == BackupsInit => BackupsInv
<1>. SUFFICES ASSUME BackupsInit PROVE BackupsInv
  OBVIOUS
<1>1. /\ night = 1 /\ up = FALSE /\ kept = 0 /\ live = [saves |-> {}, noted |-> 0, sound |-> TRUE]
      /\ files = <<>> /\ stale = FALSE /\ task = [p \in Party |-> Nobody]
      /\ copy = [no |-> 0, state |-> "empty", said |-> FALSE]
      /\ checked = 0 /\ copied = 0 /\ orders = 0 /\ mishaps = 0 /\ downs = 0
  BY DEF BackupsInit, Started
<1>2. Newest = 0 /\ files \in Seq(BackupFile)
  BY <1>1 DEF Newest
<1>3. BackupData
  <2>1. live \in [saves : SUBSET (1 .. kept), noted : 0 .. night, sound : BOOLEAN]
    BY <1>1
  <2>2. copy \in [no : 0 .. Newest, state : {"empty", "whole", "damaged"}, said : BOOLEAN]
    BY <1>1, <1>2
  <2>3. night \in Night /\ kept \in 0 .. MaxKept /\ copied \in 0 .. night
    BY <1>1, BackupsAssumption DEF Night
  <2>4. \A n \in 1 .. Newest : files[n].holds \subseteq 1 .. kept /\ files[n].noted \in 0 .. night
    BY <1>2
  <2>5. stale \in BOOLEAN
    BY <1>1
  <2>. QED BY <1>2, <2>1, <2>2, <2>3, <2>4, <2>5 DEF BackupData
<1>4. \A p \in Party : task[p] = Nobody /\ task[p].at = "idle"
  BY <1>1 DEF Nobody
<1>5. BackupTasks
  BY <1>1, <1>4 DEF BackupTasks, Party
<1>6. FilesAreFew
  <2>1. One(stale) = 0 /\ One(~ up /\ task["startup"] = Nobody) = 1
    BY <1>1, <1>4 DEF One, Party
  <2>. QED BY <1>1, <1>2, <2>1, BackupsAssumption DEF FilesAreFew
<1>7. LossIsPrevented
  BY <1>1, <1>4 DEF LossIsPrevented, Party
<1>8. RunsAreCounted
  BY <1>1 DEF RunsAreCounted
<1>9. {onMainPC, folder, encrypted, up} \subseteq BOOLEAN
  BY DEF BackupsInit
<1>. QED BY <1>3, <1>5, <1>6, <1>7, <1>8, <1>9 DEF BackupsInv

\* A new file is empty and the last.
LEMMA FileBegins ==
    ASSUME BackupsInv, BeginFile
    PROVE  /\ files' \in Seq(BackupFile) /\ Newest' = Newest + 1 /\ Newest \in Nat
           /\ files'[Newest + 1] = Empty /\ \A n \in 1 .. Newest : files'[n] = files[n]
           /\ \A n \in 1 .. Newest' : n \in 1 .. Newest \/ n = Newest + 1
           /\ stale' = FALSE
<1>1. files \in Seq(BackupFile)
  BY DEF BackupsInv, BackupData
<1>2. Empty \in BackupFile
  BY DEF Empty, BackupFile
<1>3. files' = Append(files, Empty) /\ stale' = FALSE
  BY DEF BeginFile
<1>4. Len(files) \in Nat /\ files' \in Seq(BackupFile) /\ Len(files') = Len(files) + 1
      /\ files'[Len(files) + 1] = Empty /\ \A n \in 1 .. Len(files) : files'[n] = files[n]
  BY <1>1, <1>2, <1>3
<1>. QED BY <1>3, <1>4 DEF Newest

\* A filled file holds what the database holds, or nothing.
LEMMA FileIsFilled ==
    ASSUME BackupsInv, NEW no \in 1 .. Newest, NEW fine \in BOOLEAN, FileEnds(no, fine)
    PROVE  /\ files' \in Seq(BackupFile) /\ Newest' = Newest /\ Newest \in Nat
           /\ \A n \in 1 .. Newest : n # no => files'[n] = files[n]
           /\ files'[no].holds \subseteq 1 .. kept /\ files'[no].noted \in 0 .. night
           /\ fine => files'[no] = Whole
           /\ files'[no].state = "empty" => mishaps' = mishaps + 1
           /\ mishaps' \in {mishaps, mishaps + 1} /\ mishaps' \in 0 .. MaxMishaps
<1>1. files \in Seq(BackupFile) /\ Newest = Len(files) /\ Newest \in Nat
  BY DEF BackupsInv, BackupData, Newest
<1>2. PICK f \in (IF fine THEN {Whole} ELSE IF live.sound THEN {Empty, Damaged} ELSE {Damaged}) :
          files' = [files EXCEPT ![no] = f]
  BY DEF FileEnds
<1>3. /\ Whole = [state |-> "whole", holds |-> live.saves, noted |-> live.noted]
      /\ Empty = [state |-> "empty", holds |-> {}, noted |-> 0]
      /\ Damaged = [state |-> "damaged", holds |-> {}, noted |-> 0]
  BY DEF Whole, Empty, Damaged
<1>4. live.saves \in SUBSET (1 .. kept) /\ live.noted \in 0 .. night /\ live.sound \in BOOLEAN
      /\ kept \in Nat /\ night \in Nat
  BY BackupsAssumption DEF BackupsInv, BackupData, Night
<1>5. Whole \in BackupFile
  <2>1. live.saves \in SUBSET Nat /\ live.noted \in Nat
    BY <1>4
  <2>. QED BY <1>3, <2>1 DEF BackupFile
<1>6. f \in BackupFile /\ f.holds \subseteq 1 .. kept /\ f.noted \in 0 .. night
  <2>1. Empty \in BackupFile /\ Damaged \in BackupFile
    BY <1>3 DEF BackupFile
  <2>2. f \in {Whole, Empty, Damaged}
    BY <1>2
  <2>. QED BY <1>3, <1>4, <1>5, <2>1, <2>2
<1>7. /\ files' \in Seq(BackupFile) /\ Len(files') = Len(files) /\ files'[no] = f
      /\ \A n \in 1 .. Newest : n # no => files'[n] = files[n]
  BY <1>1, <1>2, <1>6
<1>8. mishaps \in Nat /\ MaxMishaps \in Nat /\ mishaps <= MaxMishaps
  BY BackupsAssumption DEF BackupsInv, FilesAreFew
<1>9. /\ mishaps' \in {mishaps, mishaps + 1} /\ mishaps' \in 0 .. MaxMishaps
      /\ ~ (fine \/ ~ live.sound) => mishaps' = mishaps + 1
  <2>1. CASE fine \/ ~ live.sound
    <3>1. mishaps' = mishaps
      BY <2>1 DEF FileEnds
    <3>. QED BY <1>8, <2>1, <3>1
  <2>2. CASE ~ (fine \/ ~ live.sound)
    <3>1. mishaps < MaxMishaps /\ mishaps' = mishaps + 1
      BY <2>2 DEF FileEnds, Mishap
    <3>. QED BY <1>8, <2>2, <3>1
  <2>. QED BY <2>1, <2>2
<1>10. f.state = "empty" => mishaps' = mishaps + 1
  <2>1. f = Empty => ~ fine /\ live.sound
    BY <1>2, <1>3
  <2>2. f.state = "empty" => f = Empty
    BY <1>2, <1>3
  <2>. QED BY <1>9, <2>1, <2>2
<1>11. fine => f = Whole
  BY <1>2
<1>. QED BY <1>1, <1>6, <1>7, <1>9, <1>10, <1>11 DEF Newest

LEMMA BackupFacts ==
    ASSUME BackupsInv
    PROVE  /\ LastNight \in Nat \ {0} /\ MaxKept \in Nat /\ MaxOrders \in Nat /\ MaxMishaps \in Nat
           /\ night \in Nat /\ night >= 1 /\ night <= LastNight /\ kept \in Nat /\ kept <= MaxKept
           /\ Newest \in Nat /\ orders \in Nat /\ orders <= MaxOrders
           /\ mishaps \in Nat /\ mishaps <= MaxMishaps /\ checked \in Nat /\ downs \in Nat
           /\ live.saves \subseteq 1 .. kept /\ live.noted \in 0 .. night /\ live.sound \in BOOLEAN
           /\ One(stale) \in {0, 1} /\ One(~ up /\ task["startup"] = Nobody) \in {0, 1}
           /\ One(live.noted = night) \in {0, 1} /\ One(task["request"] # Nobody) \in {0, 1}
<1>1. /\ LastNight \in Nat \ {0} /\ MaxKept \in Nat /\ MaxOrders \in Nat /\ MaxMishaps \in Nat
  BY BackupsAssumption
<1>2. Newest \in Nat
  BY DEF BackupsInv, BackupData, Newest
<1>3. night \in 1 .. LastNight /\ kept \in 0 .. MaxKept
      /\ live \in [saves : SUBSET (1 .. kept), noted : 0 .. night, sound : BOOLEAN]
  BY DEF BackupsInv, BackupData, Night
<1>4. live.saves \subseteq 1 .. kept /\ live.noted \in 0 .. night /\ live.sound \in BOOLEAN
  BY <1>3
<1>5. orders \in 0 .. MaxOrders /\ mishaps \in 0 .. MaxMishaps
  BY DEF BackupsInv, FilesAreFew
<1>6. checked \in Nat /\ downs \in Nat
  BY DEF BackupsInv, RunsAreCounted
<1>7. \A b : One(b) \in {0, 1}
  BY DEF One
<1>. QED BY <1>1, <1>2, <1>3, <1>4, <1>5, <1>6, <1>7

\* One party's entry changes.
LEMMA TaskIsSet ==
    ASSUME BackupsInv, NEW p \in Party, NEW x, task' = [task EXCEPT ![p] = x]
    PROVE  /\ DOMAIN task' = Party /\ task'[p] = x
           /\ \A q \in Party \ {p} : task'[q] = task[q]
BY DEF BackupsInv, BackupTasks

\* A file is begun: by the scheduler in place of one that got old, on order, or
\* when the program starts.
LEMMA FileBegun ==
    ASSUME BackupsInv, BeginFile, NEW p \in Party, NEW x, x.at = "filling", x.no = Newest + 1,
           task[p] # Nobody => p = "scheduler",
           task' = [task EXCEPT ![p] = x],
           UNCHANGED <<onMainPC, folder, encrypted, night, up, kept, live, copy, copied, checked, mishaps, downs>>,
           up <=> p # "startup",
           p = "scheduler" => onMainPC /\ stale /\ x.of \in 0 .. night,
           p = "request" => x.of \in 0 .. Newest /\ orders < MaxOrders,
           orders' = IF p = "request" THEN orders + 1 ELSE orders
    PROVE  BackupsInv'
<1>1. /\ files' \in Seq(BackupFile) /\ Newest' = Newest + 1 /\ Newest \in Nat
      /\ files'[Newest + 1] = Empty /\ \A n \in 1 .. Newest : files'[n] = files[n]
      /\ \A n \in 1 .. Newest' : n \in 1 .. Newest \/ n = Newest + 1
      /\ stale' = FALSE
  BY FileBegins
<1>2. DOMAIN task' = Party /\ task'[p] = x /\ \A q \in Party \ {p} : task'[q] = task[q]
  BY TaskIsSet
<1>3. x # Nobody /\ p \in {"scheduler", "request", "startup"}
  BY DEF Nobody, Party
<1>4. Empty.state = "empty" /\ Empty.holds = {} /\ Empty.noted = 0
  BY DEF Empty
<1>5. BackupData'
  <2>1. \A n \in 1 .. Newest' : files'[n].holds \subseteq 1 .. kept /\ files'[n].noted \in 0 .. night
    <3>1. \A n \in 1 .. Newest : files[n].holds \subseteq 1 .. kept /\ files[n].noted \in 0 .. night
      BY DEF BackupsInv, BackupData
    <3>2. Empty.holds \subseteq 1 .. kept /\ Empty.noted \in 0 .. night
      BY <1>4, BackupFacts
    <3>. QED BY <1>1, <3>1, <3>2
  <2>2. copy \in [no : 0 .. Newest', state : {"empty", "whole", "damaged"}, said : BOOLEAN]
    BY <1>1 DEF BackupsInv, BackupData
  <2>. QED BY <1>1, <2>1, <2>2 DEF BackupsInv, BackupData
<1>6. BackupTasks'
  <2>1. \A q \in Party : task'[q].at = "filling" => task'[q].no \in 1 .. Newest'
    BY <1>1, <1>2 DEF BackupsInv, BackupTasks
  <2>2. CASE p = "startup"
    BY <1>1, <1>2, <2>1, <2>2 DEF BackupsInv, BackupTasks, Party
  <2>3. CASE p = "scheduler"
    BY <1>1, <1>2, <2>1, <2>3 DEF BackupsInv, BackupTasks, Party
  <2>4. CASE p = "request"
    <3>1. orders' >= 1
      BY <2>4, BackupFacts
    <3>. QED BY <1>1, <1>2, <2>1, <2>4, <3>1 DEF BackupsInv, BackupTasks, Party
  <2>. QED BY <1>3, <2>2, <2>3, <2>4
<1>7. FilesAreFew'
  <2>. DEFINE Idle0 == ~ up /\ task["startup"] = Nobody
  <2>1. Newest + One(stale) + One(Idle0) <= 1 + orders + mishaps
    BY DEF BackupsInv, FilesAreFew
  <2>2. One(stale)' = 0
    BY <1>1 DEF One
  <2>3. One(~ up /\ task["startup"] = Nobody)' = 0
    BY <1>2, <1>3 DEF One, Party
  <2>4. CASE p = "startup"
    <3>1. One(Idle0) = 1
      BY <2>4 DEF One
    <3>. QED BY <1>1, <2>1, <2>2, <2>3, <2>4, <3>1, BackupFacts DEF FilesAreFew
  <2>5. CASE p = "scheduler"
    <3>1. One(stale) = 1
      BY <2>5 DEF One
    <3>. QED BY <1>1, <2>1, <2>2, <2>3, <2>5, <3>1, BackupFacts DEF FilesAreFew
  <2>6. CASE p = "request"
    <3>1. orders' = orders + 1 /\ orders' \in 0 .. MaxOrders
      BY <2>6, BackupFacts
    <3>. DEFINE a == One(Idle0)  b == One(stale)
    <3>2. a \in {0, 1} /\ b \in {0, 1} /\ Newest + b + a <= 1 + orders + mishaps
          /\ Newest \in Nat /\ orders \in Nat /\ mishaps \in Nat
      BY <2>1, BackupFacts DEF One
    <3>. HIDE DEF a, b
    <3>3. Newest' + 0 + 0 <= 1 + orders' + mishaps
      BY <1>1, <3>1, <3>2
    <3>4. mishaps' \in 0 .. MaxMishaps /\ mishaps' = mishaps
      BY DEF BackupsInv, FilesAreFew
    <3>. QED BY <2>2, <2>3, <3>1, <3>3, <3>4 DEF FilesAreFew
  <2>. QED BY <1>3, <2>4, <2>5, <2>6
<1>8. LossIsPrevented'
  <2>1. \A k \in 1 .. kept : InWholeFile(k) => InWholeFile(k)'
    BY <1>1 DEF InWholeFile
  <2>2. ~ onMainPC => \A q \in Party : task'[q].at = "filling" => files'[task'[q].no].state = "empty"
    BY <1>1, <1>2, <1>4 DEF BackupsInv, BackupTasks, LossIsPrevented
  <2>3. task'["request"].at = "restoring" => task["request"].at = "restoring"
    BY <1>2, <1>3 DEF Party
  <2>. QED BY <2>1, <2>2, <2>3 DEF BackupsInv, LossIsPrevented
<1>9. RunsAreCounted'
  <2>1. CASE p = "request"
    <3>1. One(task["request"] # Nobody) = 0 /\ One(task["request"] # Nobody)' = 1
      BY <1>2, <1>3, <2>1 DEF One
    <3>. QED BY <2>1, <3>1, BackupFacts DEF BackupsInv, RunsAreCounted
  <2>2. CASE p # "request"
    <3>1. task'["request"] = task["request"]
      BY <1>2, <2>2 DEF Party
    <3>. QED BY <2>2, <3>1 DEF BackupsInv, RunsAreCounted
  <2>. QED BY <2>1, <2>2
<1>. QED BY <1>5, <1>6, <1>7, <1>8, <1>9 DEF BackupsInv

\* A file is filled, and whoever filled it goes on.
LEMMA FileEnded ==
    ASSUME BackupsInv, NEW p \in Party, task[p].at = "filling",
           NEW fine \in BOOLEAN, FileEnds(task[p].no, fine),
           NEW x, task' = [task EXCEPT ![p] = x],
           UNCHANGED <<onMainPC, folder, encrypted, night, kept, live, stale, copy, copied, checked, orders>>,
           p = "startup" => /\ x = Nobody /\ up' = (files'[task[p].no].state # "empty")
                            /\ downs' = IF up' THEN downs ELSE downs + 1,
           p # "startup" => UNCHANGED <<up, downs>>,
           p = "scheduler" => x = Nobody \/ (x.at = "offsite" /\ x.of \in 0 .. night),
           p = "request" => x = Nobody \/ (x.at = "restoring" /\ x.of = task[p].of /\ x.of # 0 /\ fine)
    PROVE  BackupsInv'
<1>. DEFINE no == task[p].no
<1>1. no \in 1 .. Newest /\ p \in {"scheduler", "request", "startup"} /\ task[p] # Nobody
  BY DEF BackupsInv, BackupTasks, Party, Nobody
<1>2. /\ files' \in Seq(BackupFile) /\ Newest' = Newest /\ Newest \in Nat
      /\ \A n \in 1 .. Newest : n # no => files'[n] = files[n]
      /\ files'[no].holds \subseteq 1 .. kept /\ files'[no].noted \in 0 .. night
      /\ fine => files'[no] = Whole
      /\ files'[no].state = "empty" => mishaps' = mishaps + 1
      /\ mishaps' \in {mishaps, mishaps + 1} /\ mishaps' \in 0 .. MaxMishaps
  BY <1>1, FileIsFilled
<1>3. DOMAIN task' = Party /\ task'[p] = x /\ \A q \in Party \ {p} : task'[q] = task[q]
  BY TaskIsSet
<1>. HIDE DEF no
<1>4. /\ p = "startup" => ~ up /\ task["request"] = Nobody /\ task["scheduler"] = Nobody
      /\ p # "startup" => up /\ task["startup"] = Nobody
      /\ ~ onMainPC => \A q \in Party \ {p} : task[q] = Nobody
      /\ x.at # "filling" /\ Nobody.at = "idle"
  BY <1>1 DEF BackupsInv, BackupTasks, Party, Nobody
<1>5. up' \in BOOLEAN
  BY <1>1 DEF BackupsInv
<1>6. BackupData'
  <2>1. \A n \in 1 .. Newest' : files'[n].holds \subseteq 1 .. kept /\ files'[n].noted \in 0 .. night
    BY <1>2 DEF BackupsInv, BackupData
  <2>2. copy \in [no : 0 .. Newest', state : {"empty", "whole", "damaged"}, said : BOOLEAN]
    BY <1>2 DEF BackupsInv, BackupData
  <2>. QED BY <1>2, <2>1, <2>2 DEF BackupsInv, BackupData
<1>7. BackupTasks'
  <2>1. \A q \in Party : task'[q].at = "filling" => task'[q].no \in 1 .. Newest'
    BY <1>2, <1>3, <1>4 DEF BackupsInv, BackupTasks
  <2>2. CASE p = "startup"
    BY <1>1, <1>2, <1>3, <1>4, <2>1, <2>2 DEF BackupsInv, BackupTasks, Party
  <2>3. CASE p = "scheduler"
    BY <1>1, <1>2, <1>3, <1>4, <2>1, <2>3 DEF BackupsInv, BackupTasks, Party
  <2>4. CASE p = "request"
    BY <1>1, <1>2, <1>3, <1>4, <2>1, <2>4 DEF BackupsInv, BackupTasks, Party
  <2>. QED BY <1>1, <2>2, <2>3, <2>4
<1>8. FilesAreFew'
  <2>1. Newest + One(stale) + One(~ up /\ task["startup"] = Nobody) <= 1 + orders + mishaps
    BY DEF BackupsInv, FilesAreFew
  <2>2. CASE p = "startup" /\ files'[no].state = "empty"
    <3>1. One(~ up /\ task["startup"] = Nobody)' \in {0, 1} /\ One(stale)' = One(stale)
          /\ mishaps' = mishaps + 1 /\ orders' = orders
      BY <1>2, <2>2 DEF One
    <3>. DEFINE a == One(~ up /\ task["startup"] = Nobody)  b == One(~ up /\ task["startup"] = Nobody)'
                c == One(stale)
    <3>2. a \in {0, 1} /\ b \in {0, 1} /\ c \in {0, 1} /\ Newest + c + a <= 1 + orders + mishaps
      BY <2>1, <3>1 DEF One
    <3>. HIDE DEF a, b, c
    <3>3. Newest + c + b <= 1 + orders + mishaps'
      BY <3>1, <3>2, BackupFacts
    <3>4. orders \in 0 .. MaxOrders
      BY DEF BackupsInv, FilesAreFew
    <3>. QED BY <1>2, <3>1, <3>3, <3>4 DEF FilesAreFew, b, c
  <2>3. CASE ~ (p = "startup" /\ files'[no].state = "empty")
    <3>1. One(~ up /\ task["startup"] = Nobody)' = 0
      BY <1>4, <2>3 DEF One, no
    <3>. DEFINE a == One(~ up /\ task["startup"] = Nobody)  b == One(~ up /\ task["startup"] = Nobody)'
                c == One(stale)
    <3>2. b = 0 /\ One(stale)' = c /\ Newest + c + a <= 1 + orders + mishaps /\ orders' = orders
      BY <2>1, <3>1 DEF One
    <3>3. a \in {0, 1} /\ c \in {0, 1} /\ Newest \in Nat /\ orders \in Nat /\ mishaps \in Nat
          /\ mishaps' \in {mishaps, mishaps + 1}
      BY <1>2, BackupFacts
    <3>4. orders \in 0 .. MaxOrders
      BY DEF BackupsInv, FilesAreFew
    <3>. HIDE DEF a, b, c
    <3>5. \A n, o, m, k \in Nat : \A y, z \in {0, 1} :
              n + z + y <= 1 + o + m /\ k \in {m, m + 1} => n + z + 0 <= 1 + o + k
      OBVIOUS
    <3>6. Newest + c + b <= 1 + orders + mishaps'
      <4>1. mishaps' \in Nat
        BY <3>3
      <4>. QED BY <3>2, <3>3, <3>5, <4>1
    <3>. QED BY <1>2, <3>2, <3>4, <3>6 DEF FilesAreFew, b, c
  <2>. QED BY <2>2, <2>3
<1>9. LossIsPrevented'
  <2>. SUFFICES ASSUME ~ onMainPC PROVE LossIsPrevented'
    BY DEF LossIsPrevented
  <2>1. files[no].state = "empty" /\ \A k \in 1 .. kept : k \in live.saves \/ InWholeFile(k)
    BY DEF BackupsInv, LossIsPrevented, no
  <2>2. \A k \in 1 .. kept : InWholeFile(k) => InWholeFile(k)'
    BY <1>2, <2>1 DEF InWholeFile
  <2>3. fine => \A k \in 1 .. kept : k \in live.saves => InWholeFile(k)'
    <3>1. Whole.state = "whole" /\ Whole.holds = live.saves
      BY DEF Whole
    <3>. QED BY <1>1, <1>2, <3>1 DEF InWholeFile, no
  <2>4. \A q \in Party : task'[q].at # "filling"
    BY <1>3, <1>4
  <2>5. task'["request"].at = "restoring" => p = "request" /\ fine
    BY <1>1, <1>3, <1>4 DEF Party
  <2>. QED BY <2>1, <2>2, <2>3, <2>4, <2>5 DEF LossIsPrevented
<1>10. RunsAreCounted'
  <2>1. CASE p = "startup"
    <3>1. task'["request"] = Nobody /\ One(task["request"] # Nobody)' = 0 /\ ~ up
      BY <1>3, <1>4, <2>1 DEF One, Party
    <3>2. checked <= orders + downs
      BY <3>1 DEF BackupsInv, RunsAreCounted
    <3>. QED BY <2>1, <3>1, <3>2, BackupFacts DEF RunsAreCounted
  <2>2. CASE p = "scheduler"
    <3>1. task'["request"] = task["request"]
      BY <1>3, <2>2 DEF Party
    <3>. QED BY <2>2, <3>1 DEF BackupsInv, RunsAreCounted
  <2>3. CASE p = "request"
    <3>1. One(task["request"] # Nobody) = 1 /\ One(task["request"] # Nobody)' \in {0, 1}
      BY <1>1, <2>3 DEF One
    <3>. QED BY <2>3, <3>1, BackupFacts DEF BackupsInv, RunsAreCounted
  <2>. QED BY <1>1, <2>1, <2>2, <2>3
<1>. QED BY <1>5, <1>6, <1>7, <1>8, <1>9, <1>10 DEF BackupsInv

\* What is done while no file changes: if the data stay right, the tasks, files
\* and losses stay right too.
LEMMA FilesAsTheyAre ==
    ASSUME BackupsInv, UNCHANGED files
    PROVE  Newest' = Newest /\ \A k : InWholeFile(k)' = InWholeFile(k)
BY DEF Newest, InWholeFile

\* The night, the users' saves.
LEMMA WorldMoves ==
    ASSUME BackupsInv, Midnight \/ NewestGetsOld \/ Keep \/ UNCHANGED backupVars
    PROVE  BackupsInv'
<1>1. /\ UNCHANGED <<onMainPC, folder, encrypted, up, files, task, copy, copied, orders, downs>>
  BY DEF Midnight, NewestGetsOld, Keep, backupVars, world, offDevice
<1>2. Newest' = Newest /\ \A k : InWholeFile(k)' = InWholeFile(k)
  BY <1>1, FilesAsTheyAre
<1>3. {onMainPC, folder, encrypted, up}' \subseteq BOOLEAN
  BY <1>1 DEF BackupsInv
<1>4. CASE Midnight
  <2>1. night < LastNight /\ night' = night + 1 /\ checked' = 0 /\ UNCHANGED <<kept, live, stale, mishaps>>
    BY <1>4 DEF Midnight
  <2>2. night' \in Night /\ \A n \in 0 .. night : n \in 0 .. night'
    BY <2>1, BackupFacts DEF Night
  <2>3. BackupData'
    <3>1. live \in [saves : SUBSET (1 .. kept), noted : 0 .. night', sound : BOOLEAN]
      BY <2>2 DEF BackupsInv, BackupData
    <3>. QED BY <1>1, <1>2, <2>1, <2>2, <3>1 DEF BackupsInv, BackupData
  <2>4. BackupTasks'
    BY <1>1, <1>2, <2>2 DEF BackupsInv, BackupTasks
  <2>5. FilesAreFew' /\ LossIsPrevented'
    BY <1>1, <1>2, <2>1 DEF BackupsInv, FilesAreFew, LossIsPrevented
  <2>6. RunsAreCounted'
    <3>1. One(live.noted = night)' \in {0, 1} /\ One(task["request"] # Nobody)' = One(task["request"] # Nobody)
      BY <1>1 DEF One
    <3>2. One(task["request"] # Nobody) \in {0, 1} /\ (One(task["request"] # Nobody) = 1 => orders >= 1)
      BY DEF One, BackupsInv, BackupTasks
    <3>. QED BY <1>1, <2>1, <3>1, <3>2, BackupFacts DEF RunsAreCounted
  <2>. QED BY <1>3, <2>3, <2>4, <2>5, <2>6 DEF BackupsInv
<1>5. CASE NewestGetsOld
  <2>1. /\ ~ stale /\ stale' = TRUE /\ mishaps < MaxMishaps /\ mishaps' = mishaps + 1
        /\ UNCHANGED <<night, kept, live, checked>>
    BY <1>5 DEF NewestGetsOld, Mishap
  <2>2. BackupData' /\ BackupTasks' /\ LossIsPrevented' /\ RunsAreCounted'
    BY <1>1, <1>2, <2>1 DEF BackupsInv, BackupData, BackupTasks, LossIsPrevented, RunsAreCounted
  <2>3. FilesAreFew'
    <3>. DEFINE a == One(~ up /\ task["startup"] = Nobody)
    <3>1. One(stale) = 0 /\ One(stale)' = 1 /\ a' = a
      BY <1>1, <2>1 DEF One
    <3>2. a \in {0, 1} /\ Newest + One(stale) + a <= 1 + orders + mishaps /\ orders \in 0 .. MaxOrders
      BY DEF One, BackupsInv, FilesAreFew
    <3>. HIDE DEF a
    <3>3. Newest' + 1 + a' <= 1 + orders + mishaps' /\ mishaps' \in 0 .. MaxMishaps
      BY <1>2, <2>1, <3>1, <3>2, BackupFacts
    <3>. QED BY <1>1, <3>1, <3>2, <3>3 DEF FilesAreFew, a
  <2>. QED BY <1>3, <2>2, <2>3 DEF BackupsInv
<1>6. CASE Keep
  <2>1. /\ up /\ kept < MaxKept /\ (onMainPC \/ task["request"] = Nobody) /\ kept' = kept + 1
        /\ live' = [live EXCEPT !.saves = @ \cup {kept + 1}]
        /\ UNCHANGED <<night, stale, mishaps, checked>>
    BY <1>6 DEF Keep
  <2>2. live'.saves = live.saves \cup {kept + 1} /\ live'.noted = live.noted
        /\ live' \in [saves : SUBSET (1 .. kept'), noted : 0 .. night, sound : BOOLEAN]
    <3>1. live \in [saves : SUBSET (1 .. kept), noted : 0 .. night, sound : BOOLEAN]
      BY DEF BackupsInv, BackupData
    <3>2. live.saves \cup {kept + 1} \in SUBSET (1 .. kept')
      BY <2>1, BackupFacts
    <3>. QED BY <2>1, <3>1, <3>2
  <2>3. BackupData'
    <3>1. kept' \in 0 .. MaxKept /\ \A k \in 1 .. kept : k \in 1 .. kept'
      BY <2>1, BackupFacts
    <3>. QED BY <1>1, <1>2, <2>1, <2>2, <3>1 DEF BackupsInv, BackupData
  <2>4. BackupTasks' /\ FilesAreFew'
    BY <1>1, <1>2, <2>1 DEF BackupsInv, BackupTasks, FilesAreFew
  <2>5. LossIsPrevented'
    <3>1. \A k \in 1 .. kept' : k \in 1 .. kept \/ k \in live'.saves
      BY <2>1, <2>2, BackupFacts
    <3>2. ~ onMainPC => task["request"].at # "restoring"
      BY <2>1 DEF Nobody
    <3>. QED BY <1>1, <1>2, <2>2, <3>1, <3>2 DEF BackupsInv, LossIsPrevented
  <2>6. RunsAreCounted'
    BY <1>1, <2>1, <2>2 DEF BackupsInv, RunsAreCounted
  <2>. QED BY <1>3, <2>3, <2>4, <2>5, <2>6 DEF BackupsInv
<1>7. CASE UNCHANGED backupVars
  <2>1. UNCHANGED <<night, kept, live, stale, mishaps, checked>>
    BY <1>7 DEF backupVars
  <2>. QED BY <1>1, <1>2, <1>3, <2>1 DEF BackupsInv, BackupData, BackupTasks, FilesAreFew, LossIsPrevented, RunsAreCounted
<1>. QED BY <1>4, <1>5, <1>6, <1>7

\* The scheduler's thread goes from one thing to the next while the files stay.
LEMMA SchedulerMoves ==
    ASSUME BackupsInv, up, onMainPC, NEW x, task' = [task EXCEPT !["scheduler"] = x],
           x = Nobody \/ (x.at \in {"due", "offsite", "proving"} /\ x.of \in 0 .. night),
           UNCHANGED <<onMainPC, folder, encrypted, night, up, kept, files, stale, orders, downs, live, checked>>,
           mishaps' \in 0 .. MaxMishaps, mishaps' >= mishaps,
           copy' \in [no : 0 .. Newest, state : {"empty", "whole", "damaged"}, said : BOOLEAN],
           copied' \in 0 .. night
    PROVE  BackupsInv'
<1>1. Newest' = Newest /\ \A k : InWholeFile(k)' = InWholeFile(k)
  BY FilesAsTheyAre
<1>2. DOMAIN task' = Party /\ task'["scheduler"] = x /\ task'["request"] = task["request"]
      /\ task'["startup"] = task["startup"] /\ x.at # "filling" /\ Party = {"scheduler", "request", "startup"}
  <2>1. Party = {"scheduler", "request", "startup"}
    BY DEF Party
  <2>2. DOMAIN task' = Party /\ task'["scheduler"] = x /\ \A q \in Party \ {"scheduler"} : task'[q] = task[q]
    BY <2>1, TaskIsSet
  <2>3. x.at # "filling"
    BY DEF Nobody
  <2>. QED BY <2>1, <2>2, <2>3
<1>3. BackupData'
  BY <1>1 DEF BackupsInv, BackupData
<1>4. BackupTasks'
  BY <1>1, <1>2 DEF BackupsInv, BackupTasks
<1>5. FilesAreFew'
  <2>. DEFINE a == One(~ up /\ task["startup"] = Nobody)
  <2>1. One(stale)' = One(stale) /\ a' = a /\ a \in {0, 1} /\ Newest + One(stale) + a <= 1 + orders + mishaps
    BY <1>2 DEF One, BackupsInv, FilesAreFew
  <2>. HIDE DEF a
  <2>2. Newest' + One(stale)' + a' <= 1 + orders + mishaps'
    BY <1>1, <2>1, BackupFacts
  <2>3. orders \in 0 .. MaxOrders
    BY DEF BackupsInv, FilesAreFew
  <2>. QED BY <2>2, <2>3 DEF FilesAreFew, a
<1>6. LossIsPrevented'
  BY DEF LossIsPrevented
<1>7. RunsAreCounted'
  BY <1>2 DEF BackupsInv, RunsAreCounted
<1>. QED BY <1>3, <1>4, <1>5, <1>6, <1>7 DEF BackupsInv

\* A scheduler at work is on a Main PC that runs, and there is a file.
LEMMA SchedulerIsUp ==
    ASSUME BackupsInv, task["scheduler"].at # "idle"
    PROVE  /\ up /\ onMainPC /\ Newest >= 1 /\ task["scheduler"] # Nobody
           /\ task["scheduler"].of \in 0 .. night
BY DEF BackupsInv, BackupTasks, Nobody

LEMMA NightBegins == ASSUME BackupsInv, NightlyTick PROVE BackupsInv'
<1>. DEFINE x == [at |-> "due", of |-> night]
<1>1. /\ up /\ onMainPC /\ live.noted # night /\ live' = [live EXCEPT !.noted = night] /\ checked' = checked + 1
      /\ task' = [task EXCEPT !["scheduler"] = x]
      /\ UNCHANGED <<onMainPC, folder, encrypted, night, up, kept, files, stale, copy, copied, orders, mishaps, downs>>
  BY DEF NightlyTick, RanToday, world, offDevice
<1>2. x.at = "due" /\ x.of \in 0 .. night
  BY BackupFacts
<1>. HIDE DEF x
<1>3. Newest' = Newest /\ \A k : InWholeFile(k)' = InWholeFile(k)
  BY <1>1, FilesAsTheyAre
<1>4. DOMAIN task' = Party /\ task'["scheduler"] = x /\ task'["request"] = task["request"]
      /\ task'["startup"] = task["startup"] /\ Party = {"scheduler", "request", "startup"}
  BY <1>1, TaskIsSet DEF Party
<1>5. live'.saves = live.saves /\ live'.noted = night
      /\ live' \in [saves : SUBSET (1 .. kept), noted : 0 .. night, sound : BOOLEAN]
  <2>1. live \in [saves : SUBSET (1 .. kept), noted : 0 .. night, sound : BOOLEAN]
    BY DEF BackupsInv, BackupData
  <2>2. night \in 0 .. night
    BY BackupFacts
  <2>. QED BY <1>1, <2>1, <2>2
<1>6. BackupData'
  BY <1>1, <1>3, <1>5 DEF BackupsInv, BackupData
<1>7. BackupTasks'
  BY <1>1, <1>2, <1>3, <1>4 DEF BackupsInv, BackupTasks
<1>8. FilesAreFew' /\ LossIsPrevented'
  BY <1>1, <1>3, <1>4 DEF BackupsInv, FilesAreFew, LossIsPrevented
<1>9. RunsAreCounted'
  <2>1. One(live.noted = night) = 0 /\ One(live.noted = night)' = 1
        /\ One(task["request"] # Nobody)' = One(task["request"] # Nobody)
    BY <1>1, <1>4, <1>5 DEF One
  <2>2. checked <= One(live.noted = night) + orders + downs - One(task["request"] # Nobody)
    BY <1>1 DEF BackupsInv, RunsAreCounted
  <2>. QED BY <1>1, <2>1, <2>2, BackupFacts DEF RunsAreCounted
<1>. QED BY <1>1, <1>6, <1>7, <1>8, <1>9 DEF BackupsInv

\* Files begun and filled by whoever may.
LEMMA FilesAreMade ==
    ASSUME BackupsInv,
           MinuteTick \/ SchedulerFills \/ RequestFills \/ StartFills
             \/ (\E of \in 0 .. Newest : OrderBackup(of))
    PROVE  BackupsInv'
<1>1. Party = {"scheduler", "request", "startup"} /\ Newest \in Nat /\ night \in Nat
  BY BackupFacts DEF Party
<1>2. CASE MinuteTick
  <2>. DEFINE x == [at |-> "filling", of |-> 0, no |-> Newest + 1]
  <2>1. x.at = "filling" /\ x.no = Newest + 1 /\ x.of \in 0 .. night
    BY <1>1
  <2>2. /\ BeginFile /\ up /\ onMainPC /\ task["scheduler"] = Nobody /\ (files = <<>> \/ stale)
        /\ task' = [task EXCEPT !["scheduler"] = x]
        /\ UNCHANGED <<onMainPC, folder, encrypted, night, up, kept, live, copy, copied, checked, mishaps, downs, orders>>
    BY <1>2 DEF MinuteTick, BackupDue, world, offDevice
  <2>. HIDE DEF x
  <2>3. stale
    BY <2>2 DEF BackupsInv, BackupTasks, Newest
  <2>. QED BY <1>1, <2>1, <2>2, <2>3, FileBegun
<1>3. CASE SchedulerFills
  <2>1. task["scheduler"].at = "filling" /\ task["scheduler"].of \in 0 .. night
    BY <1>3, SchedulerIsUp DEF SchedulerFills
  <2>2. PICK fine \in BOOLEAN :
            /\ FileEnds(task["scheduler"].no, fine)
            /\ task' = [task EXCEPT !["scheduler"] = AfterBackup(task["scheduler"].of, fine)]
    BY <1>3 DEF SchedulerFills
  <2>. DEFINE x == AfterBackup(task["scheduler"].of, fine)
  <2>3. x = Nobody \/ (x.at = "offsite" /\ x.of \in 0 .. night)
    BY <2>1 DEF AfterBackup
  <2>4. UNCHANGED <<onMainPC, folder, encrypted, night, up, kept, live, stale, copy, copied, checked, orders, downs>>
    BY <1>3 DEF SchedulerFills, world, offDevice
  <2>5. task' = [task EXCEPT !["scheduler"] = x]
    BY <2>2
  <2>. HIDE DEF x
  <2>. QED BY <1>1, <2>1, <2>2, <2>3, <2>4, <2>5, FileEnded
<1>4. CASE RequestFills
  <2>1. task["request"].at = "filling"
    BY <1>4 DEF RequestFills
  <2>2. PICK fine \in BOOLEAN :
            /\ FileEnds(task["request"].no, fine)
            /\ task' = [task EXCEPT !["request"] =
                            IF MayOverwrite(task["request"].of, fine)
                            THEN [at |-> "restoring", of |-> task["request"].of] ELSE Nobody]
    BY <1>4 DEF RequestFills
  <2>. DEFINE x == IF MayOverwrite(task["request"].of, fine)
                   THEN [at |-> "restoring", of |-> task["request"].of] ELSE Nobody
  <2>3. x = Nobody \/ (x.at = "restoring" /\ x.of = task["request"].of /\ x.of # 0 /\ fine)
    BY DEF MayOverwrite
  <2>4. UNCHANGED <<onMainPC, folder, encrypted, night, up, kept, live, stale, copy, copied, checked, orders, downs>>
    BY <1>4 DEF RequestFills, world, offDevice
  <2>5. task' = [task EXCEPT !["request"] = x]
    BY <2>2
  <2>. HIDE DEF x
  <2>. QED BY <1>1, <2>1, <2>2, <2>3, <2>4, <2>5, FileEnded
<1>5. CASE StartFills
  <2>1. task["startup"].at = "filling"
    BY <1>5 DEF StartFills
  <2>2. PICK fine \in BOOLEAN : FileEnds(task["startup"].no, fine)
    BY <1>5 DEF StartFills
  <2>3. /\ task' = [task EXCEPT !["startup"] = Nobody]
        /\ up' = (files'[task["startup"].no].state # "empty")
        /\ downs' = IF up' THEN downs ELSE downs + 1
        /\ UNCHANGED <<onMainPC, folder, encrypted, night, kept, live, stale, copy, copied, checked, orders>>
    BY <1>5 DEF StartFills, world, offDevice
  <2>. QED BY <1>1, <2>1, <2>2, <2>3, FileEnded
<1>6. ASSUME NEW of \in 0 .. Newest, OrderBackup(of) PROVE BackupsInv'
  <2>. DEFINE x == [at |-> "filling", of |-> of, no |-> Newest + 1]
  <2>1. x.at = "filling" /\ x.no = Newest + 1 /\ x.of \in 0 .. Newest
    OBVIOUS
  <2>2. /\ BeginFile /\ up /\ task["request"] = Nobody /\ orders < MaxOrders /\ orders' = orders + 1
        /\ task' = [task EXCEPT !["request"] = x]
        /\ UNCHANGED <<onMainPC, folder, encrypted, night, up, kept, live, copy, copied, checked, mishaps, downs>>
    BY <1>6 DEF OrderBackup, world, offDevice
  <2>. HIDE DEF x
  <2>. QED BY <1>1, <2>1, <2>2, FileBegun
<1>. QED BY <1>2, <1>3, <1>4, <1>5, <1>6

\* The rest of the night's run: the look at the newest file, the copy and its outcome.
LEMMA NightGoesOn ==
    ASSUME BackupsInv, SchedulerLooks \/ NoFolder \/ CopyOut \/ CopyProved \/ CopySkipped
    PROVE  BackupsInv'
<1>. DEFINE t == task["scheduler"]
<1>1. up /\ onMainPC /\ Newest >= 1 /\ t # Nobody /\ t.of \in 0 .. night /\ t.of \in Nat
  <2>1. t.at # "idle"
    BY DEF SchedulerLooks, NoFolder, CopyOut, CopyProved, CopySkipped
  <2>. QED BY <2>1, SchedulerIsUp, BackupFacts
<1>2. mishaps \in 0 .. MaxMishaps /\ mishaps \in Nat /\ MaxMishaps \in Nat /\ Newest \in Nat
  BY BackupFacts DEF BackupsInv, FilesAreFew
<1>3. copy \in [no : 0 .. Newest, state : {"empty", "whole", "damaged"}, said : BOOLEAN] /\ copied \in 0 .. night
  BY DEF BackupsInv, BackupData
<1>4. CASE SchedulerLooks
  <2>1. CASE BackupDue(stale)
    <3>. DEFINE x == [at |-> "filling", of |-> t.of, no |-> Newest + 1]
    <3>1. x.at = "filling" /\ x.no = Newest + 1 /\ x.of \in 0 .. night /\ "scheduler" \in Party
      BY <1>1 DEF Party
    <3>2. /\ BeginFile /\ (files = <<>> \/ stale)
          /\ task' = [task EXCEPT !["scheduler"] = x]
          /\ UNCHANGED <<onMainPC, folder, encrypted, night, up, kept, live, copy, copied, checked, mishaps, downs, orders>>
      BY <1>4, <2>1 DEF SchedulerLooks, BackupDue, world, offDevice
    <3>. HIDE DEF x
    <3>3. stale
      BY <1>1, <3>2 DEF Newest
    <3>. QED BY <1>1, <3>1, <3>2, <3>3, FileBegun
  <2>2. CASE ~ BackupDue(stale)
    <3>. DEFINE x == AfterBackup(t.of, FALSE)
    <3>1. x = Nobody \/ (x.at = "offsite" /\ x.of \in 0 .. night)
      BY <1>1 DEF AfterBackup
    <3>2. /\ task' = [task EXCEPT !["scheduler"] = x]
          /\ UNCHANGED <<onMainPC, folder, encrypted, night, up, kept, files, stale, orders, downs, live, checked, mishaps, copy, copied>>
      BY <1>4, <2>2 DEF SchedulerLooks, world, offDevice
    <3>. HIDE DEF x
    <3>3. mishaps' \in 0 .. MaxMishaps /\ mishaps' >= mishaps
      BY <1>2, <3>2
    <3>4. /\ copy' \in [no : 0 .. Newest, state : {"empty", "whole", "damaged"}, said : BOOLEAN]
          /\ copied' \in 0 .. night
      BY <1>3, <3>2
    <3>. QED BY <1>1, <3>1, <3>2, <3>3, <3>4, SchedulerMoves
  <2>. QED BY <2>1, <2>2
<1>5. CASE NoFolder
  <2>1. /\ task' = [task EXCEPT !["scheduler"] = Nobody]
        /\ UNCHANGED <<onMainPC, folder, encrypted, night, up, kept, files, stale, orders, downs, live, checked, mishaps, copy, copied>>
    BY <1>5 DEF NoFolder, world, offDevice
  <2>2. mishaps' \in 0 .. MaxMishaps /\ mishaps' >= mishaps
    BY <1>2, <2>1
  <2>3. /\ copy' \in [no : 0 .. Newest, state : {"empty", "whole", "damaged"}, said : BOOLEAN]
        /\ copied' \in 0 .. night
    BY <1>3, <2>1
  <2>. QED BY <1>1, <2>1, <2>2, <2>3, SchedulerMoves
<1>6. CASE CopyOut
  <2>. DEFINE x == [at |-> "proving", of |-> t.of]
  <2>1. PICK fine \in BOOLEAN :
            /\ IF fine THEN UNCHANGED mishaps ELSE Mishap
            /\ copy' = [no |-> Newest, said |-> FALSE, state |-> IF fine THEN files[Newest].state ELSE "damaged"]
    BY <1>6 DEF CopyOut
  <2>2. /\ task' = [task EXCEPT !["scheduler"] = x]
        /\ UNCHANGED <<onMainPC, folder, encrypted, night, up, kept, files, stale, orders, downs, live, checked, copied>>
    BY <1>6 DEF CopyOut, world
  <2>3. x.at = "proving" /\ x.of \in 0 .. night
    BY <1>1
  <2>. HIDE DEF x
  <2>4. mishaps' \in 0 .. MaxMishaps /\ mishaps' >= mishaps
    BY <1>2, <2>1 DEF Mishap
  <2>5. files[Newest].state \in {"empty", "whole", "damaged"} /\ Newest \in 0 .. Newest
    <3>1. files \in Seq(BackupFile) /\ Newest \in 1 .. Len(files)
      BY <1>1, <1>2 DEF BackupsInv, BackupData, Newest
    <3>2. files[Newest] \in BackupFile
      BY <3>1
    <3>. QED BY <1>2, <3>2 DEF BackupFile
  <2>6. copy' \in [no : 0 .. Newest, state : {"empty", "whole", "damaged"}, said : BOOLEAN]
    BY <2>1, <2>5
  <2>. QED BY <1>1, <1>3, <2>2, <2>3, <2>4, <2>6, SchedulerMoves
<1>7. CASE CopyProved \/ CopySkipped
  <2>1. PICK ok \in BOOLEAN : CopySaid(ok)
    BY <1>7 DEF CopyProved, CopySkipped
  <2>2. /\ task' = [task EXCEPT !["scheduler"] = Nobody]
        /\ copy' = [copy EXCEPT !.said = ok] /\ copied' = t.of
        /\ UNCHANGED <<onMainPC, folder, encrypted, night, up, kept, files, stale, orders, downs, live, checked, mishaps>>
    BY <2>1 DEF CopySaid, world
  <2>3. copy' \in [no : 0 .. Newest, state : {"empty", "whole", "damaged"}, said : BOOLEAN]
    BY <1>3, <2>2
  <2>4. mishaps' \in 0 .. MaxMishaps /\ mishaps' >= mishaps /\ copied' \in 0 .. night
    BY <1>1, <1>2, <2>2
  <2>. QED BY <1>1, <2>2, <2>3, <2>4, SchedulerMoves
<1>. QED BY <1>4, <1>5, <1>6, <1>7

\* A file as the database.
LEMMA ContentIs ==
    ASSUME BackupsInv, NEW n \in 1 .. Newest
    PROVE  /\ ContentOf(files[n]) \in [saves : SUBSET (1 .. kept), noted : 0 .. night, sound : BOOLEAN]
           /\ ContentOf(files[n]).saves = files[n].holds
BY DEF BackupsInv, BackupData, ContentOf

\* The database is overwritten by a file: one that was ordered, or one "lan
\* promote" is given on a Main PC that is down.
LEMMA DatabaseIsReplaced ==
    ASSUME BackupsInv, Restore \/ \E n \in 1 .. Newest : Promote(n)
    PROVE  BackupsInv'
<1>1. /\ UNCHANGED <<onMainPC, folder, encrypted, night, up, kept, files, stale, copy, copied, checked, orders, mishaps, downs>>
  BY DEF Restore, Promote, world, offDevice
<1>2. Newest' = Newest /\ \A k : InWholeFile(k)' = InWholeFile(k)
  BY <1>1, FilesAsTheyAre
<1>3. PICK n \in 1 .. Newest : live' = ContentOf(files[n])
  <2>1. CASE Restore
    <3>1. task["request"].at = "restoring" /\ live' = ContentOf(files[task["request"].of])
      BY <2>1 DEF Restore
    <3>2. task["request"] # Nobody
      BY <3>1 DEF Nobody
    <3>3. task["request"].of \in 1 .. Newest
      BY <3>1, <3>2, BackupFacts DEF BackupsInv, BackupTasks
    <3>. QED BY <3>1, <3>3
  <2>2. CASE \E n \in 1 .. Newest : Promote(n)
    BY <2>2 DEF Promote
  <2>. QED BY <2>1, <2>2
<1>4. live' \in [saves : SUBSET (1 .. kept), noted : 0 .. night, sound : BOOLEAN]
  BY <1>3, ContentIs
<1>5. BackupData'
  BY <1>1, <1>2, <1>4 DEF BackupsInv, BackupData
<1>6. /\ DOMAIN task' = Party /\ task'["request"] = Nobody
      /\ \A p \in Party \ {"request"} : task'[p] = task[p]
      /\ Party = {"scheduler", "request", "startup"} /\ Nobody.at = "idle"
  <2>1. Party = {"scheduler", "request", "startup"} /\ Nobody.at = "idle"
    BY DEF Party, Nobody
  <2>2. CASE Restore
    <3>1. task' = [task EXCEPT !["request"] = Nobody]
      BY <2>2 DEF Restore
    <3>. QED BY <2>1, <3>1, TaskIsSet
  <2>3. CASE \E m \in 1 .. Newest : Promote(m)
    <3>1. UNCHANGED task /\ ~ up
      BY <2>3 DEF Promote
    <3>. QED BY <2>1, <3>1 DEF BackupsInv, BackupTasks
  <2>. QED BY <2>1, <2>2, <2>3
<1>7. BackupTasks'
  BY <1>1, <1>2, <1>6 DEF BackupsInv, BackupTasks
<1>8. FilesAreFew'
  <2>1. One(stale)' = One(stale) /\ One(~ up /\ task["startup"] = Nobody)' = One(~ up /\ task["startup"] = Nobody)
    BY <1>1, <1>6
  <2>. QED BY <1>1, <1>2, <2>1 DEF BackupsInv, FilesAreFew
<1>9. LossIsPrevented'
  <2>. SUFFICES ASSUME ~ onMainPC PROVE LossIsPrevented'
    BY <1>1 DEF LossIsPrevented
  <2>1. task["request"].at = "restoring"
    BY DEF Restore, Promote
  <2>2. \A k \in 1 .. kept : InWholeFile(k)
    BY <2>1 DEF BackupsInv, LossIsPrevented
  <2>3. \A p \in Party : task'[p].at = "filling" => task[p].at = "filling" /\ task'[p] = task[p]
    BY <1>6
  <2>. QED BY <1>1, <1>2, <1>6, <2>2, <2>3 DEF BackupsInv, LossIsPrevented
<1>10. RunsAreCounted'
  <2>1. One(task["request"] # Nobody)' = 0 /\ One(live.noted = night)' \in {0, 1}
    BY <1>6 DEF One
  <2>2. CASE up
    <3>1. One(task["request"] # Nobody) = 1
      BY <2>2 DEF Restore, Promote, Nobody, One
    <3>2. checked <= One(live.noted = night) + orders + downs - 1
      BY <2>2, <3>1 DEF BackupsInv, RunsAreCounted
    <3>3. checked <= One(live.noted = night)' + orders + downs - 0
      BY <2>1, <3>2, BackupFacts
    <3>. QED BY <1>1, <2>1, <2>2, <3>3, BackupFacts DEF RunsAreCounted
  <2>3. CASE ~ up
    BY <1>1, <2>3 DEF BackupsInv, RunsAreCounted
  <2>. QED BY <2>2, <2>3
<1>. QED BY <1>1, <1>5, <1>7, <1>8, <1>9, <1>10 DEF BackupsInv

\* The program stops, and starts when its first backup is begun or not due.
LEMMA ProgramStopsAndStarts ==
    ASSUME BackupsInv, Down \/ \E isDue \in BOOLEAN : InitDb(isDue)
    PROVE  BackupsInv'
<1>1. Party = {"scheduler", "request", "startup"} /\ Nobody.at = "idle"
  BY DEF Party, Nobody
<1>2. CASE Down
  <2>1. /\ up \/ task["startup"] # Nobody
        /\ mishaps < MaxMishaps /\ mishaps' = mishaps + 1 /\ downs' = downs + 1 /\ up' = FALSE
        /\ task' = [p \in Party |-> Nobody]
        /\ UNCHANGED <<onMainPC, folder, encrypted, night, kept, live, files, stale, copy, copied, checked, orders>>
    BY <1>2 DEF Down, Mishap, Started, world, offDevice
  <2>2. Newest' = Newest /\ \A k : InWholeFile(k)' = InWholeFile(k)
    BY <2>1, FilesAsTheyAre
  <2>3. DOMAIN task' = Party /\ \A p \in Party : task'[p] = Nobody
    BY <2>1
  <2>4. BackupData' /\ BackupTasks'
    BY <1>1, <2>1, <2>2, <2>3 DEF BackupsInv, BackupData, BackupTasks
  <2>5. FilesAreFew'
    <3>. DEFINE a == One(~ up /\ task["startup"] = Nobody)  b == One(~ up /\ task["startup"] = Nobody)'
                c == One(stale)
    <3>1. a = 0 /\ b \in {0, 1} /\ c \in {0, 1} /\ Newest + c + a <= 1 + orders + mishaps /\ One(stale)' = c
          /\ orders \in 0 .. MaxOrders
      BY <2>1 DEF One, BackupsInv, FilesAreFew
    <3>. HIDE DEF a, b, c
    <3>2. Newest' + c + b <= 1 + orders + mishaps' /\ mishaps' \in 0 .. MaxMishaps
      BY <2>1, <2>2, <3>1, BackupFacts
    <3>. QED BY <2>1, <3>1, <3>2 DEF FilesAreFew, b
  <2>6. LossIsPrevented'
    BY <1>1, <2>1, <2>2, <2>3 DEF BackupsInv, LossIsPrevented
  <2>7. RunsAreCounted'
    <3>1. checked <= 1 + orders + downs
      BY BackupFacts DEF BackupsInv, RunsAreCounted
    <3>2. checked' <= orders' + downs' /\ downs' \in Nat
      BY <2>1, <3>1, BackupFacts
    <3>. QED BY <2>1, <3>2, BackupFacts DEF RunsAreCounted
  <2>8. {onMainPC, folder, encrypted, up}' \subseteq BOOLEAN
    BY <2>1 DEF BackupsInv
  <2>. QED BY <2>4, <2>5, <2>6, <2>7, <2>8 DEF BackupsInv
<1>3. ASSUME NEW isDue \in BOOLEAN, InitDb(isDue) PROVE BackupsInv'
  <2>1. /\ ~ up /\ task["startup"] = Nobody /\ task["request"] = Nobody /\ task["scheduler"] = Nobody
        /\ UNCHANGED <<onMainPC, folder, encrypted, night, kept, live, copy, copied, checked, orders, mishaps, downs>>
    BY <1>3 DEF InitDb, world, offDevice, BackupsInv, BackupTasks
  <2>2. CASE isDue \/ BackupDue(stale)
    <3>. DEFINE x == [at |-> "filling", no |-> Newest + 1]
    <3>1. x.at = "filling" /\ x.no = Newest + 1
      OBVIOUS
    <3>2. BeginFile /\ UNCHANGED up /\ task' = [task EXCEPT !["startup"] = x]
      BY <1>3, <2>2 DEF InitDb
    <3>. HIDE DEF x
    <3>. QED BY <1>1, <2>1, <3>1, <3>2, FileBegun
  <2>3. CASE ~ (isDue \/ BackupDue(stale))
    <3>1. up' = TRUE /\ UNCHANGED <<files, stale, task>> /\ files # <<>> /\ ~ stale
      BY <1>3, <2>3 DEF InitDb, BackupDue
    <3>2. Newest' = Newest /\ \A k : InWholeFile(k)' = InWholeFile(k)
      BY <3>1, FilesAsTheyAre
    <3>3. Newest >= 1
      BY <3>1 DEF BackupsInv, BackupData, Newest
    <3>4. BackupData' /\ BackupTasks'
      BY <2>1, <3>1, <3>2, <3>3 DEF BackupsInv, BackupData, BackupTasks
    <3>5. FilesAreFew'
      <4>. DEFINE a == One(~ up /\ task["startup"] = Nobody)  c == One(stale)
      <4>1. a \in {0, 1} /\ c \in {0, 1} /\ Newest + c + a <= 1 + orders + mishaps /\ One(stale)' = c
            /\ One(~ up /\ task["startup"] = Nobody)' = 0
            /\ orders \in 0 .. MaxOrders /\ mishaps \in 0 .. MaxMishaps
        BY <3>1 DEF One, BackupsInv, FilesAreFew
      <4>. HIDE DEF a, c
      <4>2. Newest' + c + 0 <= 1 + orders + mishaps
        BY <3>2, <4>1, BackupFacts
      <4>. QED BY <2>1, <4>1, <4>2 DEF FilesAreFew
    <3>6. LossIsPrevented'
      BY <2>1, <3>1, <3>2 DEF BackupsInv, LossIsPrevented
    <3>7. RunsAreCounted'
      <4>1. checked <= orders + downs
        BY <2>1 DEF BackupsInv, RunsAreCounted
      <4>2. One(task["request"] # Nobody)' = 0 /\ One(live.noted = night)' \in {0, 1}
        BY <2>1, <3>1 DEF One
      <4>. QED BY <2>1, <3>1, <4>1, <4>2, BackupFacts DEF RunsAreCounted
    <3>8. {onMainPC, folder, encrypted, up}' \subseteq BOOLEAN
      BY <2>1, <3>1 DEF BackupsInv
    <3>. QED BY <3>4, <3>5, <3>6, <3>7, <3>8 DEF BackupsInv
  <2>. QED BY <2>2, <2>3
<1>. QED BY <1>2, <1>3

LEMMA BackupsStep == BackupsInv /\ [BackupsNext]_backupVars => BackupsInv'
<1>. SUFFICES ASSUME BackupsInv, [BackupsNext]_backupVars PROVE BackupsInv'
  OBVIOUS
<1>1. CASE Midnight \/ NewestGetsOld \/ Keep \/ UNCHANGED backupVars
  BY <1>1, WorldMoves
<1>2. CASE NightlyTick
  BY <1>2, NightBegins
<1>3. CASE SchedulerLooks \/ NoFolder \/ CopyOut \/ CopyProved \/ CopySkipped
  BY <1>3, NightGoesOn
<1>4. CASE MinuteTick \/ SchedulerFills \/ RequestFills \/ StartFills \/ \E of \in 0 .. Newest : OrderBackup(of)
  BY <1>4, FilesAreMade
<1>5. CASE Restore \/ \E n \in 1 .. Newest : Promote(n)
  BY <1>5, DatabaseIsReplaced
<1>6. CASE Down \/ \E isDue \in BOOLEAN : InitDb(isDue)
  BY <1>6, ProgramStopsAndStarts
<1>. QED BY <1>1, <1>2, <1>3, <1>4, <1>5, <1>6 DEF BackupsNext, SchedulerStep

LEMMA BackupsSafe == BackupsInv => BackupsTypeOK /\ RestoreIsRecoverable /\ OnceANight
<1>. SUFFICES ASSUME BackupsInv PROVE BackupsTypeOK /\ RestoreIsRecoverable /\ OnceANight
  OBVIOUS
<1>1. RestoreIsRecoverable
  <2>1. SUFFICES ASSUME ~ onMainPC, NEW k \in 1 .. kept
                 PROVE  k \in live.saves \cup UNION {files[n].holds : n \in {m \in 1 .. Newest : files[m].state = "whole"}}
    BY DEF RestoreIsRecoverable, NothingLost
  <2>2. k \in live.saves \/ InWholeFile(k)
    BY <2>1 DEF BackupsInv, LossIsPrevented
  <2>. QED BY <2>2 DEF InWholeFile
<1>2. OnceANight
  BY BackupFacts DEF BackupsInv, RunsAreCounted, OnceANight
<1>3. Newest <= 1 + MaxOrders + MaxMishaps
  <2>. DEFINE a == One(~ up /\ task["startup"] = Nobody)  c == One(stale)
  <2>1. a \in {0, 1} /\ c \in {0, 1} /\ Newest + c + a <= 1 + orders + mishaps
    BY DEF One, BackupsInv, FilesAreFew
  <2>. HIDE DEF a, c
  <2>. QED BY <2>1, BackupFacts
<1>4. \A n \in 1 .. Newest : files[n].state \in {"empty", "whole", "damaged"} /\ files[n].holds \subseteq 1 .. kept
  <2>1. SUFFICES ASSUME NEW n \in 1 .. Newest
                 PROVE  files[n].state \in {"empty", "whole", "damaged"} /\ files[n].holds \subseteq 1 .. kept
    OBVIOUS
  <2>2. files \in Seq(BackupFile) /\ files[n].holds \subseteq 1 .. kept /\ Newest = Len(files)
    BY DEF BackupsInv, BackupData, Newest
  <2>3. files[n] \in BackupFile
    BY <2>2
  <2>. QED BY <2>2, <2>3 DEF BackupFile
<1>5. \A p \in Party : task[p].at \in {"idle", "due", "filling", "offsite", "proving", "restoring"}
  BY DEF BackupsInv, BackupTasks, Party, Nobody
<1>6. copy.no \in 0 .. Newest /\ copied \in 0 .. night /\ stale \in BOOLEAN /\ night \in Night /\ kept \in 0 .. MaxKept
  BY DEF BackupsInv, BackupData
<1>7. live.saves \subseteq 1 .. kept /\ live.noted \in 0 .. night /\ live.sound \in BOOLEAN
  BY BackupFacts
<1>8. {onMainPC, folder, encrypted, up, stale} \subseteq BOOLEAN
  BY <1>6 DEF BackupsInv
<1>. QED BY <1>1, <1>2, <1>3, <1>4, <1>5, <1>6, <1>7, <1>8 DEF BackupsTypeOK

\* Where requests run one after the other no restore loses a save, whatever file
\* is chosen and wherever the program stops (backup.py restore_backup); the night's
\* run begins once, and again only for a restore, a promotion or a stop
\* (backup_scheduler.py tick).
THEOREM BackupsKeepTheirPromise == BackupsSpec => []RestoreIsRecoverable /\ []OnceANight
BY BackupsStart, BackupsStep, BackupsSafe, PTL DEF BackupsSpec

-----------------------------------------------------------------------------
(* All of them.                                                            *)

ServicesInv == MailInv /\ WorkerInv /\ DevicesInv /\ BackupsInv

LEMMA ServicesStart == MCInit => ServicesInv
BY MailStarts, WorkerStarts, DevicesStart, BackupsStart DEF MCInit, ServicesInv

LEMMA ServicesStep == ServicesInv /\ [MCNext]_mcVars => ServicesInv'
<1>. SUFFICES ASSUME ServicesInv, [MCNext]_mcVars PROVE ServicesInv'
  OBVIOUS
<1>1. [MailNext]_mailVars
  BY DEF MCNext, mcVars
<1>2. [CheckWorkerNext]_checkVars
  BY DEF MCNext, mcVars
<1>3. [DevicesNext]_deviceVars
  BY DEF MCNext, mcVars, DevicesNext
<1>4. [BackupsNext]_backupVars
  BY DEF MCNext, mcVars
<1>. QED BY <1>1, <1>2, <1>3, <1>4, MailStep, WorkerStep, DevicesStep, BackupsStep DEF ServicesInv

LEMMA ServicesSafe == ServicesInv => MainPCTypeOK
BY MailSafe, DevicesSafe, BackupsSafe DEF ServicesInv, WorkerInv, MainPCTypeOK

\* Whichever service of the Main PC is followed, the files, rows and threads keep
\* their types and their number (mail_service.py, check_worker.py, devices.py,
\* backup.py).
THEOREM MainPCKeepsTypes == MCSpec => []MainPCTypeOK
BY ServicesStart, ServicesStep, ServicesSafe, PTL DEF MCSpec

(***************************************************************************)
(* One record on several PCs (module LanLive).                             *)
(***************************************************************************)

ReadSent == [version : Tag, body : (0 .. MaxChanges) \cup {NoBody}]

LiveTypes ==
    /\ changed \in 0 .. MaxChanges /\ version \in Version /\ lock \in BOOLEAN
    /\ save \in [Client -> SaveSent \cup {Idle}]
    /\ reading \in [Client -> ReadSent \cup {NoRead}]
    /\ seen \in [Client -> 0 .. MaxChanges] /\ tag \in [Client -> Tag]
    /\ queue \in [Client -> 0 .. QueueLimit]
    /\ {stream, gap} \subseteq SUBSET Client
    /\ {uncounted, silent} \subseteq SUBSET (1 .. MaxChanges)
    /\ faults \in 0 .. MaxFaults

SaveIs(c, places) == save[c] # Idle /\ save[c].at \in places
HoldsLock(c) == SaveIs(c, {"handler", "saved", "previewed"})

\* One save at a time is past the guard, and the version was raised no more often
\* than there were changes and previews to count.
LockIsHeld ==
    /\ \A c \in Client : HoldsLock(c) => lock /\ \A b \in Client : HoldsLock(b) => b = c
    /\ version <= changed + faults
    /\ \A c \in Client : SaveIs(c, {"saved", "previewed"}) => version < changed + faults
    /\ \A c \in Client : SaveIs(c, {"saved"}) => changed >= 1

\* Whoever remembers the version in force has seen every change but those that
\* were not counted, and the one that is being counted.
IsFresh(v, s) ==
    /\ v <= version
    /\ v = version => \A k \in (s + 1) .. changed :
                          k \in uncounted \/ (k = changed /\ \E c \in Client : SaveIs(c, {"saved"}))

TagsAreFresh ==
    \A c \in Client :
        /\ tag[c] # NoTag => IsFresh(tag[c], seen[c])
        /\ reading[c] # NoRead /\ reading[c].version # NoTag =>
               /\ reading[c].version <= version
               /\ reading[c].body # NoBody => IsFresh(reading[c].version, reading[c].body)
        /\ save[c] # Idle /\ save[c].wanted # NoTag =>
               /\ IsFresh(save[c].wanted, save[c].seen)
               /\ save[c].at = "handler" => save[c].wanted = version

LiveInv == LiveTypes /\ LockIsHeld /\ TagsAreFresh

LEMMA LiveNumbers ==
    ASSUME LiveInv
    PROVE  /\ MaxChanges \in Nat /\ MaxFaults \in Nat /\ QueueLimit \in Nat
           /\ changed \in Nat /\ changed <= MaxChanges /\ version \in Nat /\ faults \in Nat
           /\ faults <= MaxFaults /\ version <= changed + faults
BY LanLiveAssumption DEF LiveInv, LiveTypes, LockIsHeld, Version

LEMMA LiveStarts == LanLiveInit => LiveInv
<1>. SUFFICES ASSUME LanLiveInit PROVE LiveInv
  OBVIOUS
<1>1. MaxChanges \in Nat /\ MaxFaults \in Nat /\ QueueLimit \in Nat
  BY LanLiveAssumption
<1>2. LiveTypes
  <2>1. 0 \in 0 .. MaxChanges /\ 0 \in Version /\ 0 \in 0 .. QueueLimit /\ 0 \in 0 .. MaxFaults /\ NoTag \in Tag
    BY <1>1 DEF Version, Tag
  <2>. QED BY <2>1 DEF LanLiveInit, LiveTypes
<1>3. LockIsHeld /\ TagsAreFresh
  BY DEF LanLiveInit, LockIsHeld, TagsAreFresh, HoldsLock, SaveIs
<1>. QED BY <1>2, <1>3 DEF LiveInv

\* What a PC reads and how it hears of changes, while no save goes on.
LEMMA ScreenStep ==
    ASSUME LiveInv, NEW c \in Client,
           Reads(c) \/ TakeEvent(c) \/ Poll(c) \/ LoseStream(c) \/ OpenStream(c)
    PROVE  LiveInv' /\ UNCHANGED changed
<1>1. UNCHANGED <<changed, version, lock, uncounted, silent, save>>
  BY DEF Reads, OpenRecord, ReadBody, ReadAnswer, TakeEvent, Poll, LoseStream, OpenStream, serverVars
<1>2. faults' \in 0 .. MaxFaults /\ faults' >= faults
  <2>1. faults' = faults \/ (faults < MaxFaults /\ faults' = faults + 1)
    BY DEF Reads, OpenRecord, ReadBody, ReadAnswer, TakeEvent, Poll, LoseStream, OpenStream
  <2>. QED BY <2>1, LiveNumbers
<1>3. LockIsHeld'
  BY <1>1, <1>2, LiveNumbers DEF LiveInv, LockIsHeld, HoldsLock, SaveIs
<1>4. stream' \subseteq Client /\ gap' \subseteq Client
  BY LanLiveAssumption DEF Reads, OpenRecord, ReadBody, ReadAnswer, TakeEvent, Poll, LoseStream, OpenStream, streamVars, LiveInv, LiveTypes
<1>5. queue' \in [Client -> 0 .. QueueLimit]
  <2>1. queue \in [Client -> 0 .. QueueLimit] /\ queue[c] \in 0 .. QueueLimit
    BY DEF LiveInv, LiveTypes
  <2>2. CASE TakeEvent(c)
    <3>1. queue[c] - 1 \in 0 .. QueueLimit
      BY <2>1, <2>2, LiveNumbers DEF TakeEvent
    <3>. QED BY <2>1, <2>2, <3>1 DEF TakeEvent
  <2>3. CASE LoseStream(c)
    <3>1. 0 \in 0 .. QueueLimit
      BY LiveNumbers
    <3>. QED BY <2>1, <2>3, <3>1 DEF LoseStream
  <2>4. CASE queue' = queue
    BY <2>1, <2>4
  <2>. QED BY <2>2, <2>3, <2>4 DEF Reads, OpenRecord, ReadBody, ReadAnswer, Poll, OpenStream, streamVars
<1>6. /\ reading' \in [Client -> ReadSent \cup {NoRead}]
      /\ seen' \in [Client -> 0 .. MaxChanges] /\ tag' \in [Client -> Tag] /\ TagsAreFresh'
  <2>1. /\ reading \in [Client -> ReadSent \cup {NoRead}]
        /\ seen \in [Client -> 0 .. MaxChanges] /\ tag \in [Client -> Tag] /\ TagsAreFresh
    BY DEF LiveInv, LiveTypes
  <2>2. CASE ReadAgain(c) /\ UNCHANGED <<seen, tag>>
    <3>1. reading' = [reading EXCEPT ![c] = NewRead(c)] /\ UNCHANGED <<seen, tag>>
      BY <2>2 DEF ReadAgain
    <3>2. NewRead(c) \in ReadSent /\ NewRead(c).body = NoBody
          /\ (NewRead(c).version # NoTag => NewRead(c).version = version)
      BY DEF NewRead, ReadSent, Tag, LiveInv, LiveTypes
    <3>3. reading' \in [Client -> ReadSent \cup {NoRead}]
      BY <2>1, <3>1, <3>2
    <3>4. TagsAreFresh'
      BY <1>1, <2>1, <3>1, <3>2, LiveNumbers DEF TagsAreFresh, IsFresh, SaveIs
    <3>. QED BY <2>1, <3>1, <3>3, <3>4
  <2>3. CASE ReadBody(c)
    <3>1. reading' = [reading EXCEPT ![c].body = changed] /\ UNCHANGED <<seen, tag>> /\ reading[c] # NoRead
      BY <2>3 DEF ReadBody
    <3>2. reading[c] \in ReadSent
      BY <2>1, <3>1
    <3>. DEFINE r == [reading[c] EXCEPT !.body = changed]
    <3>3. r \in ReadSent /\ r.version = reading[c].version /\ r.body = changed
      BY <3>2 DEF ReadSent, LiveInv, LiveTypes
    <3>4. reading' = [reading EXCEPT ![c] = r]
      BY <3>1
    <3>. HIDE DEF r
    <3>5. reading' \in [Client -> ReadSent \cup {NoRead}]
      BY <2>1, <3>3, <3>4
    <3>6. r.version # NoTag => r.version <= version
      BY <2>1, <3>1, <3>3 DEF TagsAreFresh
    <3>7. (changed + 1) .. changed = {}
      BY LiveNumbers
    <3>8. TagsAreFresh'
      BY <1>1, <2>1, <3>1, <3>3, <3>4, <3>6, <3>7 DEF TagsAreFresh, IsFresh, SaveIs
    <3>. QED BY <2>1, <3>1, <3>5, <3>8
  <2>4. CASE ReadAnswer(c)
    <3>1. /\ reading[c] # NoRead /\ reading[c].body # NoBody
          /\ seen' = [seen EXCEPT ![c] = reading[c].body]
          /\ tag' = [tag EXCEPT ![c] = IF c \in Opening THEN reading[c].version ELSE NoTag]
          /\ reading' = [reading EXCEPT ![c] = NoRead]
      BY <2>4 DEF ReadAnswer, Etag
    <3>2. reading[c].body \in 0 .. MaxChanges /\ reading[c].version \in Tag /\ NoTag \in Tag
      BY <2>1, <3>1 DEF ReadSent, Tag
    <3>3. /\ reading' \in [Client -> ReadSent \cup {NoRead}]
          /\ seen' \in [Client -> 0 .. MaxChanges] /\ tag' \in [Client -> Tag]
      BY <2>1, <3>1, <3>2
    <3>4. TagsAreFresh'
      BY <1>1, <2>1, <3>1, <3>2 DEF TagsAreFresh, IsFresh, SaveIs
    <3>. QED BY <3>3, <3>4
  <2>5. CASE UNCHANGED <<reading, seen, tag>>
    BY <1>1, <2>1, <2>5 DEF TagsAreFresh, IsFresh, SaveIs
  <2>. QED BY <2>2, <2>3, <2>4, <2>5 DEF Reads, OpenRecord, TakeEvent, Poll, LoseStream, OpenStream, screenVars
<1>7. LiveTypes'
  BY <1>1, <1>2, <1>4, <1>5, <1>6 DEF LiveInv, LiveTypes
<1>. QED BY <1>1, <1>3, <1>6, <1>7 DEF LiveInv

LEMMA VersionIsBounded ==
    ASSUME LiveInv, changed' \in 0 .. MaxChanges, faults' \in 0 .. MaxFaults, version' \in Nat,
           version' <= changed' + faults'
    PROVE  version' \in Version
<1>1. version' <= MaxChanges + MaxFaults
  <2>1. \A a, b, c, d, v \in Nat : a \in 0 .. c /\ b \in 0 .. d /\ v <= a + b => v <= c + d
    OBVIOUS
  <2>2. changed' \in Nat /\ faults' \in Nat /\ MaxChanges \in Nat /\ MaxFaults \in Nat
    BY LiveNumbers
  <2>. QED BY <2>1, <2>2
<1>. QED BY <1>1 DEF Version

\* A save is sent and passes the guard, or not.
LEMMA GuardStep ==
    ASSUME LiveInv, NEW c \in Client, SendSave(c) \/ Refuse(c) \/ Accept(c)
    PROVE  LiveInv' /\ UNCHANGED changed
<1>1. UNCHANGED <<changed, version, uncounted, silent, faults, reading, seen, tag, stream, queue, gap>>
  BY DEF SendSave, Refuse, Accept, serverVars, screenVars, streamVars
<1>2. /\ save \in [Client -> SaveSent \cup {Idle}] /\ seen[c] \in 0 .. MaxChanges /\ tag[c] \in Tag
      /\ 0 \in 0 .. MaxChanges
  BY LiveNumbers DEF LiveInv, LiveTypes
<1>3. CASE SendSave(c)
  <2>. DEFINE r == [at |-> "waiting", wanted |-> tag[c], seen |-> IF tag[c] = NoTag THEN 0 ELSE seen[c]]
  <2>1. /\ r \in SaveSent /\ r.at = "waiting" /\ r.wanted = tag[c] /\ (r.wanted # NoTag => r.seen = seen[c])
        /\ save' = [save EXCEPT ![c] = r] /\ UNCHANGED lock /\ save[c] = Idle
    BY <1>2, <1>3 DEF SendSave, SaveSent, serverVars
  <2>. HIDE DEF r
  <2>2. LiveTypes'
    BY <1>1, <1>2, <2>1 DEF LiveInv, LiveTypes
  <2>3. LockIsHeld'
    BY <1>1, <1>2, <2>1 DEF LiveInv, LockIsHeld, HoldsLock, SaveIs
  <2>4. TagsAreFresh'
    BY <1>1, <1>2, <2>1 DEF LiveInv, TagsAreFresh, IsFresh, SaveIs
  <2>. QED BY <1>1, <2>2, <2>3, <2>4 DEF LiveInv
<1>4. CASE Refuse(c)
  <2>1. save' = [save EXCEPT ![c] = Idle] /\ UNCHANGED lock /\ save[c].at = "waiting"
    BY <1>4 DEF Refuse, serverVars
  <2>2. LiveTypes'
    BY <1>1, <1>2, <2>1 DEF LiveInv, LiveTypes
  <2>3. LockIsHeld'
    BY <1>1, <1>2, <2>1 DEF LiveInv, LockIsHeld, HoldsLock, SaveIs
  <2>4. TagsAreFresh'
    BY <1>1, <1>2, <2>1 DEF LiveInv, TagsAreFresh, IsFresh, SaveIs
  <2>. QED BY <1>1, <2>2, <2>3, <2>4 DEF LiveInv
<1>5. CASE Accept(c)
  <2>. DEFINE r == [save[c] EXCEPT !.at = "handler"]
  <2>1. /\ save[c] # Idle /\ save[c].at = "waiting" /\ ~ lock /\ lock' = TRUE
        /\ (save[c].wanted # NoTag => save[c].wanted = version)
        /\ save' = [save EXCEPT ![c] = r]
    BY <1>5 DEF Accept, IsStale
  <2>2. r \in SaveSent /\ r.at = "handler" /\ r.wanted = save[c].wanted /\ r.seen = save[c].seen
    BY <1>2, <2>1 DEF SaveSent
  <2>. HIDE DEF r
  <2>3. LiveTypes'
    BY <1>1, <1>2, <2>1, <2>2 DEF LiveInv, LiveTypes
  <2>4. LockIsHeld'
    BY <1>1, <1>2, <2>1, <2>2 DEF LiveInv, LockIsHeld, HoldsLock, SaveIs
  <2>5. TagsAreFresh'
    BY <1>1, <1>2, <2>1, <2>2 DEF LiveInv, TagsAreFresh, IsFresh, SaveIs
  <2>. QED BY <1>1, <2>3, <2>4, <2>5 DEF LiveInv
<1>. QED BY <1>3, <1>4, <1>5

\* The handler commits: what it overwrites the PC has seen, if it sent a version.
LEMMA HandlerStep ==
    ASSUME LiveInv, NEW c \in Client, HandlerCommits(c)
    PROVE  /\ LiveInv'
           /\ save[c].wanted # NoTag => (save[c].seen + 1) .. changed \subseteq uncounted
           /\ \A b \in Client : save'[b] # save[b] => b = c
<1>. DEFINE r == [save[c] EXCEPT !.at = "saved"]
<1>1. /\ UNCHANGED <<version, lock, uncounted, silent, faults, reading, seen, tag, stream, queue, gap>>
      /\ save[c] # Idle /\ save[c].at = "handler" /\ changed < MaxChanges /\ changed' = changed + 1
      /\ save' = [save EXCEPT ![c] = r]
  BY DEF HandlerCommits, screenVars, streamVars
<1>2. save \in [Client -> SaveSent \cup {Idle}]
  BY DEF LiveInv, LiveTypes
<1>3. r \in SaveSent /\ r.at = "saved" /\ r.wanted = save[c].wanted /\ r.seen = save[c].seen
  BY <1>1, <1>2 DEF SaveSent
<1>. HIDE DEF r
<1>4. changed' \in 0 .. MaxChanges /\ changed' >= 1
  BY <1>1, LiveNumbers
<1>5. LiveTypes'
  BY <1>1, <1>2, <1>3, <1>4 DEF LiveInv, LiveTypes
<1>6. LockIsHeld'
  <2>1. version <= changed' + faults /\ version < changed' + faults
    BY <1>1, LiveNumbers
  <2>. QED BY <1>1, <1>2, <1>3, <1>4, <2>1 DEF LiveInv, LockIsHeld, HoldsLock, SaveIs
<1>7. ~ \E b \in Client : SaveIs(b, {"saved"})
  BY <1>1 DEF LiveInv, LockIsHeld, HoldsLock, SaveIs
<1>8. TagsAreFresh'
  <2>1. \E b \in Client : save'[b] # Idle /\ save'[b].at = "saved"
    BY <1>1, <1>2, <1>3, IdleAssumption
  <2>2. \A s \in 0 .. MaxChanges : \A k \in (s + 1) .. changed' : k \in (s + 1) .. changed \/ k = changed'
    BY <1>1, LiveNumbers
  <2>3. \A b \in Client : /\ seen[b] \in 0 .. MaxChanges
                          /\ reading[b] # NoRead /\ reading[b].body # NoBody => reading[b].body \in 0 .. MaxChanges
                          /\ save[b] # Idle => save[b].seen \in 0 .. MaxChanges
    BY DEF LiveInv, LiveTypes, ReadSent, SaveSent
  <2>4. \A b \in Client : save'[b] # Idle => /\ save[b] # Idle /\ save'[b].wanted = save[b].wanted
                                           /\ save'[b].seen = save[b].seen
                                           /\ (save'[b].at = "handler" => save[b].at = "handler")
    BY <1>1, <1>2, <1>3
  <2>5. TagsAreFresh
    BY DEF LiveInv
  <2>. QED BY <1>1, <1>7, <2>1, <2>2, <2>3, <2>4, <2>5 DEF TagsAreFresh, IsFresh, SaveIs
<1>9. save[c].wanted # NoTag => (save[c].seen + 1) .. changed \subseteq uncounted
  BY <1>1, <1>7 DEF LiveInv, TagsAreFresh, IsFresh
<1>10. \A b \in Client : save'[b] # save[b] => b = c
  BY <1>1, <1>2
<1>. QED BY <1>5, <1>6, <1>8, <1>9, <1>10 DEF LiveInv

\* The save ends: refused, counted and announced, or cut off.
LEMMA SaveEnds ==
    ASSUME LiveInv, NEW c \in Client,
           HandlerRefuses(c) \/ HandlerPreviews(c) \/ BumpAndAnnounce(c) \/ BumpFails(c) \/ TimeLimit(c)
    PROVE  LiveInv' /\ UNCHANGED changed
<1>1. UNCHANGED <<changed, reading, seen, stream, gap>>
  BY DEF HandlerRefuses, HandlerPreviews, BumpAndAnnounce, BumpFails, TimeLimit, Answered, serverVars, screenVars, streamVars
<1>2. /\ save \in [Client -> SaveSent \cup {Idle}] /\ tag \in [Client -> Tag] /\ NoTag \in Tag
      /\ uncounted \subseteq 1 .. MaxChanges /\ silent \subseteq 1 .. MaxChanges
      /\ queue \in [Client -> 0 .. QueueLimit]
  BY DEF LiveInv, LiveTypes, Tag
<1>3. Announced \in [Client -> 0 .. QueueLimit]
  <2>1. \A b \in Client : queue[b] \in 0 .. QueueLimit /\ (queue[b] < QueueLimit => queue[b] + 1 \in 0 .. QueueLimit)
    BY <1>2, LiveNumbers
  <2>. QED BY <2>1 DEF Announced
<1>4. faults' \in 0 .. MaxFaults /\ faults' \in {faults, faults + 1}
  <2>1. faults' = faults \/ (faults < MaxFaults /\ faults' = faults + 1)
    BY DEF HandlerRefuses, HandlerPreviews, BumpAndAnnounce, BumpFails, TimeLimit
  <2>2. faults + 1 \in Nat /\ faults \in 0 .. MaxFaults /\ (faults < MaxFaults => faults + 1 \in 0 .. MaxFaults)
    BY LiveNumbers
  <2>. QED BY <2>1, <2>2
<1>5. changed \in 0 .. MaxChanges /\ changed \in Nat /\ faults \in Nat /\ version \in Nat /\ version <= changed + faults
  BY LiveNumbers DEF LiveInv, LiveTypes
<1>6. CASE HandlerRefuses(c) \/ TimeLimit(c)
  <2>1. /\ save[c] # Idle /\ save[c].at \in {"handler", "saved"} /\ lock' = FALSE
        /\ save' = [save EXCEPT ![c] = Idle] /\ UNCHANGED <<version, tag, queue>>
        /\ \/ save[c].at = "handler" /\ UNCHANGED <<uncounted, silent>>
           \/ /\ save[c].at = "saved" /\ uncounted' = uncounted \cup {changed}
              /\ silent' = silent \cup {changed}
    BY <1>6 DEF HandlerRefuses, TimeLimit, screenVars, streamVars
  <2>2. save[c].at = "saved" => changed \in 1 .. MaxChanges
    BY <1>5, <2>1 DEF LiveInv, LockIsHeld, SaveIs
  <2>3. LiveTypes'
    BY <1>1, <1>2, <1>4, <2>1, <2>2 DEF LiveInv, LiveTypes
  <2>4. LockIsHeld'
    <3>1. version <= changed + faults' /\ (version < changed + faults => version < changed + faults')
      <4>1. faults' \in Nat /\ faults' >= faults
        BY <1>4, <1>5
      <4>2. \A v, k, f, g \in Nat : g >= f /\ v <= k + f => v <= k + g
        OBVIOUS
      <4>3. \A v, k, f, g \in Nat : g >= f /\ v < k + f => v < k + g
        OBVIOUS
      <4>. QED BY <1>5, <4>1, <4>2, <4>3
    <3>. QED BY <1>1, <1>2, <2>1, <3>1 DEF LiveInv, LockIsHeld, HoldsLock, SaveIs
  <2>5. TagsAreFresh'
    <3>1. TagsAreFresh
      BY DEF LiveInv
    <3>2. \A b \in Client : SaveIs(b, {"saved"}) => b = c
      BY <2>1 DEF LiveInv, LockIsHeld, HoldsLock, SaveIs
    <3>. QED BY <1>1, <1>2, <2>1, <3>1, <3>2 DEF TagsAreFresh, IsFresh, SaveIs
  <2>. QED BY <1>1, <2>3, <2>4, <2>5 DEF LiveInv
<1>7. CASE HandlerPreviews(c)
  <2>. DEFINE r == [save[c] EXCEPT !.at = "previewed"]
  <2>1. /\ save[c] # Idle /\ save[c].at = "handler" /\ faults' = faults + 1
        /\ save' = [save EXCEPT ![c] = r] /\ UNCHANGED <<version, lock, uncounted, silent, tag, queue>>
    BY <1>7 DEF HandlerPreviews, serverVars, screenVars, streamVars
  <2>2. r \in SaveSent /\ r.at = "previewed" /\ r.wanted = save[c].wanted /\ r.seen = save[c].seen
    BY <1>2, <2>1 DEF SaveSent
  <2>. HIDE DEF r
  <2>3. LiveTypes'
    BY <1>1, <1>2, <1>4, <2>1, <2>2 DEF LiveInv, LiveTypes
  <2>4. LockIsHeld'
    <3>1. version <= changed + faults' /\ version < changed + faults'
      BY <1>5, <2>1
    <3>. QED BY <1>1, <1>2, <2>1, <2>2, <3>1 DEF LiveInv, LockIsHeld, HoldsLock, SaveIs
  <2>5. TagsAreFresh'
    BY <1>1, <1>2, <2>1, <2>2 DEF LiveInv, LockIsHeld, HoldsLock, TagsAreFresh, IsFresh, SaveIs
  <2>. QED BY <1>1, <2>3, <2>4, <2>5 DEF LiveInv
<1>8. CASE BumpAndAnnounce(c)
  <2>1. /\ save[c] # Idle /\ save[c].at \in {"saved", "previewed"} /\ lock' = FALSE /\ version' = version + 1
        /\ save' = [save EXCEPT ![c] = Idle] /\ tag' = [tag EXCEPT ![c] = NoTag] /\ queue' = Announced
        /\ UNCHANGED <<uncounted, silent, faults>>
    BY <1>8 DEF BumpAndAnnounce, Answered
  <2>2. version < changed + faults /\ \A b \in Client : HoldsLock(b) => b = c
    BY <2>1 DEF LiveInv, LockIsHeld, HoldsLock, SaveIs
  <2>3. version' \in Nat /\ version' <= changed' + faults'
    BY <1>1, <1>5, <2>1, <2>2
  <2>4. version' \in Version
    BY <1>1, <1>4, <1>5, <2>3, VersionIsBounded
  <2>5. LiveTypes'
    BY <1>1, <1>2, <1>3, <1>4, <2>1, <2>4 DEF LiveInv, LiveTypes
  <2>6. LockIsHeld'
    BY <1>1, <1>2, <2>1, <2>2, <2>3 DEF LiveInv, LockIsHeld, HoldsLock, SaveIs
  <2>7. TagsAreFresh'
    <3>1. TagsAreFresh
      BY DEF LiveInv
    <3>2. \A v \in Tag \ {NoTag} : v <= version => v <= version' /\ v # version'
      BY <1>5, <2>1, LiveNumbers DEF Tag, Version
    <3>3. \A b \in Client : /\ tag[b] \in Tag
                            /\ reading[b] # NoRead => reading[b].version \in Tag
                            /\ save[b] # Idle => save[b].wanted \in Tag
      BY DEF LiveInv, LiveTypes, ReadSent, SaveSent
    <3>4. \A b \in Client : save[b] # Idle /\ save[b].at = "handler" => b = c
      BY <2>2 DEF HoldsLock, SaveIs
    <3>. QED BY <1>1, <1>2, <2>1, <3>1, <3>2, <3>4, <3>3 DEF TagsAreFresh, IsFresh
  <2>. QED BY <1>1, <2>5, <2>6, <2>7 DEF LiveInv
<1>9. CASE BumpFails(c)
  <2>1. /\ save[c] # Idle /\ save[c].at = "saved" /\ lock' = FALSE /\ faults' = faults + 1
        /\ save' = [save EXCEPT ![c] = Idle] /\ tag' = [tag EXCEPT ![c] = NoTag] /\ queue' = Announced
        /\ uncounted' = uncounted \cup {changed} /\ UNCHANGED <<version, silent>>
    BY <1>9 DEF BumpFails, Answered
  <2>2. changed \in 1 .. MaxChanges /\ \A b \in Client : HoldsLock(b) => b = c
    BY <1>5, <2>1 DEF LiveInv, LockIsHeld, HoldsLock, SaveIs
  <2>3. LiveTypes'
    BY <1>1, <1>2, <1>3, <1>4, <2>1, <2>2 DEF LiveInv, LiveTypes
  <2>4. LockIsHeld'
    <3>1. version <= changed + faults'
      BY <1>5, <2>1
    <3>. QED BY <1>1, <1>2, <2>1, <2>2, <3>1 DEF LiveInv, LockIsHeld, HoldsLock, SaveIs
  <2>5. TagsAreFresh'
    <3>1. TagsAreFresh
      BY DEF LiveInv
    <3>2. \A b \in Client : SaveIs(b, {"saved"}) => b = c
      BY <2>2 DEF HoldsLock, SaveIs
    <3>. QED BY <1>1, <1>2, <2>1, <3>1, <3>2 DEF TagsAreFresh, IsFresh, SaveIs
  <2>. QED BY <1>1, <2>3, <2>4, <2>5 DEF LiveInv
<1>. QED BY <1>6, <1>7, <1>8, <1>9

LEMMA LiveStep ==
    ASSUME LiveInv, [LanLiveNext]_liveVars
    PROVE  /\ LiveInv'
           /\ \A c \in Client :
                  save[c] # Idle /\ save[c].wanted # NoTag /\ changed' # changed
                  /\ save[c].at = "handler" /\ save'[c] # save[c]
                      => (save[c].seen + 1) .. changed \subseteq uncounted
<1>1. CASE \E c \in Client : HandlerCommits(c)
  BY <1>1, HandlerStep
<1>2. CASE UNCHANGED liveVars
  <2>1. /\ UNCHANGED <<changed, version, lock, uncounted, silent, save, reading, seen, tag, stream, queue, gap, faults>>
    BY <1>2 DEF liveVars, serverVars, screenVars, streamVars
  <2>. QED BY <2>1 DEF LiveInv, LiveTypes, LockIsHeld, TagsAreFresh, HoldsLock, IsFresh, SaveIs
<1>3. CASE LanLiveNext /\ ~ \E c \in Client : HandlerCommits(c)
  BY <1>3, ScreenStep, GuardStep, SaveEnds DEF LanLiveNext, Handles
<1>. QED BY <1>1, <1>2, <1>3

LEMMA LiveSafe == LiveInv => LanLiveTypeOK
BY DEF LiveInv, LiveTypes, LanLiveTypeOK, ReadSent

\* The record, its version and what the PCs remember keep their types, however
\* reads, saves, events and failures overlap (api/lan/live.py, web client.ts).
THEOREM LiveKeepsTypes == LanLiveSpec => []LanLiveTypeOK
BY LiveStarts, LiveStep, LiveSafe, PTL DEF LanLiveSpec

\* A save that sends a version overwrites only what its PC has seen and what was
\* never counted (live.py guard, client.ts If-Match).
THEOREM SavesSawNewest == LanLiveSpec => ConditionalSaveSawNewest
<1>1. LiveInv /\ [LanLiveNext]_liveVars => LiveInv'
  BY LiveStep
<1>2. LanLiveSpec => []LiveInv
  BY <1>1, LiveStarts, PTL DEF LanLiveSpec
<1>3. LiveInv /\ [LanLiveNext]_liveVars
          => [\A c \in Client :
                  save[c] # Idle /\ save[c].wanted # NoTag /\ changed' # changed
                  /\ save[c].at = "handler" /\ save'[c] # save[c]
                      => (save[c].seen + 1) .. changed \subseteq uncounted]_liveVars
  BY LiveStep
<1>. QED BY <1>2, <1>3, PTL DEF LanLiveSpec, ConditionalSaveSawNewest

=============================================================================
