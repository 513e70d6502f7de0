------------------------------- MODULE Devices -------------------------------
(***************************************************************************)
(* The PCs of the network (api/lan/devices.py).  An owner asks for a       *)
(* pairing code, which opens the enrolment port (PairingListener of        *)
(* api/lan/server.py); a new PC proves that it knows the code and receives *)
(* its certificate and token; every request is let in by its token; an     *)
(* owner removes a PC, and the list of revoked certificates is written.    *)
(* Codes live in memory, devices in the database, the list in a file.      *)
(***************************************************************************)
EXTENDS Integers, FiniteSets

CONSTANTS Device,          \* PCs that may be enrolled
          Owner,           \* owners' requests that remove a PC
          MaxCodes,        \* bound: pairing codes asked for
          MaxWrongTries,   \* MAX_WRONG_TRIES
          MaxRestarts      \* bound: restarts of the Main PC

ASSUME DevicesAssumption ==
    /\ {MaxCodes, MaxWrongTries} \subseteq Nat \ {0}
    /\ MaxRestarts \in Nat

VARIABLES codes,      \* how many codes were made; the newest is number codes
          pairing,    \* PairingManager._state: the code that is live
          wrong,      \* wrong proofs given for each code
          starting,   \* requests between create and the listener's start
          opened,     \* how often the port was opened
          port,       \* is the enrolment port open?
          late,       \* does a listener still run that was given up when it started?
          watcher,    \* the _watch thread of each opening
          enrolling,  \* the code each PC's enrolment has used up, or NoCode
          invited,    \* the PCs each code has brought in
          device,     \* LanDevice: absent, active or revoked
          crl,        \* devices named in the file of revoked certificates
          revoking,   \* what each owner's removal has in hand
          touching,   \* PCs whose request has read its row as active
          restarts

pairingVars == <<codes, pairing, wrong, starting, opened, port, late, watcher>>
rowVars == <<enrolling, invited, device, crl, revoking, touching>>
deviceVars == <<pairingVars, rowVars, restarts>>

Code == 1 .. MaxCodes
NoCode == 0
NotRevoking == [at |-> "idle"]
Revoked == {d \in Device : device[d] = "revoked"}

-----------------------------------------------------------------------------
(* The pairing code and its port.                                          *)

\* PairingManager.create: the new code takes the place of the one before.
CreateCode ==
    /\ codes < MaxCodes
    /\ codes' = codes + 1
    /\ pairing' = codes + 1
    /\ starting' = starting + 1
    /\ UNCHANGED <<wrong, opened, port, late, watcher, rowVars, restarts>>

\* PairingListener.running: its thread is alive.
Listening == port \/ late

\* PairingListener.start: nothing to do when the listener runs.
StartListener ==
    /\ starting > 0
    /\ starting' = starting - 1
    /\ IF Listening THEN UNCHANGED <<opened, port, watcher>>
       ELSE /\ port' = TRUE
            /\ opened' = opened + 1
            /\ watcher' = [watcher EXCEPT ![opened + 1] = "looking"]
    /\ UNCHANGED <<codes, pairing, wrong, late, rowVars, restarts>>

\* "The enrolment port could not be opened": after 5 s the listener's thread has
\* ended or, if it is slow, opens the port after all.  Nobody watches it then.
StartGivesUp(slow) ==
    /\ starting > 0 /\ ~Listening
    /\ starting' = starting - 1
    /\ late' = slow
    /\ UNCHANGED <<codes, pairing, wrong, opened, port, watcher, rowVars, restarts>>

OpensLate ==
    /\ late /\ ~port
    /\ port' = TRUE
    /\ UNCHANGED <<codes, pairing, wrong, starting, opened, late, watcher, rowVars, restarts>>

\* A code runs out of time, or is called back before the port is closed.
CodeEnds ==
    /\ pairing # NoCode
    /\ pairing' = NoCode
    /\ UNCHANGED <<codes, wrong, starting, opened, port, late, watcher, rowVars, restarts>>

\* The second half of cancel_pairing.
CancelClosesPort ==
    /\ Listening /\ pairing = NoCode /\ starting = 0
    /\ port' = FALSE /\ late' = FALSE
    /\ UNCHANGED <<codes, pairing, wrong, starting, opened, watcher, rowVars, restarts>>

\* Bug: the watcher gives up after its second look.
SecondLookOnce(w) == "none"

\* A code was asked for meanwhile: the watcher goes on looking.
SecondLook(w) == IF pairing = NoCode THEN "stopping" ELSE "looking"

\* _watch looks twice, 1.5 s apart, before it closes the port.  It ends with
\* the port, whoever closed it.
Watch(w) ==
    /\ watcher' = [watcher EXCEPT ![w] =
           CASE @ \in {"looking", "again"} /\ ~Listening      -> "none"
             [] @ = "looking" /\ Listening /\ pairing = NoCode -> "again"
             [] @ = "again" /\ Listening                       -> SecondLook(w)
             [] OTHER                                          -> @]
    /\ watcher'[w] # watcher[w]
    /\ UNCHANGED <<codes, pairing, wrong, starting, opened, port, late, rowVars, restarts>>

WatchStops(w) ==
    /\ watcher[w] = "stopping"
    /\ watcher' = [watcher EXCEPT ![w] = "none"]
    /\ port' = FALSE /\ late' = FALSE
    /\ UNCHANGED <<codes, pairing, wrong, starting, opened, rowVars, restarts>>

-----------------------------------------------------------------------------
(* Enrolment.                                                              *)

\* Bug: the code is checked and stays live until the device is stored.
UsedUpLater(c) == c

\* consume: a right proof uses the code up.
UsedUp(c) == NoCode

\* enrol with the right code: consume, under the lock of the manager.
EnrolConsume(d) ==
    /\ port /\ pairing # NoCode
    /\ device[d] = "absent" /\ enrolling[d] = NoCode
    /\ enrolling' = [enrolling EXCEPT ![d] = pairing]
    /\ pairing' = UsedUp(pairing)
    /\ UNCHANGED <<codes, wrong, starting, opened, port, late, watcher, invited, device, crl,
                   revoking, touching, restarts>>

\* Bug: a wrong proof is not counted when it is the last allowed.
AfterWrongNever(n) == pairing

AfterWrong(n) == IF n >= MaxWrongTries THEN NoCode ELSE pairing

EnrolWrong ==
    /\ port /\ pairing # NoCode
    /\ wrong' = [wrong EXCEPT ![pairing] = @ + 1]
    /\ pairing' = AfterWrong(wrong'[pairing])
    /\ UNCHANGED <<codes, starting, opened, port, late, watcher, rowVars, restarts>>

\* The row and its certificate are committed; only then the PC is answered.
EnrolStore(d) ==
    /\ enrolling[d] # NoCode
    /\ device' = [device EXCEPT ![d] = "active"]
    /\ invited' = [invited EXCEPT ![enrolling[d]] = @ \cup {d}]
    /\ enrolling' = [enrolling EXCEPT ![d] = NoCode]
    /\ UNCHANGED <<pairingVars, crl, revoking, touching, restarts>>

\* The certificate or the row cannot be made: the code is used up.
EnrolFails(d) ==
    /\ enrolling[d] # NoCode
    /\ enrolling' = [enrolling EXCEPT ![d] = NoCode]
    /\ UNCHANGED <<pairingVars, invited, device, crl, revoking, touching, restarts>>

\* enrol_local, at the Main PC itself: no code.
EnrolLocal(d) ==
    /\ device[d] = "absent" /\ enrolling[d] = NoCode
    /\ device' = [device EXCEPT ![d] = "active"]
    /\ UNCHANGED <<pairingVars, enrolling, invited, crl, revoking, touching, restarts>>

-----------------------------------------------------------------------------
(* Every request, and removal.                                             *)

\* recognise reads the row; a minute after the last time it also stores
\* when the PC was seen.
Recognise(d) ==
    /\ device[d] = "active"
    /\ touching' = touching \cup {d}
    /\ UNCHANGED <<pairingVars, enrolling, invited, device, crl, revoking, restarts>>

\* Bug: the row is written back as it was read.
TouchedRow(d) == "active"

\* Only last_seen_at and last_ip differ from what was read.
Touched(d) == device[d]

Touch(d) ==
    /\ d \in touching
    /\ touching' = touching \ {d}
    /\ device' = [device EXCEPT ![d] = Touched(d)]
    /\ UNCHANGED <<pairingVars, enrolling, invited, crl, revoking, restarts>>

\* Two removals of one PC wait for each other (api/lan/live.py).  alone tells
\* whether another removal ran at some time beside this one.
RevokeRead(o, d) ==
    /\ revoking[o] = NotRevoking
    /\ device[d] # "absent"
    /\ \A p \in Owner : revoking[p] # NotRevoking => revoking[p].device # d
    /\ LET alone == \A p \in Owner : revoking[p] = NotRevoking IN
           revoking' = [p \in Owner |->
               IF p = o THEN [at |-> "store", device |-> d, alone |-> alone, rows |-> {}]
               ELSE IF revoking[p] = NotRevoking THEN NotRevoking
               ELSE [revoking[p] EXCEPT !.alone = FALSE]]
    /\ UNCHANGED <<pairingVars, enrolling, invited, device, crl, touching, restarts>>

\* A PC removed before keeps its date, and the list is written all the same.
RevokeStore(o) ==
    /\ revoking[o].at = "store"
    /\ device' = [device EXCEPT ![revoking[o].device] = "revoked"]
    /\ revoking' = [revoking EXCEPT ![o].at = "list"]
    /\ UNCHANGED <<pairingVars, enrolling, invited, crl, touching, restarts>>

\* Bug: the list names the PC just removed and no other.
ListedLast(o) == {revoking[o].device}

\* write_crl reads every revoked row ...
Listed(o) == Revoked

RevokeList(o) ==
    /\ revoking[o].at = "list"
    /\ revoking' = [revoking EXCEPT ![o].at = "write", ![o].rows = Listed(o)]
    /\ UNCHANGED <<pairingVars, enrolling, invited, device, crl, touching, restarts>>

\* ... and replaces the file, under no lock.
RevokeWrite(o) ==
    /\ revoking[o].at = "write"
    /\ crl' = revoking[o].rows
    /\ revoking' = [revoking EXCEPT ![o] = NotRevoking]
    /\ UNCHANGED <<pairingVars, enrolling, invited, device, touching, restarts>>

\* The Main PC stops and starts: rows and files stay, the rest is gone.
RestartMainPC ==
    /\ restarts < MaxRestarts
    /\ restarts' = restarts + 1
    /\ pairing' = NoCode /\ starting' = 0 /\ port' = FALSE /\ late' = FALSE
    /\ watcher' = [w \in Code |-> "none"]
    /\ enrolling' = [d \in Device |-> NoCode]
    /\ revoking' = [o \in Owner |-> NotRevoking]
    /\ touching' = {}
    /\ UNCHANGED <<codes, wrong, opened, invited, device, crl>>

DevicesInit ==
    /\ codes = 0 /\ pairing = NoCode /\ starting = 0 /\ opened = 0
    /\ wrong = [c \in Code |-> 0]
    /\ port = FALSE /\ late = FALSE
    /\ watcher = [w \in Code |-> "none"]
    /\ enrolling = [d \in Device |-> NoCode]
    /\ invited = [c \in Code |-> {}]
    /\ device = [d \in Device |-> "absent"]
    /\ crl = {}
    /\ revoking = [o \in Owner |-> NotRevoking]
    /\ touching = {}
    /\ restarts = 0

PairingNext ==
    \/ CreateCode \/ StartListener \/ (\E slow \in BOOLEAN : StartGivesUp(slow)) \/ OpensLate
    \/ CodeEnds \/ CancelClosesPort \/ EnrolWrong
    \/ \E w \in Code : Watch(w) \/ WatchStops(w)
    \/ \E d \in Device : EnrolConsume(d) \/ EnrolStore(d) \/ EnrolFails(d)

RowsNext ==
    \/ \E d \in Device : EnrolLocal(d) \/ Recognise(d) \/ Touch(d)
    \/ \E o \in Owner :
           \/ RevokeStore(o) \/ RevokeList(o) \/ RevokeWrite(o)
           \/ \E d \in Device : RevokeRead(o, d)

DevicesNext == PairingNext \/ RowsNext \/ RestartMainPC

\* The watchers sleep for seconds, and a request that asked for a code goes on.
DevicesFairness ==
    /\ WF_deviceVars(StartListener)
    /\ \A w \in Code : WF_deviceVars(Watch(w) \/ WatchStops(w))

DevicesSpec == DevicesInit /\ [][DevicesNext]_deviceVars /\ DevicesFairness

-----------------------------------------------------------------------------
(* Properties.                                                             *)

\* Every variable has the values its field or column may have.
DevicesTypeOK ==
    /\ codes \in 0 .. MaxCodes /\ pairing \in {NoCode, codes}
    /\ wrong \in [Code -> 0 .. MaxWrongTries]
    /\ starting \in 0 .. MaxCodes /\ opened \in 0 .. MaxCodes /\ {port, late} \subseteq BOOLEAN
    /\ watcher \in [Code -> {"none", "looking", "again", "stopping"}]
    /\ enrolling \in [Device -> Code \cup {NoCode}]
    /\ invited \in [Code -> SUBSET Device]
    /\ device \in [Device -> {"absent", "active", "revoked"}]
    /\ crl \subseteq Device /\ touching \subseteq Device
    /\ \A o \in Owner : revoking[o] = NotRevoking \/ revoking[o] \in
           [at : {"store", "list", "write"}, device : Device, alone : BOOLEAN,
            rows : SUBSET Device]

\* One code brings in one PC at most, whatever enrolments run at once and
\* however often the Main PC restarts in between (consume: "single use").
CodeIsSingleUse ==
    \A c \in Code : Cardinality(invited[c] \cup {d \in Device : enrolling[d] = c}) <= 1

\* A PC that was removed is not let in again, not by a request that read its
\* row before the removal and stores when it was last seen after it.
RemovedStaysRemoved ==
    [][\A d \in Device : device[d] = "revoked" => device'[d] = "revoked"]_deviceVars

\* A removal that ran beside no other one leaves a list that names every
\* removed PC, those a crash or an overlap had left out included.
LoneRemovalCompletesList ==
    [][\A o \in Owner :
           revoking[o] # NotRevoking /\ revoking[o].alone /\ revoking'[o] = NotRevoking
           /\ restarts' = restarts => crl' = Revoked']_deviceVars

\* The enrolment port does not stay open without a code (LAN_LOG.md:12:
\* "the enrolment listener exists only while a code is live"), if it was opened
\* within the 5 seconds it is given.
PortClosesInTheEnd == port /\ pairing = NoCode ~> ~port \/ pairing # NoCode \/ late

\* What pairing is trusted with: a code lets one PC in and leaves no port open,
\* and a removed PC stays out.
DoorIsKept ==
    /\ []CodeIsSingleUse
    /\ RemovedStaysRemoved
    /\ LoneRemovalCompletesList
    /\ PortClosesInTheEnd

\* server.py:124: "a NEW code may have been asked for meanwhile: then the
\* door stays open".  It does not when the code comes between the second
\* look and stop(): start() finds the port open, and stop() closes it.
CodeKeepsDoorOpen == pairing # NoCode /\ starting = 0 => port

\* LAN_LOG.md:12 without the exception: a listener that opens later than that has
\* no watcher, and stays until a removal of the code by hand or a restart.
EveryPortCloses == port /\ pairing = NoCode ~> ~port \/ pairing # NoCode

\* adr-lan-multi-user.md:34: "Revoking a device marks the token revoked [...]
\* and adds the certificate to the revocation list".  Of two removals at once
\* the one that read the rows first may write the file last.
RemovedIsListed ==
    restarts = 0 => \A d \in Revoked : d \in crl \/ \E o \in Owner : revoking[o] # NotRevoking

=============================================================================
