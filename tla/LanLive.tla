------------------------------- MODULE LanLive -------------------------------
(***************************************************************************)
(* One record that several PCs show and change through the Main PC.        *)
(* api/lan/live.py counts the changes of the record: a read carries the    *)
(* count it found, a save may send it back, and a save that comes after    *)
(* somebody else's is refused.  Every save is announced on the event       *)
(* streams, and the PCs (web/src/api/client.ts, live.ts) read again what   *)
(* they show; a PC without a stream reads again every 20 seconds.          *)
(***************************************************************************)
EXTENDS Integers

CONSTANTS Client,        \* PCs of the network
          Streaming,     \* PCs that can hold an event stream open
          Opening,       \* PCs that open the record itself; the others show it in
                         \* a list, whose answer carries no version
          MaxChanges,    \* bound: saves of the record
          QueueLimit,    \* places in the event queue of a stream
          MaxFaults,     \* bound: time limits, versions not raised, streams lost, previews
          NoTag, NoRead, NoBody, Idle

ASSUME LanLiveAssumption ==
    /\ Streaming \subseteq Client /\ Opening \subseteq Client
    /\ {MaxChanges, QueueLimit, MaxFaults} \subseteq Nat

Version == 0 .. MaxChanges + MaxFaults
Tag == Version \cup {NoTag}

\* A save on its way: how far it is, and what its PC sent with it and had seen.
SaveSent == [at : {"waiting", "handler", "saved", "previewed"}, wanted : Tag, seen : 0 .. MaxChanges]

ASSUME IdleAssumption == Idle \notin SaveSent

VARIABLES changed,     \* changes of the record committed so far
          version,     \* RecordVersion.version
          lock,        \* is the lock of the record taken?
          save,        \* the save each PC has sent
          reading,     \* the version and the body each PC's read has found
          seen,        \* the change up to which each PC shows the record
          tag,         \* the version each PC remembers for the record
          stream,      \* PCs whose event stream is open
          queue,       \* events waiting in each stream's queue
          uncounted,   \* changes for which the version was not raised
          silent,      \* changes that were not announced
          gap,         \* PCs whose stream came back while they were behind
          faults

serverVars == <<changed, version, lock, uncounted, silent>>
screenVars == <<reading, seen, tag>>
streamVars == <<stream, queue, gap>>
liveVars == <<serverVars, save, screenVars, streamVars, faults>>

-----------------------------------------------------------------------------
(* Reading the record.                                                     *)

\* The version is looked up for the record itself only.
NewRead(c) == [version |-> IF c \in Opening THEN version ELSE NoTag, body |-> NoBody]

\* Bug: a read under way is left to end.
ReadAgainIfIdle(c) ==
    reading' = [reading EXCEPT ![c] = IF @ = NoRead THEN NewRead(c) ELSE @]

\* A read that is started again takes the place of the one under way.
ReadAgain(c) == reading' = [reading EXCEPT ![c] = NewRead(c)]

\* The record is opened, or shown again after the PC's own save.
OpenRecord(c) ==
    /\ c \in Opening /\ tag[c] = NoTag /\ reading[c] = NoRead
    /\ ReadAgain(c)
    /\ UNCHANGED <<serverVars, save, seen, tag, streamVars, faults>>

ReadBody(c) ==
    /\ reading[c] # NoRead /\ reading[c].body = NoBody
    /\ reading' = [reading EXCEPT ![c].body = changed]
    /\ UNCHANGED <<serverVars, save, seen, tag, streamVars, faults>>

\* Bug: the version is looked up when the answer is sent.
EtagAtAnswer(c) == version

\* with_etag: the version was looked up before the body.
Etag(c) == reading[c].version

ReadAnswer(c) ==
    /\ reading[c] # NoRead /\ reading[c].body # NoBody
    /\ seen' = [seen EXCEPT ![c] = reading[c].body]
    /\ tag' = [tag EXCEPT ![c] = IF c \in Opening THEN Etag(c) ELSE NoTag]
    /\ reading' = [reading EXCEPT ![c] = NoRead]
    /\ gap' = IF reading[c].body = changed THEN gap \ {c} ELSE gap
    /\ UNCHANGED <<serverVars, save, stream, queue, faults>>

-----------------------------------------------------------------------------
(* Saving it.                                                              *)

\* The PC sends what it remembers, if anything (If-Match); what it has seen
\* is kept with it for the properties.
SendSave(c) ==
    /\ save[c] = Idle
    /\ save' = [save EXCEPT ![c] = [at |-> "waiting", wanted |-> tag[c],
                                   seen |-> IF tag[c] = NoTag THEN 0 ELSE seen[c]]]
    /\ UNCHANGED <<serverVars, screenVars, streamVars, faults>>

IsStale(wanted) == wanted # NoTag /\ wanted # version

Refuse(c) ==
    /\ save[c] # Idle /\ save[c].at = "waiting" /\ ~lock
    /\ IsStale(save[c].wanted)
    /\ save' = [save EXCEPT ![c] = Idle]
    /\ UNCHANGED <<serverVars, screenVars, streamVars, faults>>

Accept(c) ==
    /\ save[c] # Idle /\ save[c].at = "waiting" /\ ~lock
    /\ ~IsStale(save[c].wanted)
    /\ lock' = TRUE
    /\ save' = [save EXCEPT ![c].at = "handler"]
    /\ UNCHANGED <<changed, version, uncounted, silent, faults, screenVars, streamVars>>

\* The handler commits the change ...
HandlerCommits(c) ==
    /\ save[c] # Idle /\ save[c].at = "handler"
    /\ changed < MaxChanges
    /\ changed' = changed + 1
    /\ save' = [save EXCEPT ![c].at = "saved"]
    /\ UNCHANGED <<version, lock, uncounted, silent, faults, screenVars, streamVars>>

\* ... or refuses it: nothing is counted or announced.
HandlerRefuses(c) ==
    /\ save[c] # Idle /\ save[c].at = "handler"
    /\ lock' = FALSE
    /\ save' = [save EXCEPT ![c] = Idle]
    /\ UNCHANGED <<changed, version, uncounted, silent, faults, screenVars, streamVars>>

\* A preview of the Close Shift desk (POST .../tally) commits nothing, and
\* its answer is counted and announced as a save's is.
HandlerPreviews(c) ==
    /\ save[c] # Idle /\ save[c].at = "handler"
    /\ faults < MaxFaults
    /\ faults' = faults + 1
    /\ save' = [save EXCEPT ![c].at = "previewed"]
    /\ UNCHANGED <<serverVars, screenVars, streamVars>>

\* Bug: events are put in a full queue.
AnnouncedPastLimit == [c \in Client |-> IF c \in stream THEN queue[c] + 1 ELSE queue[c]]

\* A full queue drops the event.
Announced ==
    [c \in Client |-> IF c \in stream /\ queue[c] < QueueLimit THEN queue[c] + 1 ELSE queue[c]]

\* The PC forgets the version; its next read brings the new one (client.ts).
Answered(c) ==
    /\ tag' = [tag EXCEPT ![c] = NoTag]
    /\ save' = [save EXCEPT ![c] = Idle]
    /\ UNCHANGED <<reading, seen, stream, gap>>

\* _bump, publish, and the answer; then the lock is given back.
BumpAndAnnounce(c) ==
    /\ save[c] # Idle /\ save[c].at \in {"saved", "previewed"}
    /\ version' = version + 1
    /\ queue' = Announced
    /\ lock' = FALSE
    /\ Answered(c)
    /\ UNCHANGED <<changed, uncounted, silent, faults>>

\* The version's own commit fails: logged, and the save counts as done.
BumpFails(c) ==
    /\ save[c] # Idle /\ save[c].at = "saved"
    /\ faults < MaxFaults
    /\ faults' = faults + 1
    /\ uncounted' = uncounted \cup {changed}
    /\ queue' = Announced
    /\ lock' = FALSE
    /\ Answered(c)
    /\ UNCHANGED <<changed, version, silent>>

\* The time limit of the guard cancels the request.  The handler's thread
\* cannot be cancelled: the request, with the lock, ends when the thread has
\* ended, and the save has committed by then; nothing after it happens.
TimeLimit(c) ==
    /\ save[c] # Idle /\ save[c].at = "saved"
    /\ faults < MaxFaults
    /\ faults' = faults + 1
    /\ uncounted' = uncounted \cup {changed}
    /\ silent' = silent \cup {changed}
    /\ lock' = FALSE
    /\ save' = [save EXCEPT ![c] = Idle]
    /\ UNCHANGED <<changed, version, screenVars, streamVars>>

-----------------------------------------------------------------------------
(* The event streams.                                                      *)

\* An event arrives: every query of the PC is read again.
TakeEvent(c) ==
    /\ c \in stream /\ queue[c] > 0
    /\ queue' = [queue EXCEPT ![c] = @ - 1]
    /\ ReadAgain(c)
    /\ UNCHANGED <<serverVars, save, seen, tag, stream, gap, faults>>

LoseStream(c) ==
    /\ c \in stream /\ faults < MaxFaults
    /\ faults' = faults + 1
    /\ stream' = stream \ {c}
    /\ queue' = [queue EXCEPT ![c] = 0]
    /\ UNCHANGED <<serverVars, save, screenVars, gap>>

\* Every 20 s, while there is no stream.
Poll(c) ==
    /\ c \notin stream /\ reading[c] = NoRead
    /\ ReadAgain(c)
    /\ UNCHANGED <<serverVars, save, seen, tag, streamVars, faults>>

\* 5 s later the stream is asked for again; being back refreshes nothing.
OpenStream(c) ==
    /\ c \in Streaming \ stream
    /\ stream' = stream \cup {c}
    /\ gap' = IF seen[c] < changed THEN gap \cup {c} ELSE gap
    /\ UNCHANGED <<serverVars, save, screenVars, queue, faults>>

LanLiveInit ==
    /\ changed = 0 /\ version = 0 /\ lock = FALSE
    /\ save = [c \in Client |-> Idle]
    /\ reading = [c \in Client |-> NoRead]
    /\ seen = [c \in Client |-> 0] /\ tag = [c \in Client |-> NoTag]
    /\ stream = {} /\ queue = [c \in Client |-> 0]
    /\ uncounted = {} /\ silent = {} /\ gap = {}
    /\ faults = 0

Reads(c) == OpenRecord(c) \/ ReadBody(c) \/ ReadAnswer(c)
Handles(c) ==
    \/ Refuse(c) \/ Accept(c) \/ HandlerCommits(c) \/ HandlerRefuses(c) \/ HandlerPreviews(c)
    \/ BumpAndAnnounce(c) \/ BumpFails(c) \/ TimeLimit(c)

LanLiveNext ==
    \E c \in Client :
        \/ SendSave(c) \/ LoseStream(c)
        \/ Reads(c) \/ Handles(c) \/ TakeEvent(c) \/ Poll(c) \/ OpenStream(c)

\* Requests are answered; a stream that is there delivers, and one that is not is
\* asked for again.
LanLiveFairness ==
    \A c \in Client :
        /\ WF_liveVars(Reads(c))
        /\ SF_liveVars(Handles(c))
        /\ WF_liveVars(TakeEvent(c))
        /\ WF_liveVars(OpenStream(c)) /\ WF_liveVars(Poll(c))

LanLiveSpec == LanLiveInit /\ [][LanLiveNext]_liveVars /\ LanLiveFairness

-----------------------------------------------------------------------------
(* Properties.                                                             *)

\* Every variable has the values its field or header may have.
LanLiveTypeOK ==
    /\ changed \in 0 .. MaxChanges /\ version \in Version /\ lock \in BOOLEAN
    /\ \A c \in Client : save[c] = Idle \/ save[c] \in SaveSent
    /\ \A c \in Client : reading[c] = NoRead \/ reading[c] \in
           [version : Tag, body : 0 .. MaxChanges \cup {NoBody}]
    /\ seen \in [Client -> 0 .. MaxChanges] /\ tag \in [Client -> Tag]
    /\ queue \in [Client -> 0 .. QueueLimit]
    /\ {stream, gap} \subseteq SUBSET Client
    /\ {uncounted, silent} \subseteq SUBSET (1 .. MaxChanges)

\* A save that sends a version overwrites no change its PC had not seen,
\* except one whose version could not be raised (client.ts:9: "If somebody
\* saved in between the Main PC refuses").
ConditionalSaveSawNewest ==
    [][\A c \in Client :
           save[c] # Idle /\ save[c].wanted # NoTag /\ changed' # changed
           /\ save[c].at = "handler" /\ save'[c] # save[c]
               => (save[c].seen + 1) .. changed \subseteq uncounted]_liveVars

\* In the end every PC shows every change, a dropped event being made up for
\* by the ones queued before it, except changes that were never announced
\* and those made while its stream was away.
ScreensCatchUp ==
    <>[](\A c \in Client :
            (seen[c] + 1) .. changed \subseteq silent \/ c \in gap)

\* What a PC is trusted to know of the other PCs' changes.
OthersAreSeen == ConditionalSaveSawNewest /\ ScreensCatchUp

\* live.py:210: "Changed by X ... Reload to see their change".  A preview is
\* refused to nobody and changes nothing (close_desk.py:103: "Nothing is
\* saved"), and the next save of somebody else is told of a change.
RefusalsAreDeserved ==
    [][\A c \in Client : save[c] # Idle /\ save[c].at = "waiting" /\ save'[c] = Idle
           => save[c].seen < changed]_liveVars

\* live.ts:1: "the Main PC says 'something changed' the moment anybody
\* saves, and every open screen refreshes".  A change made between the loss
\* of a stream and its return, sooner than the next poll, is not shown.
ScreensFollow == <>[](\A c \in Client : (seen[c] + 1) .. changed \subseteq silent)

=============================================================================
