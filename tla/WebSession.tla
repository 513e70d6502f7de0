------------------------------ MODULE WebSession ------------------------------
(***************************************************************************)
(* Who is signed in at one window of the web screens, and whether the      *)
(* window can reach the Main PC (web/src/auth/AuthContext.tsx, api/        *)
(* client.ts, session.ts, connection.ts, live.ts).  The page runs on one   *)
(* thread: requests are sent, served by the Main PC and answered in any    *)
(* order, and what an answer does meets whoever is signed in by then.      *)
(***************************************************************************)
EXTENDS Integers, Sequences, FiniteSets

CONSTANTS MaxSignIns,   \* bound: sign-ins that succeed
          MaxOutages,   \* bound: times the Main PC stops being reachable
          MaxAsked      \* bound: requests of the user on their way at the same moment

ASSUME WebSessionAssumption ==
    MaxSignIns \in Nat \ {0} /\ MaxOutages \in Nat /\ MaxAsked \in Nat \ {0}

VARIABLES token,      \* session.token: the number of the session, 0 for none
          user,       \* the session whose user AuthProvider shows, 0 for none
          locked,     \* is the lock screen in front?
          cache,      \* sessions whose answers the screens show
          link,       \* connection.link
          stream,     \* is the event stream open?
          calls,      \* requests on their way
          opened,     \* sessions that the Main PC has begun
          valid,      \* sessions that the Main PC still accepts
          reachable, outages

signVars == <<token, user, locked, cache>>
linkVars == <<link, stream>>
serverVars == <<opened, valid>>
netVars == <<reachable, outages>>
webVars == <<signVars, linkVars, calls, serverVars, netVars>>

\* kept: the query of a read is still in the cache of queries.
Message(kind) ==
    [kind |-> kind, token |-> token, kept |-> kind = "read", answer |-> "none"]

\* A GET is sent whatever the window believes; anything else is not sent while
\* the Main PC is believed to be out of reach.
MaySave == link # "offline"

UserKinds == {"login", "logout", "unlock", "me"}

\* Bound: with outages, one request of the user less.
Room ==
    Cardinality({m \in calls : m.kind \in UserKinds})
        < IF link = "local" THEN MaxAsked ELSE MaxAsked - 1

Waiting(kind) == \E m \in calls : m.kind = kind

\* The same request twice is followed once.
AskedWith(kind) == \E m \in calls : m.kind = kind /\ m.token = token

-----------------------------------------------------------------------------
(* What an answer does to the link and to the window.                      *)

\* Bug: a call that does not get through leaves the light as it is.
UnreachableUnnoticed == link

\* unreachable of connection.ts.
Unreachable == IF link = "local" THEN "local" ELSE "offline"

AnsweredLink == IF link = "offline" THEN "polling" ELSE link

Dropped(messages) == {[m EXCEPT !.kept = FALSE] : m \in messages}

\* Bug: the answers that the screens hold are kept for the next user.
CacheKept == cache

\* queryClient.clear.
CacheCleared == {}

\* The sign-in page asks for the name of the PC.
Looked == IF reachable THEN AnsweredLink ELSE Unreachable

\* clear, and the sign-in page comes up.
Clear(others) ==
    /\ token' = 0 /\ user' = 0 /\ locked' = FALSE
    /\ cache' = CacheCleared
    /\ stream' = FALSE
    /\ calls' = Dropped(others)
    /\ link' = Looked

Stays(others) ==
    /\ calls' = others
    /\ UNCHANGED <<signVars, stream>>

-----------------------------------------------------------------------------
(* What the user does.                                                     *)

\* The button is disabled while a sign-in is on its way.
SendLogin ==
    /\ user = 0 /\ MaySave /\ ~Waiting("login") /\ Room
    /\ opened < MaxSignIns
    /\ calls' = calls \cup {Message("login")}
    /\ UNCHANGED <<signVars, linkVars, serverVars, netVars>>

\* logout: whatever becomes of the call, the window forgets the session.
SendLogout ==
    /\ user # 0 /\ MaySave /\ ~AskedWith("logout") /\ Room
    /\ calls' = calls \cup {Message("logout")}
    /\ UNCHANGED <<signVars, linkVars, serverVars, netVars>>

LogoutUnsent ==
    /\ user # 0 /\ ~MaySave
    /\ Clear(calls)
    /\ UNCHANGED <<serverVars, netVars>>

LockScreen ==
    /\ user # 0 /\ ~locked
    /\ locked' = TRUE
    /\ UNCHANGED <<token, user, cache, linkVars, calls, serverVars, netVars>>

SendUnlock ==
    /\ locked /\ MaySave /\ ~AskedWith("unlock") /\ Room
    /\ calls' = calls \cup {Message("unlock")}
    /\ UNCHANGED <<signVars, linkVars, serverVars, netVars>>

\* refreshUser, after the password or the PIN was changed.
SendMe ==
    /\ user # 0 /\ ~locked /\ ~AskedWith("me") /\ Room
    /\ calls' = calls \cup {Message("me")}
    /\ UNCHANGED <<signVars, linkVars, serverVars, netVars>>

\* It asks again when the window was out of sight.
LookAgain ==
    /\ user = 0
    /\ link' = Looked
    /\ UNCHANGED <<signVars, stream, calls, serverVars, netVars>>

-----------------------------------------------------------------------------
(* What the screens do by themselves while somebody is signed in.          *)

\* A query that refreshes every minute; the same query is not asked twice.
SendRead ==
    /\ user # 0
    /\ ~\E m \in calls : m.kind = "read" /\ m.kept
    /\ calls' = calls \cup {Message("read")}
    /\ UNCHANGED <<signVars, linkVars, serverVars, netVars>>

\* The poll of a window that believes the Main PC away.
PollHealth ==
    /\ user # 0 /\ link = "offline" /\ reachable
    /\ link' = AnsweredLink
    /\ UNCHANGED <<signVars, stream, calls, serverVars, netVars>>

\* useLiveUpdates tries every five seconds, with the session it finds.
TryStream ==
    /\ user # 0 /\ link # "local" /\ ~stream
    /\ \/ /\ reachable /\ token \in valid
          /\ stream' = TRUE /\ link' = "live"
       \/ /\ reachable /\ token \notin valid
          /\ link' = IF link = "offline" THEN "offline" ELSE "polling"
          /\ UNCHANGED stream
       \/ /\ ~reachable
          /\ link' = Unreachable
          /\ UNCHANGED stream
    /\ UNCHANGED <<signVars, calls, serverVars, netVars>>

\* A beat of the stream proves that the Main PC is there.
Beat ==
    /\ stream /\ reachable
    /\ link' = AnsweredLink
    /\ UNCHANGED <<signVars, stream, calls, serverVars, netVars>>

StreamEnds ==
    /\ stream /\ ~reachable
    /\ stream' = FALSE
    /\ link' = IF link = "offline" THEN "offline" ELSE "polling"
    /\ UNCHANGED <<signVars, calls, serverVars, netVars>>

-----------------------------------------------------------------------------
(* The Main PC.                                                            *)

Answer(m, answer) ==
    calls' = (calls \ {m}) \cup {[m EXCEPT !.answer = answer]}

\* Sign-in: a new session, or the credential was wrong.
ServeLogin(m) ==
    /\ m.kind = "login"
    /\ \/ /\ opened < MaxSignIns
          /\ opened' = opened + 1
          /\ valid' = valid \cup {opened'}
          /\ calls' = (calls \ {m}) \cup {[m EXCEPT !.answer = "ok", !.token = opened']}
       \/ /\ Answer(m, "wrong")
          /\ UNCHANGED serverVars

\* _resolve refuses with 401 when it has ended.
ServeEnded(m) ==
    /\ m.kind \in {"logout", "unlock", "me", "read"} /\ m.token \notin valid
    /\ Answer(m, "lost")
    /\ UNCHANGED serverVars

ServeLogout(m) ==
    /\ m.kind = "logout" /\ m.token \in valid
    /\ valid' = valid \ {m.token}
    /\ Answer(m, "ok")
    /\ UNCHANGED opened

ServeUnlock(m) ==
    /\ m.kind = "unlock" /\ m.token \in valid
    /\ Answer(m, "ok") \/ Answer(m, "wrong")
    /\ UNCHANGED serverVars

ServeRead(m) ==
    /\ m.kind \in {"me", "read"} /\ m.token \in valid
    /\ Answer(m, "ok")
    /\ UNCHANGED serverVars

Serve(m) ==
    /\ m.answer = "none"
    /\ \/ /\ reachable
          /\ \/ ServeLogin(m) \/ ServeEnded(m)
             \/ ServeLogout(m) \/ ServeUnlock(m) \/ ServeRead(m)
       \/ /\ ~reachable
          /\ Answer(m, "unreachable")
          /\ UNCHANGED serverVars
    /\ UNCHANGED <<signVars, linkVars, netVars>>

\* The proxy loses the connection, or gives up waiting, with the answer on its
\* way: what was asked has been done.
AnswerLost(m) ==
    /\ m.answer \in {"ok", "wrong", "lost"} /\ ~reachable
    /\ Answer(m, "unreachable")
    /\ UNCHANGED <<signVars, linkVars, serverVars, netVars>>

\* A session ends at the Main PC: its time is over, or its user was disabled.
SessionEnds ==
    /\ \E t \in valid : valid' = valid \ {t}
    /\ UNCHANGED <<signVars, linkVars, calls, opened, netVars>>

-----------------------------------------------------------------------------
(* An answer reaches the window.                                           *)

\* The call throws.
TakeUnreachable(m) ==
    /\ m.answer = "unreachable"
    /\ IF m.kind = "logout"
       THEN Clear(calls \ {m})
       ELSE Stays(calls \ {m}) /\ link' = Unreachable

TakeLogin(m) ==
    /\ m.kind = "login" /\ m.answer = "ok"
    /\ token' = m.token /\ user' = m.token
    /\ calls' = calls \ {m}
    /\ link' = AnsweredLink
    /\ UNCHANGED <<locked, cache, stream>>

TakeWrong(m) ==
    /\ m.answer = "wrong"
    /\ link' = AnsweredLink
    /\ Stays(calls \ {m})

\* Bug: an ended session is told to the user, who stays where he is.
GoesWhenLostAtLogout(m) == m.kind = "logout"

\* isAuthLoss: session.lost, whoever's session it was.  After logout the
\* window is cleared in any case.
GoesWhenLost(m) == m.kind = "logout" \/ m.answer = "lost"

TakeLost(m) ==
    /\ \/ m.answer = "lost"
       \/ m.kind = "logout" /\ m.answer = "ok"
    /\ IF GoesWhenLost(m)
       THEN Clear(calls \ {m})
       ELSE Stays(calls \ {m}) /\ link' = AnsweredLink

TakeUnlock(m) ==
    /\ m.kind = "unlock" /\ m.answer = "ok"
    /\ locked' = FALSE
    /\ calls' = calls \ {m}
    /\ link' = AnsweredLink
    /\ UNCHANGED <<token, user, cache, stream>>

TakeMe(m) ==
    /\ m.kind = "me" /\ m.answer = "ok"
    /\ user' = m.token
    /\ calls' = calls \ {m}
    /\ link' = AnsweredLink
    /\ UNCHANGED <<token, locked, cache, stream>>

TakeRead(m) ==
    /\ m.kind = "read" /\ m.answer = "ok"
    /\ cache' = IF m.kept THEN cache \cup {m.token} ELSE cache
    /\ calls' = calls \ {m}
    /\ link' = AnsweredLink
    /\ UNCHANGED <<token, user, locked, stream>>

Take(m) ==
    /\ \/ TakeUnreachable(m) \/ TakeLogin(m) \/ TakeWrong(m) \/ TakeLost(m)
       \/ TakeUnlock(m) \/ TakeMe(m) \/ TakeRead(m)
    /\ UNCHANGED <<serverVars, netVars>>

\* The Main PC or the network goes away, and comes back.
MainPCGoes ==
    /\ link # "local" /\ reachable /\ outages < MaxOutages
    /\ reachable' = FALSE /\ outages' = outages + 1
    /\ UNCHANGED <<signVars, linkVars, calls, serverVars>>

MainPCReturns ==
    /\ ~reachable /\ reachable' = TRUE
    /\ UNCHANGED <<signVars, linkVars, calls, serverVars, outages>>

-----------------------------------------------------------------------------
WebSessionInit ==
    /\ token = 0 /\ user = 0 /\ locked = FALSE /\ cache = {}
    /\ link \in {"local", "polling"} /\ stream = FALSE
    /\ calls = {} /\ opened = 0 /\ valid = {}
    /\ reachable = TRUE /\ outages = 0

WebSessionNext ==
    \/ SendLogin \/ SendLogout \/ LogoutUnsent \/ LockScreen \/ SendUnlock \/ SendMe \/ LookAgain
    \/ SendRead \/ PollHealth \/ TryStream \/ Beat \/ StreamEnds
    \/ \E m \in calls : Serve(m) \/ AnswerLost(m) \/ Take(m)
    \/ SessionEnds \/ MainPCGoes \/ MainPCReturns

Kinds == {"login", "logout", "unlock", "me", "read"}

\* The screens of a window in sight ask again, what they ask is answered or
\* times out, and the stream is tried again.
WebSessionFairness ==
    /\ WF_webVars(SendRead)
    /\ WF_webVars(\E m \in calls : m.kind = "read" /\ (Serve(m) \/ Take(m)))
    /\ WF_webVars(PollHealth) /\ WF_webVars(TryStream) /\ WF_webVars(StreamEnds)

WebSessionSpec == WebSessionInit /\ [][WebSessionNext]_webVars /\ WebSessionFairness

-----------------------------------------------------------------------------
(* Properties.                                                             *)

\* The variables hold what session.ts, connection.ts and the server keep.
WebSessionTypeOK ==
    /\ token \in 0 .. opened /\ valid \subseteq 1 .. opened
    /\ user \in 0 .. opened /\ locked \in BOOLEAN
    /\ link \in {"local", "live", "polling", "offline"}
    /\ \A m \in calls : m.kind \in Kinds /\ m.token \in 0 .. opened
    /\ link = "local" => ~stream

\* The screens show nothing that another session has read, whenever its
\* answers come (clear in AuthContext.tsx).
DataIsOwn == cache \subseteq {token}

\* A window that shows a user whose session has ended is back at the sign-in
\* page in the end, also when a late answer brought the user back, unless the
\* Main PC is away.
GhostsGo ==
    user # 0 /\ token \notin valid /\ reachable
        ~> user = 0 \/ token \in valid \/ ~reachable

\* Somebody is signed in, and the light of the window is wrong.
Misled == user # 0 /\ link # "local" /\ (reachable <=> link = "offline")

\* A window at which somebody is signed in learns in the end that the Main PC
\* is away, and that it is back.
LinkIsTold == Misled ~> ~Misled

WebSessionKeepsItsWord == []DataIsOwn /\ GhostsGo /\ LinkIsTold

\* client.ts:32: "Wait for it to come back, then try again."  The sign-in page
\* has neither stream nor poll: believed away, the Main PC stays away for it.
SignInComesBack ==
    user = 0 /\ reachable /\ link = "offline"
        ~> ~reachable \/ link # "offline"

\* AuthContext.tsx:65: "Already signed out server-side; nothing more to do."
\* A log-out that could not be sent leaves the session as it was.
LoggedOutIsEnded == [][token # 0 /\ token' = 0 => token \notin valid]_webVars

\* LockOverlay.tsx:10: "a re-confirmation of the CURRENT person".  An answer to
\* the person before opens the lock of the next.
UnlockedByCurrent ==
    [][locked /\ ~locked' /\ user' # 0 =>
           \E m \in calls \ calls' : m.kind = "unlock" /\ m.token = token]_webVars

\* Who is shown is who is signed in.  A late answer to refreshUser brings back
\* the user before.
ShownIsSignedIn == user # 0 /\ token # 0 => token = user

\* A session that the Main PC accepts is not lost through one that it does not.
OnlyOwnLossEnds ==
    [][token' # token /\ token \in valid =>
           \A m \in calls \ calls' : m.token = token]_webVars

=============================================================================
