----------------------------- MODULE WindowProofs -----------------------------
(***************************************************************************)
(* Proofs about the windows of one PC: the session of the web screens, the *)
(* Qt application and the Electron shell.                                  *)
(***************************************************************************)
EXTENDS MCWindows, FiniteSetTheorems, SequenceTheorems, TLAPS

(***************************************************************************)
(* The web screens (module WebSession).                                    *)
(***************************************************************************)

Call == [kind : Kinds, token : Nat, kept : BOOLEAN,
         answer : {"none", "ok", "wrong", "lost", "unreachable"}]

WebTypes ==
    /\ opened \in Nat /\ token \in 0 .. opened /\ user \in 0 .. opened
    /\ valid \subseteq 1 .. opened /\ locked \in BOOLEAN
    /\ link \in {"local", "live", "polling", "offline"}
    /\ link = "local" => ~ stream
    /\ calls \subseteq Call /\ \A m \in calls : m.token \in 0 .. opened

\* A sign-in is on its way only while nobody is signed in, and what a read that
\* is still wanted brings is of the session that is.
OwnCalls ==
    /\ 0 \notin cache /\ cache \subseteq {token}
    /\ user = 0 => token = 0
    /\ \A m, n \in calls : m.kind = "login" /\ n.kind = "login" => m = n
    /\ \A m \in calls :
           /\ m.kind = "login" => token = 0
           /\ m.answer = "ok" => m.token # 0
           /\ m.kind = "read" /\ m.kept => m.token \in {0, token}

WebInv == WebTypes /\ OwnCalls

LEMMA WebStarts == WebSessionInit => WebInv
<1>. SUFFICES ASSUME WebSessionInit PROVE WebInv
  OBVIOUS
<1>1. WebTypes
  <2>1. 0 \in 0 .. 0 /\ 0 \in Nat /\ {} \subseteq 1 .. 0
    OBVIOUS
  <2>2. /\ token = 0 /\ user = 0 /\ locked = FALSE /\ link \in {"local", "polling"} /\ stream = FALSE
        /\ calls = {} /\ opened = 0 /\ valid = {}
    BY DEF WebSessionInit
  <2>. QED BY <2>1, <2>2 DEF WebTypes
<1>2. OwnCalls
  BY DEF WebSessionInit, OwnCalls
<1>. QED BY <1>1, <1>2 DEF WebInv

\* A request goes out.
LEMMA WebSends ==
    ASSUME WebInv, NEW kind \in Kinds, calls' = calls \cup {Message(kind)},
           UNCHANGED <<token, user, locked, cache, link, stream, opened, valid>>,
           kind = "login" => user = 0 /\ ~ Waiting("login")
    PROVE  WebInv'
<1>. DEFINE x == Message(kind)
<1>1. /\ x.kind = kind /\ x.token = token /\ x.answer = "none" /\ x \in Call
  <2>1. token \in Nat
    BY DEF WebInv, WebTypes
  <2>. QED BY <2>1 DEF Message, Call
<1>. HIDE DEF x
<1>2. calls' = calls \cup {x}
  BY DEF x
<1>3. WebTypes'
  BY <1>1, <1>2 DEF WebInv, WebTypes
<1>4. OwnCalls'
  BY <1>1, <1>2 DEF WebInv, OwnCalls, Waiting
<1>. QED BY <1>3, <1>4 DEF WebInv

LEMMA LinkStaysLocal ==
    ASSUME WebInv
    PROVE  /\ AnsweredLink \in {"local", "live", "polling", "offline"} /\ (AnsweredLink = "local" <=> link = "local")
           /\ Unreachable \in {"local", "live", "polling", "offline"} /\ (Unreachable = "local" <=> link = "local")
           /\ Looked \in {"local", "live", "polling", "offline"} /\ (Looked = "local" <=> link = "local")
BY DEF WebInv, WebTypes, AnsweredLink, Unreachable, Looked

\* The light of the window changes, or the world outside.
LEMMA WebLooks ==
    ASSUME WebInv,
           LookAgain \/ PollHealth \/ TryStream \/ Beat \/ StreamEnds
             \/ LockScreen \/ SessionEnds \/ MainPCGoes \/ MainPCReturns \/ UNCHANGED webVars
    PROVE  WebInv'
<1>1. UNCHANGED <<token, user, cache, calls, opened>>
  BY DEF LookAgain, PollHealth, TryStream, Beat, StreamEnds, LockScreen, SessionEnds, MainPCGoes, MainPCReturns,
         webVars, signVars, serverVars
<1>2. valid' \subseteq valid /\ locked' \in BOOLEAN
  BY DEF LookAgain, PollHealth, TryStream, Beat, StreamEnds, LockScreen, SessionEnds, MainPCGoes, MainPCReturns,
         webVars, signVars, serverVars, WebInv, WebTypes
<1>3. link' \in {"local", "live", "polling", "offline"} /\ (link' = "local" => ~ stream')
  BY LinkStaysLocal DEF LookAgain, PollHealth, TryStream, Beat, StreamEnds, LockScreen, SessionEnds, MainPCGoes,
         MainPCReturns, webVars, linkVars, WebInv, WebTypes
<1>4. WebTypes'
  BY <1>1, <1>2, <1>3 DEF WebInv, WebTypes
<1>5. OwnCalls'
  BY <1>1 DEF WebInv, OwnCalls
<1>. QED BY <1>4, <1>5 DEF WebInv

\* The window forgets the session.
LEMMA WebClears ==
    ASSUME WebInv, NEW others \in SUBSET calls, Clear(others), UNCHANGED <<opened, valid>>
    PROVE  WebInv'
<1>1. /\ token' = 0 /\ user' = 0 /\ locked' = FALSE /\ cache' = {} /\ stream' = FALSE
      /\ calls' = {[m EXCEPT !.kept = FALSE] : m \in others} /\ link' = Looked
  BY DEF Clear, CacheCleared, Dropped
<1>2. ASSUME NEW m \in calls'
      PROVE  /\ m \in Call /\ ~ m.kept
             /\ \E k \in calls : m = [k EXCEPT !.kept = FALSE] /\ m.kind = k.kind /\ m.token = k.token /\ m.answer = k.answer
  <2>1. PICK k \in others : m = [k EXCEPT !.kept = FALSE]
    BY <1>1
  <2>2. k \in Call /\ k \in calls
    BY DEF WebInv, WebTypes
  <2>3. m \in Call /\ m.kept = FALSE /\ m.kind = k.kind /\ m.token = k.token /\ m.answer = k.answer
    BY <2>1, <2>2 DEF Call
  <2>. QED BY <2>1, <2>2, <2>3
<1>3. WebTypes'
  <2>1. 0 \in 0 .. opened /\ opened \in Nat
    BY DEF WebInv, WebTypes
  <2>2. calls' \subseteq Call /\ \A m \in calls' : m.token \in 0 .. opened
    BY <1>2 DEF WebInv, WebTypes
  <2>. QED BY <1>1, <2>1, <2>2, LinkStaysLocal DEF WebInv, WebTypes
<1>4. OwnCalls'
  <2>1. ASSUME NEW m \in calls', NEW n \in calls', m.kind = "login", n.kind = "login" PROVE m = n
    <3>1. PICK k \in calls : m = [k EXCEPT !.kept = FALSE] /\ m.kind = k.kind
      BY <1>2
    <3>2. PICK j \in calls : n = [j EXCEPT !.kept = FALSE] /\ n.kind = j.kind
      BY <1>2
    <3>3. k = j
      BY <2>1, <3>1, <3>2 DEF WebInv, OwnCalls
    <3>. QED BY <3>1, <3>2, <3>3
  <2>2. \A m \in calls' : ~ m.kept /\ (m.answer = "ok" => m.token # 0)
    BY <1>2 DEF WebInv, OwnCalls
  <2>. QED BY <1>1, <2>1, <2>2 DEF OwnCalls
<1>. QED BY <1>3, <1>4 DEF WebInv

\* The Main PC answers, or the answer is lost.
LEMMA WebServed ==
    ASSUME WebInv, NEW m \in calls, Serve(m) \/ AnswerLost(m)
    PROVE  WebInv'
<1>1. UNCHANGED <<token, user, locked, cache, link, stream>>
  BY DEF Serve, AnswerLost, signVars, linkVars
<1>2. /\ m \in Call /\ m.token \in 0 .. opened /\ opened \in Nat /\ valid \subseteq 1 .. opened
  BY DEF WebInv, WebTypes
<1>3. CASE \E a \in {"ok", "wrong", "lost", "unreachable"} :
             Answer(m, a) /\ valid' \subseteq valid /\ UNCHANGED opened /\ (a = "ok" => m.token \in valid)
  <2>1. PICK a \in {"ok", "wrong", "lost", "unreachable"} :
            Answer(m, a) /\ valid' \subseteq valid /\ UNCHANGED opened /\ (a = "ok" => m.token \in valid)
    BY <1>3
  <2>. DEFINE x == [m EXCEPT !.answer = a]
  <2>2. x \in Call /\ x.kind = m.kind /\ x.token = m.token /\ x.kept = m.kept /\ x.answer = a
    BY <1>2 DEF Call
  <2>3. calls' = (calls \ {m}) \cup {x}
    BY <2>1 DEF Answer
  <2>. HIDE DEF x
  <2>4. WebTypes'
    BY <1>1, <1>2, <2>1, <2>2, <2>3 DEF WebInv, WebTypes
  <2>5. OwnCalls'
    BY <1>1, <1>2, <2>1, <2>2, <2>3 DEF WebInv, OwnCalls
  <2>. QED BY <2>4, <2>5 DEF WebInv
<1>4. CASE ServeLogin(m) /\ opened' = opened + 1
  <2>1. /\ m.kind = "login" /\ valid' = valid \cup {opened + 1}
        /\ calls' = (calls \ {m}) \cup {[m EXCEPT !.answer = "ok", !.token = opened + 1]}
    BY <1>2, <1>4 DEF ServeLogin, serverVars
  <2>. DEFINE x == [m EXCEPT !.answer = "ok", !.token = opened + 1]
  <2>2. x \in Call /\ x.kind = "login" /\ x.token = opened + 1 /\ x.answer = "ok"
    <3>1. opened + 1 \in Nat
      BY <1>2
    <3>. QED BY <1>2, <2>1, <3>1 DEF Call
  <2>3. calls' = (calls \ {m}) \cup {x}
    BY <2>1
  <2>. HIDE DEF x
  <2>4. opened + 1 # 0 /\ opened + 1 \in 0 .. opened' /\ opened' \in Nat /\ valid' \subseteq 1 .. opened'
        /\ \A k \in 0 .. opened : k \in 0 .. opened'
    BY <1>2, <1>4, <2>1
  <2>5. WebTypes'
    BY <1>1, <1>2, <2>2, <2>3, <2>4 DEF WebInv, WebTypes
  <2>6. OwnCalls'
    BY <1>1, <2>1, <2>2, <2>3, <2>4 DEF WebInv, OwnCalls
  <2>. QED BY <2>5, <2>6 DEF WebInv
<1>5. ServeLogin(m) => (opened' = opened + 1 \/ (Answer(m, "wrong") /\ UNCHANGED serverVars))
  BY DEF ServeLogin
<1>. QED BY <1>3, <1>4, <1>5 DEF Serve, AnswerLost, ServeEnded, ServeLogout, ServeUnlock, ServeRead, serverVars

\* An answer reaches the window.
LEMMA WebTakes ==
    ASSUME WebInv, NEW m \in calls, Take(m)
    PROVE  WebInv'
<1>1. UNCHANGED <<opened, valid>>
  BY DEF Take, serverVars
<1>2. CASE Clear(calls \ {m})
  BY <1>1, <1>2, WebClears
<1>3. CASE ~ Clear(calls \ {m})
  <2>1. calls' = calls \ {m} /\ UNCHANGED stream /\ (link' = AnsweredLink \/ link' = Unreachable)
    BY <1>3 DEF Take, TakeUnreachable, TakeLogin, TakeWrong, TakeLost, TakeUnlock, TakeMe, TakeRead, Stays
  <2>2. m.token \in 0 .. opened /\ locked' \in BOOLEAN
    BY DEF WebInv, WebTypes, Take, TakeUnreachable, TakeLogin, TakeWrong, TakeLost, TakeUnlock, TakeMe, TakeRead,
           Stays, Clear, signVars
  <2>3. token' \in 0 .. opened /\ user' \in 0 .. opened
    BY <1>3, <2>2 DEF WebInv, WebTypes, Take, TakeUnreachable, TakeLogin, TakeWrong, TakeLost, TakeUnlock, TakeMe,
           TakeRead, Stays, signVars
  <2>4. WebTypes'
    BY <1>1, <2>1, <2>2, <2>3, LinkStaysLocal DEF WebInv, WebTypes
  <2>5. OwnCalls'
    <3>1. CASE TakeLogin(m)
      <4>1. m.kind = "login" /\ m.answer = "ok" /\ token' = m.token /\ user' = m.token /\ UNCHANGED cache
        BY <3>1 DEF TakeLogin
      <4>. QED BY <2>1, <4>1 DEF WebInv, OwnCalls
    <3>2. CASE TakeMe(m)
      <4>1. m.kind = "me" /\ m.answer = "ok" /\ user' = m.token /\ UNCHANGED <<cache, token>>
        BY <3>2 DEF TakeMe
      <4>. QED BY <2>1, <4>1 DEF WebInv, OwnCalls
    <3>3. CASE TakeRead(m)
      <4>1. m.kind = "read" /\ m.answer = "ok" /\ UNCHANGED <<user, token>>
            /\ cache' = IF m.kept THEN cache \cup {m.token} ELSE cache
        BY <3>3 DEF TakeRead
      <4>. QED BY <2>1, <4>1 DEF WebInv, OwnCalls
    <3>4. CASE UNCHANGED <<user, token, cache>>
      BY <2>1, <3>4 DEF WebInv, OwnCalls
    <3>. QED BY <1>3, <3>1, <3>2, <3>3, <3>4
             DEF Take, TakeUnreachable, TakeWrong, TakeLost, TakeUnlock, Stays, signVars
  <2>. QED BY <2>4, <2>5 DEF WebInv
<1>. QED BY <1>2, <1>3

LEMMA WebStep == WebInv /\ [WebSessionNext]_webVars => WebInv'
<1>. SUFFICES ASSUME WebInv, [WebSessionNext]_webVars PROVE WebInv'
  OBVIOUS
<1>1. CASE SendLogin \/ SendLogout \/ SendUnlock \/ SendMe \/ SendRead
  BY <1>1, WebSends DEF SendLogin, SendLogout, SendUnlock, SendMe, SendRead, Kinds, signVars, linkVars, serverVars
<1>2. CASE LogoutUnsent
  BY <1>2, WebClears DEF LogoutUnsent, serverVars
<1>3. CASE \E m \in calls : Serve(m) \/ AnswerLost(m)
  BY <1>3, WebServed
<1>4. CASE \E m \in calls : Take(m)
  BY <1>4, WebTakes
<1>. QED BY <1>1, <1>2, <1>3, <1>4, WebLooks DEF WebSessionNext

LEMMA WebSafe == WebInv => WebSessionTypeOK /\ DataIsOwn
<1>1. WebInv => \A m \in calls : m.kind \in Kinds
  BY DEF WebInv, WebTypes, Call
<1>. QED BY <1>1 DEF WebInv, WebTypes, OwnCalls, WebSessionTypeOK, DataIsOwn

\* In whatever order answers come, the screens show nothing that another session
\* has read (AuthContext.tsx clear, client.ts).
THEOREM ScreensShowOwnData == WebSessionSpec => []DataIsOwn
BY WebStarts, WebStep, WebSafe, PTL DEF WebSessionSpec

(***************************************************************************)
(* The Qt application (module QtWindow).                                   *)
(***************************************************************************)

Work == [no : 1 .. made, page : 1 .. pages, kind : {"refresh", "print"}]
Result == [work : Work, ok : BOOLEAN]

QtTypes ==
    /\ face \in {"login", "main"} /\ seat \in {"valid", "expired", Nobody}
    /\ logins \in 0 .. MaxLogins /\ ticking \in BOOLEAN
    /\ dialogs \in Seq({"lock", "expired", "preview"})
    /\ pages \in 0 .. MaxPages /\ page \in 0 .. pages
    /\ widgets \subseteq 1 .. pages /\ enabled \subseteq 1 .. pages
    /\ made \in 0 .. MaxTasks /\ showing \in [1 .. MaxPages -> 0 .. made]
    /\ waiting \in Seq(Work) /\ working \subseteq Work /\ results \in Seq(Result)

\* The message that a session is over is there as long as its window is.
Expired == \E i \in 1 .. Len(dialogs) : dialogs[i] = "expired"
SeatIsTold ==
    /\ face = "main" /\ seat = Nobody => Expired
    /\ face = "login" => seat = Nobody
    /\ Expired => seat = Nobody

\* What is asked later is done and shown later: there is one thread.
WorkInOrder ==
    /\ \A i, j \in 1 .. Len(waiting) : i < j => waiting[i].no < waiting[j].no
    /\ \A i, j \in 1 .. Len(results) : i < j => results[i].work.no < results[j].work.no
    /\ \A i \in 1 .. Len(waiting), t \in working : t.no < waiting[i].no
    /\ \A i \in 1 .. Len(waiting), j \in 1 .. Len(results) : results[j].work.no < waiting[i].no
    /\ \A j \in 1 .. Len(results), t \in working : results[j].work.no < t.no
    /\ \A p \in 1 .. MaxPages :
           /\ \A i \in 1 .. Len(waiting) : showing[p] < waiting[i].no
           /\ \A j \in 1 .. Len(results) : showing[p] < results[j].work.no
           /\ \A t \in working : showing[p] < t.no

OneThread ==
    /\ \A t, u \in working : t = u
    /\ cursors = Len(waiting) + (IF working = {} THEN 0 ELSE 1) + Len(results)
    /\ cursors <= made

QtInv == QtTypes /\ SeatIsTold /\ WorkInOrder /\ OneThread

LEMMA OneOrNone ==
    ASSUME QtInv
    PROVE  IsFiniteSet(working) /\ Cardinality(working) = IF working = {} THEN 0 ELSE 1
<1>1. CASE working = {}
  BY <1>1, FS_EmptySet
<1>2. CASE working # {}
  <2>1. PICK t : t \in working
    BY <1>2
  <2>2. working = {t}
    BY <2>1 DEF QtInv, OneThread
  <2>. QED BY <2>2, FS_Singleton
<1>. QED BY <1>1, <1>2

LEMMA QtStarts == QtInit => QtInv
<1>. SUFFICES ASSUME QtInit PROVE QtInv
  OBVIOUS
<1>1. /\ face = "login" /\ seat = Nobody /\ logins = 0 /\ ticking = FALSE /\ dialogs = <<>>
      /\ page = 0 /\ pages = 0 /\ widgets = {} /\ enabled = {} /\ showing = [p \in 1 .. MaxPages |-> 0] /\ made = 0
      /\ waiting = <<>> /\ working = {} /\ results = <<>> /\ cursors = 0
  BY DEF QtInit, NoPage
<1>2. 0 \in 0 .. MaxLogins /\ 0 \in 0 .. MaxPages /\ 0 \in 0 .. MaxTasks /\ 0 \in 0 .. 0
  BY QtWindowAssumption
<1>3. QtTypes
  <2>1. showing \in [1 .. MaxPages -> 0 .. made]
    BY <1>1
  <2>2. dialogs \in Seq({"lock", "expired", "preview"}) /\ waiting \in Seq(Work) /\ results \in Seq(Result)
    BY <1>1
  <2>3. made \in 0 .. MaxTasks /\ pages \in 0 .. MaxPages /\ page \in 0 .. pages /\ logins \in 0 .. MaxLogins
    BY <1>1, <1>2
  <2>. QED BY <1>1, <2>1, <2>2, <2>3 DEF QtTypes
<1>4. SeatIsTold /\ OneThread
  BY <1>1 DEF SeatIsTold, OneThread, Expired, Nobody
<1>5. WorkInOrder
  BY <1>1 DEF WorkInOrder
<1>. QED BY <1>3, <1>4, <1>5 DEF QtInv

LEMMA QtNumbers ==
    ASSUME QtInv
    PROVE  /\ MaxTasks \in Nat /\ MaxPages \in Nat /\ MaxLogins \in Nat /\ made \in Nat /\ pages \in Nat
           /\ made <= MaxTasks /\ pages <= MaxPages
           /\ Len(waiting) \in Nat /\ Len(results) \in Nat /\ Len(dialogs) \in Nat /\ cursors \in Nat
           /\ \A p \in 1 .. MaxPages : showing[p] \in 0 .. made
<1>1. waiting \in Seq(Work) /\ results \in Seq(Result) /\ dialogs \in Seq({"lock", "expired", "preview"})
  BY DEF QtInv, QtTypes
<1>2. Len(waiting) \in Nat /\ Len(results) \in Nat /\ Len(dialogs) \in Nat
  BY <1>1
<1>3. cursors \in Nat
  BY <1>2 DEF QtInv, OneThread
<1>. QED BY <1>2, <1>3, QtWindowAssumption DEF QtInv, QtTypes

LEMMA WorkIsTyped ==
    ASSUME QtInv
    PROVE  /\ \A i \in 1 .. Len(waiting) : waiting[i] \in Work
           /\ \A i \in 1 .. Len(results) : results[i] \in Result
<1>1. waiting \in Seq(Work) /\ results \in Seq(Result)
  BY DEF QtInv, QtTypes
<1>. QED BY <1>1

\* The thread takes the first piece of work.
LEMMA WorkStarts == ASSUME QtInv, StartWork PROVE QtInv'
<1>1. /\ waiting # <<>> /\ Cardinality(working) < 1
      /\ working' = working \cup {waiting[1]} /\ waiting' = Tail(waiting)
      /\ UNCHANGED <<face, seat, logins, ticking, dialogs, page, pages, widgets, enabled, showing, made, results, cursors>>
  BY DEF StartWork, Threads, sessionVars, pageVars
<1>2. working = {} /\ working' = {waiting[1]}
  <2>1. working = {}
    BY <1>1, OneOrNone
  <2>. QED BY <1>1, <2>1
<1>3. waiting \in Seq(Work)
  BY DEF QtInv, QtTypes
<1>4. /\ waiting[1] \in Work /\ waiting' \in Seq(Work) /\ Len(waiting) \in Nat /\ Len(waiting) >= 1
      /\ Len(waiting') = Len(waiting) - 1
      /\ \A i \in 1 .. Len(waiting') : i + 1 \in 1 .. Len(waiting) /\ waiting'[i] = waiting[i + 1]
  BY <1>1, <1>3
<1>5. QtTypes'
  BY <1>1, <1>2, <1>4 DEF QtInv, QtTypes, Work, Result
<1>6. SeatIsTold'
  BY <1>1 DEF QtInv, SeatIsTold, Expired
<1>7. WorkInOrder'
  <2>1. 1 \in 1 .. Len(waiting) /\ \A i \in 1 .. Len(waiting') : 1 < i + 1
    BY <1>4
  <2>2. \A i, j \in 1 .. Len(waiting') : i < j => i + 1 < j + 1
    BY <1>4
  <2>3. WorkInOrder
    BY DEF QtInv
  <2>. QED BY <1>1, <1>2, <1>4, <2>1, <2>2, <2>3 DEF WorkInOrder
<1>8. OneThread'
  BY <1>1, <1>2, <1>4, QtNumbers DEF QtInv, OneThread
<1>. QED BY <1>5, <1>6, <1>7, <1>8 DEF QtInv

\* It has done it: the result goes to the end of those on their way.
LEMMA WorkEnds == ASSUME QtInv, EndWork PROVE QtInv'
<1>1. PICK t \in working, ok \in BOOLEAN :
          working' = working \ {t} /\ results' = Append(results, [work |-> t, ok |-> ok])
  BY DEF EndWork
<1>2. UNCHANGED <<face, seat, logins, ticking, dialogs, page, pages, widgets, enabled, showing, made, waiting, cursors>>
  BY DEF EndWork, sessionVars, pageVars
<1>3. working = {t} /\ working' = {} /\ t \in Work
  BY <1>1 DEF QtInv, OneThread, QtTypes
<1>. DEFINE r == [work |-> t, ok |-> ok]
<1>4. r \in Result /\ r.work = t
  BY <1>3 DEF Result
<1>5. results \in Seq(Result) /\ results' = Append(results, r)
  BY <1>1 DEF QtInv, QtTypes
<1>. HIDE DEF r
<1>6. /\ results' \in Seq(Result) /\ Len(results) \in Nat /\ Len(results') = Len(results) + 1
      /\ results'[Len(results) + 1] = r /\ \A i \in 1 .. Len(results) : results'[i] = results[i]
  BY <1>4, <1>5
<1>7. \A i \in 1 .. Len(results') : i \in 1 .. Len(results) \/ i = Len(results) + 1
  BY <1>6
<1>8. QtTypes'
  BY <1>2, <1>3, <1>6 DEF QtInv, QtTypes, Work, Result
<1>9. SeatIsTold'
  BY <1>2 DEF QtInv, SeatIsTold, Expired
<1>10. WorkInOrder'
  <2>1. WorkInOrder /\ t \in working
    BY <1>1 DEF QtInv
  <2>2. \A i, j \in 1 .. Len(results') : i < j => i \in 1 .. Len(results)
    BY <1>6
  <2>. QED BY <1>2, <1>3, <1>4, <1>6, <1>7, <2>1, <2>2 DEF WorkInOrder
<1>11. OneThread'
  BY <1>2, <1>3, <1>6, QtNumbers DEF QtInv, OneThread
<1>. QED BY <1>8, <1>9, <1>10, <1>11 DEF QtInv

\* The event loop shows the first result, if its page is still there.
LEMMA WorkIsShown ==
    ASSUME QtInv, Deliver
    PROVE  QtInv' /\ \A p \in 1 .. MaxPages : showing'[p] >= showing[p]
<1>. DEFINE t == results[1].work
<1>1. /\ results # <<>> /\ results' = Tail(results) /\ cursors' = cursors - 1
      /\ enabled' = enabled \cup ({t.page} \cap widgets)
      /\ showing' = IF t.kind = "refresh" /\ t.page \in widgets THEN [showing EXCEPT ![t.page] = t.no] ELSE showing
      /\ dialogs' = (IF t.kind = "print" /\ results[1].ok /\ t.page \in widgets
                     THEN Append(dialogs, "preview") ELSE dialogs)
      /\ UNCHANGED <<face, seat, logins, ticking, page, pages, widgets, made, waiting, working>>
  BY DEF Deliver, Restored, sessionVars, pageVars
<1>2. results \in Seq(Result) /\ dialogs \in Seq({"lock", "expired", "preview"})
  BY DEF QtInv, QtTypes
<1>3. /\ results[1] \in Result /\ results' \in Seq(Result) /\ Len(results) \in Nat /\ Len(results) >= 1
      /\ Len(results') = Len(results) - 1
      /\ \A i \in 1 .. Len(results') : i + 1 \in 1 .. Len(results) /\ results'[i] = results[i + 1]
  BY <1>1, <1>2
<1>4. t \in Work /\ t.no \in 1 .. made /\ t.page \in 1 .. pages /\ t.page \in 1 .. MaxPages
  BY <1>3, QtNumbers DEF Result, Work
<1>5. \A p \in 1 .. MaxPages : showing[p] < t.no /\ (showing'[p] = showing[p] \/ showing'[p] = t.no)
  <2>1. \A p \in 1 .. MaxPages : showing[p] < t.no
    BY <1>3 DEF QtInv, WorkInOrder
  <2>. QED BY <1>1, <2>1 DEF QtInv, QtTypes
<1>. HIDE DEF t
<1>6. \A p \in 1 .. MaxPages : showing'[p] >= showing[p]
  BY <1>4, <1>5, QtNumbers
<1>7. /\ dialogs' \in Seq({"lock", "expired", "preview"})
      /\ (\E i \in 1 .. Len(dialogs') : dialogs'[i] = "expired") <=> Expired
  <2>1. CASE dialogs' = dialogs
    BY <1>2, <2>1 DEF Expired
  <2>2. CASE dialogs' = Append(dialogs, "preview")
    <3>1. /\ dialogs' \in Seq({"lock", "expired", "preview"}) /\ Len(dialogs) \in Nat /\ Len(dialogs') = Len(dialogs) + 1
          /\ dialogs'[Len(dialogs) + 1] = "preview" /\ \A i \in 1 .. Len(dialogs) : dialogs'[i] = dialogs[i]
      BY <1>2, <2>2
    <3>2. \A i \in 1 .. Len(dialogs') : i \in 1 .. Len(dialogs) \/ i = Len(dialogs) + 1
      BY <3>1
    <3>3. \A i \in 1 .. Len(dialogs) : i \in 1 .. Len(dialogs')
      BY <3>1
    <3>. QED BY <3>1, <3>2, <3>3 DEF Expired
  <2>. QED BY <1>1, <2>1, <2>2
<1>8. QtTypes'
  <2>1. showing' \in [1 .. MaxPages -> 0 .. made]
    BY <1>1, <1>4 DEF QtInv, QtTypes
  <2>2. enabled' \subseteq 1 .. pages
    BY <1>1 DEF QtInv, QtTypes
  <2>. QED BY <1>1, <1>3, <1>7, <2>1, <2>2 DEF QtInv, QtTypes, Work, Result
<1>9. SeatIsTold'
  BY <1>1, <1>7 DEF QtInv, SeatIsTold, Expired
<1>10. WorkInOrder'
  <2>1. 1 \in 1 .. Len(results) /\ \A i \in 1 .. Len(results') : 1 < i + 1
    BY <1>3
  <2>2. \A i, j \in 1 .. Len(results') : i < j => i + 1 < j + 1
    BY <1>3
  <2>3. WorkInOrder
    BY DEF QtInv
  <2>4. /\ \A i \in 1 .. Len(waiting) : t.no < waiting[i].no
        /\ \A j \in 1 .. Len(results') : t.no < results'[j].work.no
        /\ \A u \in working : t.no < u.no
    BY <1>3, <2>1, <2>3 DEF WorkInOrder, t
  <2>. QED BY <1>1, <1>3, <1>5, <2>2, <2>3, <2>4 DEF WorkInOrder
<1>11. OneThread'
  BY <1>1, <1>3, QtNumbers DEF QtInv, OneThread
<1>. QED BY <1>6, <1>8, <1>9, <1>10, <1>11 DEF QtInv

\* A page gives the thread something to do.
LEMMA WorkIsGiven ==
    ASSUME QtInv, NEW p, NEW kind \in {"refresh", "print"}, Give(p, kind),
           pages' \in 0 .. MaxPages, pages' >= pages, p \in 1 .. pages', page' \in 0 .. pages',
           widgets' \subseteq 1 .. pages',
           UNCHANGED <<face, seat, logins, ticking, dialogs>>
    PROVE  QtInv'
<1>. DEFINE w == [no |-> made + 1, page |-> p, kind |-> kind]
<1>1. /\ made < MaxTasks /\ made' = made + 1 /\ waiting' = Append(waiting, w)
      /\ enabled' = enabled \ {p} /\ cursors' = cursors + 1 /\ UNCHANGED <<showing, working, results>>
  BY DEF Give
<1>2. made + 1 \in 1 .. made' /\ made' \in 0 .. MaxTasks
      /\ (\A n \in 1 .. made : n \in 1 .. made') /\ (\A n \in 0 .. made : n \in 0 .. made')
      /\ (\A n \in 1 .. pages : n \in 1 .. pages')
  <2>. DEFINE m == made
  <2>1. m \in Nat /\ MaxTasks \in Nat /\ m < MaxTasks /\ made' = m + 1
    BY <1>1, QtNumbers
  <2>. HIDE DEF m
  <2>2. m + 1 \in 1 .. made' /\ made' \in 0 .. MaxTasks
        /\ (\A n \in 1 .. m : n \in 1 .. made') /\ (\A n \in 0 .. m : n \in 0 .. made')
    BY <2>1
  <2>3. pages' \in Nat /\ pages \in Nat
    BY QtNumbers
  <2>4. \A n \in 1 .. pages : n \in 1 .. pages'
    BY <2>3
  <2>. QED BY <2>2, <2>4 DEF m
<1>3. w \in Work' /\ w.no = made + 1
  BY <1>2 DEF Work
<1>. HIDE DEF w
<1>4. (\A x \in Work : x \in Work' /\ x.no \in 1 .. made) /\ (\A x \in Result : x \in Result' /\ x.work.no \in 1 .. made)
  BY <1>2 DEF Work, Result
<1>5. waiting \in Seq(Work) /\ results \in Seq(Result)
  BY DEF QtInv, QtTypes
<1>6. /\ waiting \in Seq(Work') /\ results \in Seq(Result')
      /\ \A i \in 1 .. Len(waiting) : waiting[i] \in Work
      /\ \A i \in 1 .. Len(results) : results[i] \in Result
  BY <1>4, <1>5, WorkIsTyped
<1>7. /\ waiting' \in Seq(Work') /\ Len(waiting) \in Nat /\ Len(waiting') = Len(waiting) + 1
      /\ waiting'[Len(waiting) + 1] = w /\ \A i \in 1 .. Len(waiting) : waiting'[i] = waiting[i]
  BY <1>1, <1>3, <1>6
<1>8. /\ \A i \in 1 .. Len(waiting') : i \in 1 .. Len(waiting) \/ i = Len(waiting) + 1
      /\ \A i, j \in 1 .. Len(waiting') : i < j => i \in 1 .. Len(waiting)
  BY <1>7
<1>9. QtTypes'
  <2>1. showing' \in [1 .. MaxPages -> 0 .. made']
    BY <1>1, <1>2 DEF QtInv, QtTypes
  <2>2. working' \subseteq Work' /\ enabled' \subseteq 1 .. pages'
    BY <1>1, <1>2, <1>4 DEF QtInv, QtTypes
  <2>3. /\ face \in {"login", "main"} /\ seat \in {"valid", "expired", Nobody}
        /\ logins \in 0 .. MaxLogins /\ ticking \in BOOLEAN /\ dialogs \in Seq({"lock", "expired", "preview"})
    BY DEF QtInv, QtTypes
  <2>. QED BY <1>1, <1>2, <1>6, <1>7, <2>1, <2>2, <2>3 DEF QtTypes
<1>10. SeatIsTold'
  BY DEF QtInv, SeatIsTold, Expired
<1>11. WorkInOrder'
  <2>1. \A n \in 1 .. made : n < made + 1
    BY QtNumbers
  <2>2. /\ \A i \in 1 .. Len(waiting) : waiting[i].no < w.no
        /\ \A i \in 1 .. Len(results) : results[i].work.no < w.no
        /\ \A t \in working : t.no < w.no
    BY <1>3, <1>4, <1>6, <2>1 DEF QtInv, QtTypes
  <2>3. \A q \in 1 .. MaxPages : showing[q] < w.no
    BY <1>3, QtNumbers
  <2>4. WorkInOrder
    BY DEF QtInv
  <2>5. \A i \in 1 .. Len(waiting') : \/ i \in 1 .. Len(waiting) /\ waiting'[i] = waiting[i]
                                     \/ waiting'[i] = w
    BY <1>7, <1>8
  <2>6. \A i, j \in 1 .. Len(waiting') : i < j => waiting'[i].no < waiting'[j].no
    BY <1>7, <1>8, <2>2, <2>4, <2>5 DEF WorkInOrder
  <2>. QED BY <1>1, <2>2, <2>3, <2>4, <2>5, <2>6 DEF WorkInOrder
<1>12. OneThread'
  <2>. DEFINE b == IF working = {} THEN 0 ELSE 1
  <2>1. b \in {0, 1} /\ b' = b /\ cursors = Len(waiting) + b + Len(results) /\ cursors <= made
        /\ \A t, u \in working' : t = u
    BY <1>1 DEF QtInv, OneThread
  <2>. HIDE DEF b
  <2>. DEFINE n == Len(waiting)  k == Len(results)  c == cursors  m == made
  <2>2. n \in Nat /\ k \in Nat /\ c \in Nat /\ m \in Nat /\ c = n + b + k /\ c <= m
        /\ Len(waiting') = n + 1 /\ Len(results') = k /\ cursors' = c + 1 /\ made' = m + 1
    BY <1>1, <1>7, <2>1, QtNumbers
  <2>. HIDE DEF n, k, c, m
  <2>3. cursors' = Len(waiting') + b' + Len(results') /\ cursors' <= made'
    BY <2>1, <2>2
  <2>. QED BY <2>1, <2>3 DEF OneThread, b
<1>. QED BY <1>9, <1>10, <1>11, <1>12 DEF QtInv

LEMMA PagesAsk ==
    ASSUME QtInv, OpenPage \/ Press \/ PressF5
    PROVE  QtInv'
<1>1. MaxPages \in Nat /\ pages \in Nat /\ pages \in 0 .. MaxPages /\ page \in 0 .. pages
      /\ widgets \subseteq 1 .. pages /\ enabled \subseteq 1 .. pages
  BY QtNumbers DEF QtInv, QtTypes
<1>2. UNCHANGED <<face, seat, logins, ticking, dialogs>>
  BY DEF OpenPage, Press, PressF5, sessionVars
<1>3. CASE OpenPage
  <2>1. /\ pages < MaxPages /\ pages' = pages + 1 /\ page' = pages + 1 /\ widgets' = widgets \cup {pages + 1}
        /\ Give(pages + 1, "refresh")
    BY <1>3 DEF OpenPage
  <2>2. /\ pages' \in 0 .. MaxPages /\ pages' >= pages /\ pages + 1 \in 1 .. pages' /\ page' \in 0 .. pages'
        /\ \A n \in 1 .. pages : n \in 1 .. pages'
    BY <1>1, <2>1
  <2>3. widgets' \subseteq 1 .. pages'
    BY <1>1, <2>1, <2>2
  <2>. QED BY <1>2, <2>1, <2>2, <2>3, WorkIsGiven
<1>4. CASE Press \/ PressF5
  <2>1. /\ page \in 1 .. pages /\ UNCHANGED <<page, pages, widgets>>
        /\ \E kind \in {"refresh", "print"} : Give(page, kind)
    BY <1>1, <1>4 DEF Press, PressF5, NoPage, pageVars
  <2>2. pages' >= pages /\ pages' \in 0 .. MaxPages
    BY <1>1, <2>1
  <2>. QED BY <1>1, <1>2, <2>1, <2>2, WorkIsGiven
<1>. QED BY <1>3, <1>4

\* What one dialog more or less is.
LEMMA DialogCloses ==
    ASSUME QtInv, NEW d, OnTop(d), dialogs' = Below
    PROVE  /\ dialogs' \in Seq({"lock", "expired", "preview"})
           /\ Expired' => Expired
           /\ d # "expired" => (Expired => Expired')
<1>1. dialogs \in Seq({"lock", "expired", "preview"}) /\ dialogs # <<>> /\ dialogs[Len(dialogs)] = d
      /\ dialogs' = SubSeq(dialogs, 1, Len(dialogs) - 1)
  BY DEF QtInv, QtTypes, OnTop, Free, Below
<1>2. /\ Len(dialogs) \in Nat /\ Len(dialogs) >= 1 /\ Len(dialogs') = Len(dialogs) - 1
      /\ dialogs' \in Seq({"lock", "expired", "preview"})
      /\ \A i \in 1 .. Len(dialogs') : dialogs'[i] = dialogs[i]
  <2>. DEFINE D == {"lock", "expired", "preview"}
  <2>1. Len(dialogs) \in Nat /\ Len(dialogs) >= 1
    BY <1>1
  <2>2. dialogs \in Seq(D)
    BY <1>1
  <2>. HIDE DEF D
  <2>3. /\ SubSeq(dialogs, 1, Len(dialogs) - 1) \in Seq(D)
        /\ Len(SubSeq(dialogs, 1, Len(dialogs) - 1)) = Len(dialogs) - 1
        /\ \A i \in 1 .. Len(dialogs) - 1 : SubSeq(dialogs, 1, Len(dialogs) - 1)[i] = dialogs[i]
    <3>. DEFINE n == Len(dialogs) - 1
    <3>1. n \in Nat /\ 1 \in Int /\ n \in Int /\ \A i \in 1 .. n : i \in 1 .. Len(dialogs)
      BY <2>1
    <3>2. \A i \in 1 .. n : dialogs[i] \in D
      BY <2>2, <3>1
    <3>. HIDE DEF n
    <3>3. /\ SubSeq(dialogs, 1, n) \in Seq(D)
          /\ Len(SubSeq(dialogs, 1, n)) = IF 1 <= n THEN n - 1 + 1 ELSE 0
          /\ \A i \in 1 .. n - 1 + 1 : SubSeq(dialogs, 1, n)[i] = dialogs[1 + i - 1]
      BY <3>1, <3>2, SubSeqProperties
    <3>4. (IF 1 <= n THEN n - 1 + 1 ELSE 0) = n /\ n - 1 + 1 = n /\ \A i \in 1 .. n : 1 + i - 1 = i
      BY <3>1
    <3>5. Len(SubSeq(dialogs, 1, n)) = n /\ \A i \in 1 .. n : SubSeq(dialogs, 1, n)[i] = dialogs[i]
      BY <3>3, <3>4
    <3>. QED BY <3>3, <3>5 DEF n
  <2>. QED BY <1>1, <2>1, <2>3 DEF D
<1>3. /\ \A i \in 1 .. Len(dialogs') : i \in 1 .. Len(dialogs)
      /\ \A i \in 1 .. Len(dialogs) : i \in 1 .. Len(dialogs') \/ i = Len(dialogs)
  BY <1>2
<1>. QED BY <1>1, <1>2, <1>3 DEF Expired

LEMMA DialogOpens ==
    ASSUME QtInv, NEW d \in {"lock", "expired", "preview"}, dialogs' = Append(dialogs, d)
    PROVE  /\ dialogs' \in Seq({"lock", "expired", "preview"})
           /\ d = "expired" => Expired'
<1>1. dialogs \in Seq({"lock", "expired", "preview"})
  BY DEF QtInv, QtTypes
<1>2. /\ dialogs' \in Seq({"lock", "expired", "preview"}) /\ Len(dialogs) \in Nat /\ Len(dialogs') = Len(dialogs) + 1
      /\ dialogs'[Len(dialogs) + 1] = d
  BY <1>1
<1>3. Len(dialogs) + 1 \in 1 .. Len(dialogs')
  BY <1>2
<1>. QED BY <1>2, <1>3 DEF Expired

\* The session, its dialogs and the pages while no work is touched.
LEMMA SessionMoves ==
    ASSUME QtInv,
           ClosePreview \/ LeavePage \/ Destroyed \/ SignIn \/ Expire \/ CheckSession \/ AcknowledgeExpiry
             \/ Logout \/ OpenLock \/ Unlock \/ SignOutInstead \/ UNCHANGED qtVars
    PROVE  QtInv' /\ UNCHANGED showing
<1>1. UNCHANGED <<pages, enabled, showing, made, waiting, working, results, cursors>>
  BY DEF ClosePreview, LeavePage, Destroyed, SignIn, Expire, CheckSession, AcknowledgeExpiry, Logout, OpenLock,
         Unlock, SignOutInstead, EndSession, qtVars, pageVars, workVars, poolVars
<1>2. WorkInOrder' /\ OneThread'
  BY <1>1 DEF QtInv, WorkInOrder, OneThread
<1>3. page' \in 0 .. pages /\ widgets' \subseteq 1 .. pages
  <2>1. page \in 0 .. pages /\ widgets \subseteq 1 .. pages /\ 0 \in 0 .. pages
    BY QtNumbers DEF QtInv, QtTypes
  <2>2. widgets' \subseteq widgets
    BY DEF ClosePreview, LeavePage, Destroyed, SignIn, Expire, CheckSession, AcknowledgeExpiry, Logout, OpenLock,
           Unlock, SignOutInstead, EndSession, qtVars, pageVars
  <2>3. page' \in {page, 0}
    BY DEF ClosePreview, LeavePage, Destroyed, SignIn, Expire, CheckSession, AcknowledgeExpiry, Logout, OpenLock,
           Unlock, SignOutInstead, EndSession, ToLogin, NoPage, qtVars, pageVars
  <2>. QED BY <2>1, <2>2, <2>3
<1>4. /\ face' \in {"login", "main"} /\ seat' \in {"valid", "expired", Nobody} /\ ticking' \in BOOLEAN
  BY DEF QtInv, QtTypes, ClosePreview, LeavePage, Destroyed, SignIn, Expire, CheckSession, AcknowledgeExpiry, Logout,
         OpenLock, Unlock, SignOutInstead, EndSession, SeatAfterLogout, ToLogin, qtVars, sessionVars
<1>5. logins' \in 0 .. MaxLogins
  <2>1. logins \in 0 .. MaxLogins /\ (logins < MaxLogins => logins + 1 \in 0 .. MaxLogins)
    BY QtNumbers DEF QtInv, QtTypes
  <2>. QED BY <2>1 DEF ClosePreview, LeavePage, Destroyed, SignIn, Expire, CheckSession, AcknowledgeExpiry, Logout,
         OpenLock, Unlock, SignOutInstead, EndSession, qtVars, sessionVars
<1>6. Free => ~ Expired
  BY DEF Free, Expired
<1>7. dialogs' \in Seq({"lock", "expired", "preview"}) /\ SeatIsTold'
  <2>1. SeatIsTold /\ dialogs \in Seq({"lock", "expired", "preview"})
    BY DEF QtInv, QtTypes
  <2>2. CASE ClosePreview \/ Unlock
    <3>1. UNCHANGED <<face, seat>>
      BY <2>2 DEF ClosePreview, Unlock, sessionVars
    <3>2. dialogs' \in Seq({"lock", "expired", "preview"}) /\ (Expired' <=> Expired)
      BY <2>2, DialogCloses DEF ClosePreview, Unlock
    <3>. QED BY <2>1, <3>1, <3>2 DEF SeatIsTold
  <2>3. CASE LeavePage \/ Destroyed \/ UNCHANGED qtVars
    <3>1. UNCHANGED <<face, seat, dialogs>>
      BY <2>3 DEF LeavePage, Destroyed, qtVars, sessionVars
    <3>. QED BY <2>1, <3>1 DEF SeatIsTold, Expired
  <2>4. CASE SignIn
    <3>1. face' = "main" /\ seat' = "valid" /\ UNCHANGED dialogs /\ ~ Expired
      BY <1>6, <2>4 DEF SignIn
    <3>. QED BY <2>1, <3>1 DEF SeatIsTold, Expired, Nobody
  <2>5. CASE Expire
    <3>1. seat = "valid" /\ seat' = "expired" /\ UNCHANGED <<face, dialogs>>
      BY <2>5 DEF Expire
    <3>. QED BY <2>1, <3>1 DEF SeatIsTold, Expired, Nobody
  <2>6. CASE CheckSession
    <3>1. seat = "expired" /\ seat' = Nobody /\ UNCHANGED face /\ dialogs' = Append(dialogs, "expired")
      BY <2>6 DEF CheckSession
    <3>2. dialogs' \in Seq({"lock", "expired", "preview"}) /\ Expired'
      BY <3>1, DialogOpens
    <3>. QED BY <3>1, <3>2 DEF SeatIsTold
  <2>7. CASE AcknowledgeExpiry
    <3>1. face' = "login" /\ UNCHANGED seat /\ OnTop("expired") /\ dialogs' = Below
      BY <2>7 DEF AcknowledgeExpiry, ToLogin
    <3>2. dialogs' \in Seq({"lock", "expired", "preview"}) /\ (Expired' => Expired)
      BY <3>1, DialogCloses
    <3>3. Expired
      BY <2>1, <3>1 DEF OnTop, Free, Expired
    <3>. QED BY <2>1, <3>1, <3>2, <3>3 DEF SeatIsTold
  <2>8. CASE Logout
    <3>1. face' = "login" /\ seat' = Nobody /\ UNCHANGED dialogs
      BY <2>8 DEF Logout, EndSession, ToLogin, SeatAfterLogout
    <3>. QED BY <2>1, <3>1 DEF SeatIsTold, Expired
  <2>9. CASE OpenLock
    <3>1. UNCHANGED <<face, seat>> /\ dialogs' = <<"lock">> /\ ~ Expired /\ face = "main"
      BY <1>6, <2>9 DEF OpenLock, sessionVars
    <3>2. ~ Expired' /\ dialogs' \in Seq({"lock", "expired", "preview"})
      BY <3>1 DEF Expired
    <3>. QED BY <2>1, <3>1, <3>2 DEF SeatIsTold
  <2>10. CASE SignOutInstead
    <3>1. face' = "login" /\ seat' = Nobody /\ OnTop("lock") /\ dialogs' = Below
      BY <2>10 DEF SignOutInstead, EndSession, ToLogin, SeatAfterLogout
    <3>2. dialogs' \in Seq({"lock", "expired", "preview"})
      BY <3>1, DialogCloses
    <3>. QED BY <3>1, <3>2 DEF SeatIsTold
  <2>. QED BY <2>2, <2>3, <2>4, <2>5, <2>6, <2>7, <2>8, <2>9, <2>10
<1>8. QtTypes'
  BY <1>1, <1>3, <1>4, <1>5, <1>7 DEF QtInv, QtTypes, Work, Result
<1>. QED BY <1>1, <1>2, <1>7, <1>8 DEF QtInv

LEMMA QtStep ==
    ASSUME QtInv, [QtNext]_qtVars
    PROVE  QtInv' /\ \A p \in DOMAIN showing : showing'[p] >= showing[p]
<1>0. DOMAIN showing = 1 .. MaxPages /\ \A p \in 1 .. MaxPages : showing[p] >= showing[p]
  BY QtNumbers DEF QtInv, QtTypes
<1>1. CASE Deliver
  BY <1>0, <1>1, WorkIsShown
<1>2. UNCHANGED showing => \A p \in DOMAIN showing : showing'[p] >= showing[p]
  BY <1>0
<1>3. CASE StartWork
  BY <1>2, <1>3, WorkStarts DEF StartWork
<1>4. CASE EndWork
  BY <1>2, <1>4, WorkEnds DEF EndWork
<1>5. CASE OpenPage \/ Press \/ PressF5
  BY <1>2, <1>5, PagesAsk DEF OpenPage, Press, PressF5, Give
<1>. QED BY <1>1, <1>2, <1>3, <1>4, <1>5, SessionMoves DEF QtNext

LEMMA QtSafe ==
    QtInv => /\ QtTypeOK
             /\ face = "main" /\ seat = Nobody => \E i \in DOMAIN dialogs : dialogs[i] = "expired"
             /\ face = "login" => seat = Nobody
             /\ cursors = Len(waiting) + Cardinality(working) + Len(results)
<1>. SUFFICES ASSUME QtInv
              PROVE  /\ QtTypeOK
                     /\ face = "main" /\ seat = Nobody => \E i \in DOMAIN dialogs : dialogs[i] = "expired"
                     /\ face = "login" => seat = Nobody
                     /\ cursors = Len(waiting) + Cardinality(working) + Len(results)
  OBVIOUS
<1>1. dialogs \in Seq({"lock", "expired", "preview"}) /\ DOMAIN dialogs = 1 .. Len(dialogs)
  BY DEF QtInv, QtTypes
<1>2. cursors \in 0 .. made
  BY QtNumbers DEF QtInv, OneThread
<1>3. QtTypeOK
  BY <1>1, <1>2 DEF QtInv, QtTypes, QtTypeOK
<1>4. cursors = Len(waiting) + Cardinality(working) + Len(results)
  BY OneOrNone DEF QtInv, OneThread
<1>. QED BY <1>1, <1>3, <1>4 DEF QtInv, SeatIsTold, Expired

\* Nobody goes on in a main window whose session is over, and the login page has
\* none (main_window.py _check_session); the thread's results come in order and
\* the wait cursor counts them (background.py).
THEOREM QtKeepsOrder ==
    QtSpec => OverMeansOut /\ LoginMeansOver /\ NewestResultStays /\ CursorCountsWork
<1>1. QtInv /\ [QtNext]_qtVars => QtInv' /\ \A p \in DOMAIN showing : showing'[p] >= showing[p]
  BY QtStep
<1>2. QtSpec => []QtInv
  BY <1>1, QtStarts, PTL DEF QtSpec
<1>3. QtInv /\ [QtNext]_qtVars => [\A p \in DOMAIN showing : showing'[p] >= showing[p]]_qtVars
  BY <1>1
<1>. QED BY <1>2, <1>3, QtSafe, PTL DEF QtSpec, OverMeansOut, LoginMeansOver, NewestResultStays, CursorCountsWork

(***************************************************************************)
(* The Electron shell (module DesktopShell).                               *)
(***************************************************************************)

Starting == {"stop", "launch", "port", "proxy"}
MayStart(L) == {l \in L : l.at \in Starting}
Counts(at) == IF at \in Starting THEN 1 ELSE 0

ShellTypes ==
    /\ {isMainPC, patient, error, setup} \subseteq BOOLEAN
    /\ paired \in {"none", "good", "unreadable"}
    /\ {alive, proxied, watched, screens} \subseteq SUBSET Backend
    /\ started \in Nat /\ asked \in 1 .. MaxStarts
    /\ {sidecar, proxy, main, leaving} \subseteq Backend \cup {Nothing}
    /\ launches \subseteq Run
    /\ app \in {"running", "quitting", "gone"}

\* Each run that was asked for starts one backend at the most.
StartsAreCounted ==
    /\ IsFiniteSet(launches)
    /\ started + Cardinality(MayStart(launches)) <= asked

\* A new backend has a new number, and a service with a window is watched.
NumbersAreKnown ==
    /\ \A n \in alive \cup proxied \cup screens : n <= started
    /\ sidecar # Nothing => sidecar <= started /\ sidecar \notin proxied
    /\ proxy # Nothing => proxy \in proxied
    /\ Services \cap screens \subseteq watched

\* On the Main PC no run comes to start a service, and whoever finishes the setup
\* has paired the PC.
MainPCHasNone ==
    isMainPC =>
        /\ Services = {}
        /\ \A l \in launches : l.at # "port" /\ (l.closeSetup => paired = "good")

\* Where the user waits there is one run, and it knows of the only service.
OneRun ==
    patient =>
        /\ \A l, k \in launches : l = k
        /\ Services \subseteq {sidecar}
        /\ \A l \in launches :
               /\ l.at \in {"launch", "port", "proxy"} => sidecar = Nothing
               /\ l.at \in {"stop", "health", "failed"} => l.service = sidecar
        /\ app = "quitting" => leaving = sidecar /\ leaving # Nothing
        /\ app = "gone" => Services = {}

ShellInv == ShellTypes /\ StartsAreCounted /\ NumbersAreKnown /\ MainPCHasNone /\ OneRun

LEMMA MayStartIsFinite ==
    ASSUME NEW L, IsFiniteSet(L)
    PROVE  IsFiniteSet(MayStart(L)) /\ Cardinality(MayStart(L)) \in Nat
<1>1. MayStart(L) \subseteq L
  BY DEF MayStart
<1>2. IsFiniteSet(MayStart(L))
  BY <1>1, FS_Subset
<1>. QED BY <1>2, FS_CardinalityType

LEMMA MayStartWithout ==
    ASSUME NEW L, IsFiniteSet(L), NEW l \in L
    PROVE  /\ IsFiniteSet(L \ {l})
           /\ Cardinality(MayStart(L \ {l})) = Cardinality(MayStart(L)) - Counts(l.at)
<1>1. IsFiniteSet(L \ {l})
  BY FS_RemoveElement
<1>2. IsFiniteSet(MayStart(L)) /\ Cardinality(MayStart(L)) \in Nat
  BY MayStartIsFinite
<1>3. CASE l.at \in Starting
  <2>1. l \in MayStart(L) /\ MayStart(L \ {l}) = MayStart(L) \ {l}
    BY <1>3 DEF MayStart
  <2>2. Cardinality(MayStart(L) \ {l}) = Cardinality(MayStart(L)) - 1
    BY <1>2, <2>1, FS_RemoveElement
  <2>. QED BY <1>1, <1>3, <2>1, <2>2 DEF Counts
<1>4. CASE l.at \notin Starting
  <2>1. MayStart(L \ {l}) = MayStart(L)
    BY <1>4 DEF MayStart
  <2>. QED BY <1>1, <1>2, <1>4, <2>1 DEF Counts
<1>. QED BY <1>3, <1>4

LEMMA MayStartWith ==
    ASSUME NEW L, IsFiniteSet(L), NEW x
    PROVE  /\ IsFiniteSet(L \cup {x})
           /\ Cardinality(MayStart(L \cup {x})) <= Cardinality(MayStart(L)) + Counts(x.at)
<1>1. IsFiniteSet(L \cup {x})
  BY FS_AddElement
<1>2. IsFiniteSet(MayStart(L)) /\ Cardinality(MayStart(L)) \in Nat
  BY MayStartIsFinite
<1>3. CASE x.at \in Starting
  <2>1. MayStart(L \cup {x}) = MayStart(L) \cup {x}
    BY <1>3 DEF MayStart
  <2>2. Cardinality(MayStart(L) \cup {x}) =
            IF x \in MayStart(L) THEN Cardinality(MayStart(L)) ELSE Cardinality(MayStart(L)) + 1
    BY <1>2, FS_AddElement
  <2>3. Counts(x.at) = 1
    BY <1>3 DEF Counts
  <2>4. Cardinality(MayStart(L) \cup {x}) <= Cardinality(MayStart(L)) + 1
    BY <1>2, <2>2
  <2>. QED BY <1>1, <2>1, <2>3, <2>4
<1>4. CASE x.at \notin Starting
  <2>1. MayStart(L \cup {x}) = MayStart(L)
    BY <1>4 DEF MayStart
  <2>. QED BY <1>1, <1>2, <1>4, <2>1 DEF Counts
<1>. QED BY <1>3, <1>4

LEMMA ShellNumbers ==
    ASSUME ShellInv
    PROVE  /\ MaxStarts \in Nat /\ started \in Nat /\ asked \in Nat /\ asked >= 1 /\ asked <= MaxStarts
           /\ Cardinality(MayStart(launches)) \in Nat /\ IsFiniteSet(launches)
           /\ started + Cardinality(MayStart(launches)) <= asked
           /\ \A b \in Backend : b \in Nat /\ b # Nothing
BY ShellAssumption, MayStartIsFinite DEF ShellInv, ShellTypes, StartsAreCounted, Backend

\* A run goes on.
LEMMA RunGoes ==
    ASSUME ShellInv, NEW l \in launches,
           NEW at \in {"launch", "port", "health", "failed", "proxy", "stop"},
           NEW service \in Backend \cup {Nothing}, Goes(l, at, service)
    PROVE  /\ launches' \subseteq Run /\ IsFiniteSet(launches')
           /\ Cardinality(MayStart(launches')) \in Nat
           /\ Cardinality(MayStart(launches')) <= Cardinality(MayStart(launches)) - Counts(l.at) + Counts(at)
           /\ \A k \in launches' : \/ k \in launches /\ k # l
                                   \/ k.at = at /\ k.service = service /\ k.closeSetup = l.closeSetup
           /\ patient => \A k \in launches' : k.at = at /\ k.service = service
           /\ patient => \A k, m \in launches' : k = m
<1>. DEFINE x == [l EXCEPT !.at = at, !.service = service]
<1>1. l \in Run /\ launches \subseteq Run
  BY DEF ShellInv, ShellTypes
<1>2. x \in Run /\ x.at = at /\ x.service = service /\ x.closeSetup = l.closeSetup
  BY <1>1 DEF Run
<1>3. launches' = (launches \ {l}) \cup {x}
  BY DEF Goes
<1>. HIDE DEF x
<1>4. IsFiniteSet(launches) /\ Cardinality(MayStart(launches)) \in Nat
  BY ShellNumbers
<1>5. /\ IsFiniteSet(launches \ {l})
      /\ Cardinality(MayStart(launches \ {l})) = Cardinality(MayStart(launches)) - Counts(l.at)
  BY <1>4, MayStartWithout
<1>6. /\ IsFiniteSet(launches')
      /\ Cardinality(MayStart(launches')) <= Cardinality(MayStart(launches \ {l})) + Counts(at)
  BY <1>2, <1>3, <1>5, MayStartWith
<1>7. Cardinality(MayStart(launches')) \in Nat
  BY <1>6, MayStartIsFinite
<1>8. patient => launches' = {x}
  BY <1>3 DEF ShellInv, OneRun
<1>. QED BY <1>1, <1>2, <1>3, <1>5, <1>6, <1>7, <1>8

LEMMA RunIsOver ==
    ASSUME ShellInv, NEW l \in launches, launches' = launches \ {l}
    PROVE  /\ launches' \subseteq Run /\ IsFiniteSet(launches') /\ launches' \subseteq launches
           /\ Cardinality(MayStart(launches')) \in Nat
           /\ Cardinality(MayStart(launches')) = Cardinality(MayStart(launches)) - Counts(l.at)
           /\ patient => launches' = {}
<1>1. launches \subseteq Run
  BY DEF ShellInv, ShellTypes
<1>2. IsFiniteSet(launches)
  BY ShellNumbers
<1>3. /\ IsFiniteSet(launches \ {l})
      /\ Cardinality(MayStart(launches \ {l})) = Cardinality(MayStart(launches)) - Counts(l.at)
  BY <1>2, MayStartWithout
<1>4. Cardinality(MayStart(launches \ {l})) \in Nat
  BY <1>3, MayStartIsFinite
<1>5. patient => launches \ {l} = {}
  BY DEF ShellInv, OneRun
<1>. QED BY <1>1, <1>3, <1>4, <1>5

LEMMA ShellStarts == ShellInit => ShellInv
<1>. SUFFICES ASSUME ShellInit PROVE ShellInv
  OBVIOUS
<1>. DEFINE x == Start(1, "launch", Nothing, FALSE)
<1>1. /\ isMainPC \in BOOLEAN /\ patient \in BOOLEAN /\ paired \in {"none", "good", "unreadable"}
      /\ alive = {} /\ proxied = {} /\ watched = {} /\ started = 0 /\ sidecar = Nothing /\ proxy = Nothing
      /\ main = Nothing /\ screens = {} /\ error = FALSE /\ setup = FALSE
      /\ launches = {x} /\ asked = 1 /\ app = "running" /\ leaving = Nothing
  BY DEF ShellInit
<1>2. 1 \in 1 .. MaxStarts
  BY ShellAssumption
<1>3. x \in Run /\ x.at = "launch" /\ x.closeSetup = FALSE
  BY <1>2 DEF Start, Run
<1>. HIDE DEF x
<1>4. ShellTypes
  BY <1>1, <1>2, <1>3 DEF ShellTypes
<1>5. StartsAreCounted
  <2>1. IsFiniteSet({x}) /\ Cardinality({x}) = 1
    BY FS_Singleton
  <2>2. MayStart({x}) = {x}
    BY <1>3 DEF MayStart, Starting
  <2>. QED BY <1>1, <2>1, <2>2 DEF StartsAreCounted
<1>6. NumbersAreKnown /\ MainPCHasNone /\ OneRun
  BY <1>1, <1>3 DEF NumbersAreKnown, MainPCHasNone, OneRun, Services
<1>. QED BY <1>4, <1>5, <1>6 DEF ShellInv

\* A run goes on while the backends stay as they are.
LEMMA RunsGoOn ==
    ASSUME ShellInv, NEW l \in launches, LaunchClient(l) \/ LaunchSingle(l) \/ Unhealthy(l)
    PROVE  ShellInv'
<1>1. UNCHANGED <<isMainPC, patient, paired, alive, proxied, watched, started, sidecar, proxy, main, screens, error,
                  setup, app, leaving, asked>>
  BY DEF LaunchClient, LaunchSingle, Unhealthy, pcVars, backendVars, heldVars, windowVars, appVars
<1>2. PICK at \in {"proxy", "port", "failed"}, service \in Backend \cup {Nothing} :
          /\ Goes(l, at, service)
          /\ at # "failed" => l.at = "launch" /\ service = Nothing
          /\ at = "failed" => l.at \in {"port", "health"} /\ service = sidecar
          /\ at = "port" => ~ isMainPC
  <2>1. sidecar \in Backend \cup {Nothing}
    BY DEF ShellInv, ShellTypes
  <2>. QED BY <2>1 DEF LaunchClient, LaunchSingle, Unhealthy
<1>3. /\ launches' \subseteq Run /\ IsFiniteSet(launches')
      /\ Cardinality(MayStart(launches')) \in Nat
      /\ Cardinality(MayStart(launches')) <= Cardinality(MayStart(launches)) - Counts(l.at) + Counts(at)
      /\ \A k \in launches' : \/ k \in launches /\ k # l
                              \/ k.at = at /\ k.service = service /\ k.closeSetup = l.closeSetup
      /\ patient => \A k \in launches' : k.at = at /\ k.service = service
      /\ patient => \A k, m \in launches' : k = m
  BY <1>2, RunGoes
<1>4. Counts(at) <= Counts(l.at) /\ Counts(at) \in Nat /\ Counts(l.at) \in Nat
  BY <1>2 DEF Counts, Starting
<1>5. ShellTypes'
  BY <1>1, <1>3 DEF ShellInv, ShellTypes, Backend, Run
<1>6. StartsAreCounted'
  <2>1. Cardinality(MayStart(launches')) <= Cardinality(MayStart(launches))
    BY <1>3, <1>4, ShellNumbers
  <2>2. started + Cardinality(MayStart(launches')) <= asked
    BY <1>3, <2>1, ShellNumbers
  <2>. QED BY <1>1, <1>3, <2>2 DEF StartsAreCounted, MayStart
<1>7. NumbersAreKnown'
  BY <1>1 DEF ShellInv, NumbersAreKnown, Services
<1>8. MainPCHasNone'
  BY <1>1, <1>2, <1>3 DEF ShellInv, MainPCHasNone, Services
<1>9. OneRun'
  BY <1>1, <1>2, <1>3 DEF ShellInv, OneRun, Services
<1>. QED BY <1>5, <1>6, <1>7, <1>8, <1>9 DEF ShellInv

\* A run ends, and with it perhaps the service it failed to start.
LEMMA RunsEnd ==
    ASSUME ShellInv, NEW l \in launches,
           LaunchRefused(l) \/ LaunchUnreadable(l) \/ LaunchOnMainPC(l) \/ Healthy(l) \/ LaunchFailed(l)
    PROVE  ShellInv'
<1>1. /\ UNCHANGED <<isMainPC, patient, paired, alive, proxied, started, proxy, app, leaving, asked>>
      /\ launches' = launches \ {l}
  BY DEF LaunchRefused, LaunchUnreadable, LaunchOnMainPC, Healthy, LaunchFailed, Ends, pcVars, backendVars, heldVars, appVars
<1>2. sidecar' = sidecar \/ (sidecar' = Nothing /\ l.at = "failed" /\ l.service \notin alive /\ StillHere)
  BY DEF LaunchRefused, LaunchUnreadable, LaunchOnMainPC, Healthy, LaunchFailed, heldVars
<1>3. /\ launches' \subseteq Run /\ IsFiniteSet(launches') /\ launches' \subseteq launches
      /\ Cardinality(MayStart(launches')) \in Nat
      /\ Cardinality(MayStart(launches')) = Cardinality(MayStart(launches)) - Counts(l.at)
      /\ patient => launches' = {}
  BY <1>1, RunIsOver
<1>4. l \in Run /\ l.closeSetup \in BOOLEAN /\ l.service \in Backend \cup {Nothing}
  BY DEF ShellInv, ShellTypes, Run
<1>5. /\ error' \in BOOLEAN /\ setup' \in BOOLEAN
      /\ main' \in Backend \cup {Nothing} /\ screens' \subseteq Backend
      /\ \A n \in screens' : n \in screens \/ (n = l.service /\ n \in alive /\ n \in watched')
      /\ watched \subseteq watched' /\ watched' \subseteq Backend
  <2>1. /\ error \in BOOLEAN /\ setup \in BOOLEAN /\ main \in Backend \cup {Nothing} /\ screens \subseteq Backend
        /\ alive \subseteq Backend /\ watched \subseteq Backend
    BY DEF ShellInv, ShellTypes
  <2>2. CASE Healthy(l)
    <3>1. /\ l.service \in alive /\ watched' = watched \cup {l.service} /\ screens' = screens \cup {l.service} /\ main' = l.service /\ error' = FALSE
          /\ setup' = (setup /\ ~ l.closeSetup)
      BY <2>2 DEF Healthy, ShowMain, Ends
    <3>. QED BY <1>4, <2>1, <3>1
  <2>3. CASE LaunchRefused(l) \/ LaunchUnreadable(l) \/ LaunchFailed(l)
    <3>1. /\ watched' = watched /\ screens' = screens \ {main} /\ main' = Nothing /\ error' = TRUE
          /\ (setup' = (setup /\ ~ l.closeSetup) \/ setup' = ~ l.closeSetup)
      BY <2>3 DEF LaunchRefused, LaunchUnreadable, LaunchFailed, ShowError, ErrorOpens, Ends, backendVars
    <3>. QED BY <1>4, <2>1, <3>1
  <2>4. CASE LaunchOnMainPC(l)
    <3>1. UNCHANGED <<screens, main, error, watched>> /\ setup' = ~ l.closeSetup
      BY <2>4 DEF LaunchOnMainPC, backendVars
    <3>. QED BY <1>4, <2>1, <3>1
  <2>. QED BY <2>2, <2>3, <2>4
<1>6. ShellTypes'
  BY <1>1, <1>2, <1>3, <1>5 DEF ShellInv, ShellTypes, Backend, Run
<1>7. StartsAreCounted'
  <2>1. Counts(l.at) \in Nat
    BY DEF Counts
  <2>2. started + Cardinality(MayStart(launches')) <= asked
    BY <1>3, <2>1, ShellNumbers
  <2>. QED BY <1>1, <1>3, <2>2 DEF StartsAreCounted, MayStart
<1>8. NumbersAreKnown'
  BY <1>1, <1>2, <1>5 DEF ShellInv, NumbersAreKnown, Services
<1>9. MainPCHasNone'
  BY <1>1, <1>3 DEF ShellInv, MainPCHasNone, Services
<1>10. OneRun'
  <2>. SUFFICES ASSUME patient PROVE OneRun'
    BY <1>1 DEF OneRun
  <2>1. OneRun /\ launches' = {} /\ Services' = Services
    BY <1>1, <1>3 DEF ShellInv, Services
  <2>2. CASE sidecar' = sidecar
    BY <1>1, <2>1, <2>2 DEF OneRun
  <2>3. CASE sidecar' = Nothing /\ l.at = "failed" /\ l.service \notin alive /\ StillHere
    <3>1. l.service = sidecar /\ Services = {} /\ app # "quitting"
      BY <2>1, <2>3 DEF OneRun, Services, StillHere
    <3>. QED BY <1>1, <2>1, <3>1 DEF OneRun
  <2>. QED BY <1>2, <2>2, <2>3
<1>. QED BY <1>6, <1>7, <1>8, <1>9, <1>10 DEF ShellInv

\* A new backend has a number of its own.
LEMMA NumberIsNew ==
    ASSUME ShellInv, NEW l \in launches, l.at \in {"port", "proxy"}
    PROVE  /\ started + 1 \in Backend /\ started + 1 # Nothing /\ Counts(l.at) = 1
           /\ started + 1 \notin alive \cup proxied \cup screens
           /\ \A n \in alive \cup proxied \cup screens : n <= started + 1
           /\ started + 1 + Cardinality(MayStart(launches)) - 1 <= asked
           /\ sidecar # Nothing => sidecar # started + 1 /\ sidecar <= started + 1
<1>1. l \in MayStart(launches)
  BY DEF MayStart, Starting
<1>2. Cardinality(MayStart(launches)) >= 1
  <2>1. IsFiniteSet(MayStart(launches)) /\ Cardinality(MayStart(launches)) \in Nat
    BY ShellNumbers, MayStartIsFinite
  <2>2. Cardinality(MayStart(launches)) # 0
    BY <1>1, <2>1, FS_EmptySet
  <2>. QED BY <2>1, <2>2
<1>3. started + 1 <= asked /\ started + 1 \in Backend
  BY <1>2, ShellNumbers DEF Backend
<1>4. Counts(l.at) = 1
  BY DEF Counts, Starting
<1>5. /\ \A n \in alive \cup proxied \cup screens : n \in Nat /\ n <= started
      /\ sidecar # Nothing => sidecar \in Nat /\ sidecar <= started
  BY ShellNumbers DEF ShellInv, ShellTypes, NumbersAreKnown
<1>6. /\ \A n \in alive \cup proxied \cup screens : n # started + 1 /\ n <= started + 1
      /\ sidecar # Nothing => sidecar # started + 1 /\ sidecar <= started + 1
  BY <1>5, ShellNumbers
<1>. QED BY <1>3, <1>4, <1>6, ShellNumbers

LEMMA ServiceStarts ==
    ASSUME ShellInv, app # "gone", NEW l \in launches, Spawn(l)
    PROVE  ShellInv'
<1>. DEFINE new == started + 1
<1>1. /\ l.at = "port" /\ StillHere /\ started' = new /\ alive' = alive \cup {new} /\ sidecar' = new
      /\ Goes(l, "health", new)
      /\ UNCHANGED <<isMainPC, patient, paired, proxied, watched, proxy, main, screens, error, setup, app, leaving, asked>>
  BY DEF Spawn, pcVars, windowVars, appVars
<1>2. /\ new \in Backend /\ new # Nothing /\ Counts(l.at) = 1
      /\ new \notin alive \cup proxied \cup screens
      /\ \A n \in alive \cup proxied \cup screens : n <= new
      /\ new + Cardinality(MayStart(launches)) - 1 <= asked
  BY <1>1, NumberIsNew
<1>. HIDE DEF new
<1>3. /\ launches' \subseteq Run /\ IsFiniteSet(launches')
      /\ Cardinality(MayStart(launches')) \in Nat
      /\ Cardinality(MayStart(launches')) <= Cardinality(MayStart(launches)) - Counts(l.at) + Counts("health")
      /\ \A k \in launches' : \/ k \in launches /\ k # l
                              \/ k.at = "health" /\ k.service = new /\ k.closeSetup = l.closeSetup
      /\ patient => \A k \in launches' : k.at = "health" /\ k.service = new
      /\ patient => \A k, m \in launches' : k = m
  BY <1>1, <1>2, RunGoes
<1>4. Counts("health") = 0
  BY DEF Counts, Starting
<1>5. new \in Nat /\ new <= new
  BY <1>2 DEF Backend
<1>6. ShellTypes'
  BY <1>1, <1>2, <1>3, <1>5 DEF ShellInv, ShellTypes, Backend, Run
<1>7. StartsAreCounted'
  <2>1. new + Cardinality(MayStart(launches')) <= asked
    BY <1>2, <1>3, <1>4, <1>5, ShellNumbers
  <2>. QED BY <1>1, <1>3, <2>1 DEF StartsAreCounted, MayStart
<1>8. NumbersAreKnown'
  BY <1>1, <1>2, <1>5 DEF ShellInv, NumbersAreKnown, Services
<1>9. MainPCHasNone'
  BY <1>1 DEF ShellInv, MainPCHasNone
<1>10. OneRun'
  <2>. SUFFICES ASSUME patient PROVE OneRun'
    BY <1>1 DEF OneRun
  <2>1. sidecar = Nothing /\ Services \subseteq {Nothing}
    BY <1>1 DEF ShellInv, OneRun
  <2>2. Services = {}
    BY <2>1, ShellNumbers DEF Services, ShellInv, ShellTypes
  <2>3. Services' = {new}
    BY <1>1, <1>2, <2>2 DEF Services
  <2>4. app = "running"
    <3>1. app \in {"running", "quitting"}
      BY DEF ShellInv, ShellTypes
    <3>. QED BY <2>1, <3>1 DEF ShellInv, OneRun
  <2>. QED BY <1>1, <1>2, <1>3, <2>3, <2>4 DEF OneRun
<1>. QED BY <1>6, <1>7, <1>8, <1>9, <1>10 DEF ShellInv

\* The proxy of a Client PC starts, or does not.
LEMMA ProxyStep ==
    ASSUME ShellInv, NEW l \in launches, ProxyStarts(l) \/ ProxyFails(l)
    PROVE  ShellInv'
<1>1. /\ UNCHANGED <<isMainPC, patient, paired, watched, sidecar, app, leaving, asked>>
      /\ launches' = launches \ {l} /\ setup' = (setup /\ ~ l.closeSetup) /\ l.at = "proxy" /\ StillHere
  BY DEF ProxyStarts, ProxyFails, Ends, pcVars, appVars
<1>2. /\ launches' \subseteq Run /\ IsFiniteSet(launches') /\ launches' \subseteq launches
      /\ Cardinality(MayStart(launches')) \in Nat
      /\ Cardinality(MayStart(launches')) = Cardinality(MayStart(launches)) - Counts(l.at)
      /\ patient => launches' = {}
  BY <1>1, RunIsOver
<1>3. CASE ProxyStarts(l)
  <2>. DEFINE new == started + 1
  <2>1. /\ started' = new /\ alive' = alive \cup {new} /\ proxied' = proxied \cup {new} /\ proxy' = new
        /\ screens' = screens \cup {new} /\ main' = new /\ error' = FALSE
    BY <1>3 DEF ProxyStarts, ShowMain
  <2>2. /\ new \in Backend /\ new # Nothing /\ Counts(l.at) = 1
        /\ new \notin alive \cup proxied \cup screens
        /\ \A n \in alive \cup proxied \cup screens : n <= new
        /\ new + Cardinality(MayStart(launches)) - 1 <= asked
        /\ sidecar # Nothing => sidecar # new /\ sidecar <= new
    BY <1>1, NumberIsNew
  <2>. HIDE DEF new
  <2>3. new \in Nat /\ new <= new
    BY <2>2 DEF Backend
  <2>4. ShellTypes'
    BY <1>1, <1>2, <2>1, <2>2, <2>3 DEF ShellInv, ShellTypes, Backend, Run
  <2>5. StartsAreCounted'
    <3>1. new + Cardinality(MayStart(launches')) <= asked
      BY <1>2, <2>2, <2>3, ShellNumbers
    <3>. QED BY <1>1, <1>2, <2>1, <3>1 DEF StartsAreCounted, MayStart
  <2>6. NumbersAreKnown'
    BY <1>1, <2>1, <2>2, <2>3 DEF ShellInv, NumbersAreKnown, Services
  <2>7. Services' = Services
    BY <2>1, <2>2 DEF Services
  <2>8. MainPCHasNone' /\ OneRun'
    BY <1>1, <1>2, <2>7 DEF ShellInv, MainPCHasNone, OneRun
  <2>. QED BY <2>4, <2>5, <2>6, <2>8 DEF ShellInv
<1>4. CASE ProxyFails(l)
  <2>1. /\ UNCHANGED <<proxied, started>> /\ alive' = alive \ {proxy} /\ proxy' = Nothing
        /\ screens' = screens \ {main} /\ main' = Nothing /\ error' = TRUE
    BY <1>4 DEF ProxyFails, ShowError, ErrorOpens
  <2>2. ShellTypes'
    BY <1>1, <1>2, <2>1 DEF ShellInv, ShellTypes, Backend, Run
  <2>3. StartsAreCounted'
    <3>1. Counts(l.at) = 1
      BY <1>1 DEF Counts, Starting
    <3>2. started + Cardinality(MayStart(launches')) <= asked
      BY <1>2, <3>1, ShellNumbers
    <3>. QED BY <1>1, <1>2, <2>1, <3>2 DEF StartsAreCounted, MayStart
  <2>4. NumbersAreKnown'
    BY <1>1, <2>1 DEF ShellInv, NumbersAreKnown, Services
  <2>5. Services' = Services
    BY <2>1, ShellNumbers DEF Services, ShellInv, ShellTypes, NumbersAreKnown
  <2>6. MainPCHasNone' /\ OneRun'
    BY <1>1, <1>2, <2>5 DEF ShellInv, MainPCHasNone, OneRun
  <2>. QED BY <2>2, <2>3, <2>4, <2>6 DEF ShellInv
<1>. QED BY <1>3, <1>4

\* The end of the proxy takes no service with it.
LEMMA ProxyIsNoService == ShellInv => alive \ proxied = (alive \ {proxy}) \ proxied
BY ShellNumbers DEF ShellInv, ShellTypes, NumbersAreKnown

\* What was running has been stopped, and launch begins.
LEMMA StopEnds ==
    ASSUME ShellInv, app # "gone", NEW l \in launches, Stopped(l)
    PROVE  ShellInv'
<1>1. /\ l.at = "stop" /\ l.service \notin alive /\ StillHere
      /\ sidecar' = Nothing /\ proxy' = Nothing /\ alive' = alive \ {proxy} /\ Goes(l, "launch", Nothing)
      /\ UNCHANGED <<isMainPC, patient, paired, proxied, watched, started, main, screens, error, setup, app, leaving,
                      asked>>
  BY DEF Stopped, pcVars, windowVars, appVars
<1>2. /\ launches' \subseteq Run /\ IsFiniteSet(launches')
      /\ Cardinality(MayStart(launches')) \in Nat
      /\ Cardinality(MayStart(launches')) <= Cardinality(MayStart(launches)) - Counts(l.at) + Counts("launch")
      /\ \A k \in launches' : \/ k \in launches /\ k # l
                              \/ k.at = "launch" /\ k.service = Nothing /\ k.closeSetup = l.closeSetup
      /\ patient => \A k \in launches' : k.at = "launch" /\ k.service = Nothing
      /\ patient => \A k, m \in launches' : k = m
  BY <1>1, RunGoes
<1>3. ShellTypes'
  BY <1>1, <1>2 DEF ShellInv, ShellTypes, Backend, Run
<1>4. StartsAreCounted'
  <2>1. Counts(l.at) = 1 /\ Counts("launch") = 1
    BY <1>1 DEF Counts, Starting
  <2>2. started + Cardinality(MayStart(launches')) <= asked
    BY <1>2, <2>1, ShellNumbers
  <2>. QED BY <1>1, <1>2, <2>2 DEF StartsAreCounted, MayStart
<1>5. NumbersAreKnown'
  BY <1>1 DEF ShellInv, NumbersAreKnown, Services
<1>6. Services' = Services
  BY <1>1, ProxyIsNoService DEF Services
<1>7. MainPCHasNone'
  BY <1>1, <1>2, <1>6 DEF ShellInv, MainPCHasNone
<1>8. OneRun'
  <2>. SUFFICES ASSUME patient PROVE OneRun'
    BY <1>1 DEF OneRun
  <2>1. l.service = sidecar /\ Services = {}
    BY <1>1 DEF ShellInv, OneRun, Services
  <2>2. app = "running"
    BY <1>1, <2>1 DEF StillHere, ShellInv, ShellTypes, OneRun
  <2>. QED BY <1>1, <1>2, <1>6, <2>1, <2>2 DEF OneRun
<1>. QED BY <1>3, <1>4, <1>5, <1>7, <1>8 DEF ShellInv

\* The user asks for another start.
LEMMA RestartIsAsked ==
    ASSUME ShellInv, RestartFromError \/ PairAndFinish \/ UseSingle
    PROVE  ShellInv'
<1>1. PICK closeSetup \in BOOLEAN :
          /\ AskRestart(closeSetup) /\ paired' \in {"none", "good", "unreadable"}
          /\ isMainPC => paired' = "good" \/ (paired' = paired /\ ~ closeSetup)
  BY DEF RestartFromError, PairAndFinish, UseSingle, MayUseSingle, ShellInv, ShellTypes
<1>. DEFINE x == Start(asked + 1, "stop", sidecar, closeSetup)
<1>2. /\ app = "running" /\ (patient => launches = {}) /\ asked < MaxStarts /\ asked' = asked + 1
      /\ launches' = launches \cup {x}
      /\ UNCHANGED <<isMainPC, patient, alive, proxied, watched, started, sidecar, proxy, main, screens, error, setup,
                      app, leaving>>
  BY <1>1 DEF AskRestart, ToStop, pcVars, backendVars, heldVars, windowVars
<1>3. asked' \in 1 .. MaxStarts /\ asked + 1 \in 1 .. MaxStarts
  BY <1>2, ShellNumbers
<1>4. x \in Run /\ x.at = "stop" /\ x.service = sidecar /\ x.closeSetup = closeSetup
  BY <1>3 DEF Start, Run, ShellInv, ShellTypes
<1>. HIDE DEF x
<1>5. ShellTypes'
  BY <1>1, <1>2, <1>3, <1>4 DEF ShellInv, ShellTypes, Backend, Run
<1>6. StartsAreCounted'
  <2>1. /\ IsFiniteSet(launches')
        /\ Cardinality(MayStart(launches')) <= Cardinality(MayStart(launches)) + Counts(x.at)
    BY <1>2, ShellNumbers, MayStartWith
  <2>2. Counts(x.at) = 1 /\ Cardinality(MayStart(launches')) \in Nat
    BY <1>4, <2>1, MayStartIsFinite DEF Counts, Starting
  <2>3. started + Cardinality(MayStart(launches')) <= asked'
    BY <1>2, <2>1, <2>2, ShellNumbers
  <2>. QED BY <1>2, <2>1, <2>3 DEF StartsAreCounted, MayStart
<1>7. NumbersAreKnown'
  BY <1>2 DEF ShellInv, NumbersAreKnown, Services
<1>8. MainPCHasNone'
  BY <1>1, <1>2, <1>4 DEF ShellInv, MainPCHasNone, Services
<1>9. OneRun'
  BY <1>2, <1>4 DEF ShellInv, OneRun, Services
<1>. QED BY <1>5, <1>6, <1>7, <1>8, <1>9 DEF ShellInv

\* Windows come and go, and a service ends by itself or as it was asked to.
LEMMA WindowsMove ==
    ASSUME ShellInv, OpenSetup \/ (\E p \in alive : Exit(p)) \/ UNCHANGED shellVars
    PROVE  ShellInv'
<1>1. /\ UNCHANGED <<isMainPC, patient, paired, proxied, started, sidecar, proxy, launches, app, leaving, asked>>
      /\ alive' \subseteq alive /\ screens' \subseteq screens
      /\ watched' \subseteq watched /\ watched \cap alive' \subseteq watched'
  BY DEF OpenSetup, Exit, ShowError, shellVars, pcVars, backendVars, heldVars, windowVars, appVars
<1>2. error' \in BOOLEAN /\ setup' \in BOOLEAN /\ main' \in Backend \cup {Nothing}
  BY DEF OpenSetup, Exit, ShowError, ErrorOpens, shellVars, windowVars, ShellInv, ShellTypes
<1>3. ShellTypes'
  BY <1>1, <1>2 DEF ShellInv, ShellTypes, Backend, Run
<1>4. StartsAreCounted'
  BY <1>1 DEF ShellInv, StartsAreCounted, MayStart
<1>5. NumbersAreKnown'
  BY <1>1 DEF ShellInv, NumbersAreKnown, Services
<1>6. Services' \subseteq Services
  BY <1>1 DEF Services
<1>7. MainPCHasNone'
  BY <1>1, <1>6 DEF ShellInv, MainPCHasNone
<1>8. OneRun'
  BY <1>1, <1>6 DEF ShellInv, OneRun
<1>. QED BY <1>3, <1>4, <1>5, <1>7, <1>8 DEF ShellInv

\* The app quits, or begins to: what it leaves behind is the proxy's.
LEMMA AppEnds ==
    ASSUME ShellInv,
           UNCHANGED <<isMainPC, patient, paired, proxied, started, sidecar, proxy, asked>>,
           \/ UNCHANGED <<app, leaving, alive>>
           \/ app = "running" /\ BeginQuit
           \/ AppGone
    PROVE  /\ alive' \subseteq Backend /\ Services' = Services /\ alive' \subseteq alive
           /\ app' \in {"running", "quitting", "gone"} /\ leaving' \in Backend \cup {Nothing}
           /\ patient /\ app' = "quitting" => leaving' = sidecar' /\ leaving' # Nothing
           /\ patient /\ app' = "gone" => Services' = {}
<1>1. ShellTypes /\ OneRun
  BY DEF ShellInv
<1>2. CASE UNCHANGED <<app, leaving, alive>>
  BY <1>1, <1>2 DEF ShellTypes, OneRun, Services
<1>3. CASE app = "running" /\ BeginQuit /\ sidecar = Nothing
  <2>1. app' = "gone" /\ alive' = alive \ {proxy} /\ UNCHANGED leaving
    BY <1>3 DEF BeginQuit
  <2>2. Services' = Services
    BY <2>1, ProxyIsNoService DEF Services
  <2>3. patient => Services = {}
    BY <1>1, <1>3, ShellNumbers DEF OneRun, ShellTypes, Services
  <2>. QED BY <1>1, <2>1, <2>2, <2>3 DEF ShellTypes
<1>4. CASE app = "running" /\ BeginQuit /\ sidecar # Nothing
  <2>1. app' = "quitting" /\ leaving' = sidecar /\ UNCHANGED alive
    BY <1>4 DEF BeginQuit
  <2>. QED BY <1>1, <1>4, <2>1 DEF ShellTypes, Services
<1>5. CASE AppGone
  <2>1. app = "quitting" /\ leaving \notin alive /\ app' = "gone" /\ alive' = alive \ {proxy} /\ UNCHANGED leaving
    BY <1>5 DEF AppGone
  <2>2. Services' = Services
    BY <2>1, ProxyIsNoService DEF Services
  <2>3. patient => Services = {}
    BY <1>1, <2>1 DEF OneRun, Services
  <2>. QED BY <1>1, <2>1, <2>2, <2>3 DEF ShellTypes
<1>. QED BY <1>2, <1>3, <1>4, <1>5

LEMMA WindowsClose ==
    ASSUME ShellInv, CloseScreen \/ CloseError \/ Quit \/ AppGone
    PROVE  ShellInv'
<1>1. /\ UNCHANGED <<isMainPC, patient, paired, proxied, watched, started, sidecar, proxy, asked, launches, setup>>
      /\ \/ UNCHANGED <<app, leaving, alive>>
         \/ app = "running" /\ BeginQuit
         \/ AppGone
  BY DEF CloseScreen, CloseError, Quit, AppGone, AfterClose, BeginQuit, pcVars, heldVars, windowVars, appVars
<1>2. /\ screens' \subseteq screens /\ main' \in {main, Nothing} /\ error' \in BOOLEAN
  BY DEF CloseScreen, CloseError, Quit, AppGone, windowVars, ShellInv, ShellTypes
<1>3. /\ alive' \subseteq Backend /\ Services' = Services /\ alive' \subseteq alive
      /\ app' \in {"running", "quitting", "gone"} /\ leaving' \in Backend \cup {Nothing}
      /\ patient /\ app' = "quitting" => leaving' = sidecar' /\ leaving' # Nothing
      /\ patient /\ app' = "gone" => Services' = {}
  BY <1>1, AppEnds
<1>4. ShellTypes'
  BY <1>1, <1>2, <1>3 DEF ShellInv, ShellTypes, Backend, Run
<1>5. StartsAreCounted' /\ NumbersAreKnown'
  BY <1>1, <1>2, <1>3 DEF ShellInv, StartsAreCounted, NumbersAreKnown, MayStart, Services
<1>6. MainPCHasNone' /\ OneRun'
  BY <1>1, <1>2, <1>3 DEF ShellInv, MainPCHasNone, OneRun
<1>. QED BY <1>4, <1>5, <1>6 DEF ShellInv

\* Runs that were to close this setup window are told not to.
LEMMA SetupCloses == ASSUME ShellInv, CloseSetup PROVE ShellInv'
<1>. DEFINE Left(l) == [l EXCEPT !.closeSetup = FALSE]
<1>1. /\ UNCHANGED <<isMainPC, patient, paired, proxied, watched, started, sidecar, proxy, asked, main, screens, error>>
      /\ setup' = FALSE /\ launches' = {Left(l) : l \in launches}
      /\ UNCHANGED <<app, leaving, alive>> \/ (app = "running" /\ BeginQuit) \/ AppGone
  BY DEF CloseSetup, AfterClose, BeginQuit, pcVars, heldVars, appVars
<1>2. ASSUME NEW l \in launches
      PROVE  /\ Left(l) \in Run /\ Left(l).at = l.at /\ Left(l).service = l.service /\ Left(l).closeSetup = FALSE
  BY DEF Run, ShellInv, ShellTypes
<1>. HIDE DEF Left
<1>3. /\ alive' \subseteq Backend /\ Services' = Services /\ alive' \subseteq alive
      /\ app' \in {"running", "quitting", "gone"} /\ leaving' \in Backend \cup {Nothing}
      /\ patient /\ app' = "quitting" => leaving' = sidecar' /\ leaving' # Nothing
      /\ patient /\ app' = "gone" => Services' = {}
  BY <1>1, AppEnds
<1>4. ShellTypes'
  BY <1>1, <1>2, <1>3 DEF ShellInv, ShellTypes, Backend, Run
<1>5. StartsAreCounted'
  <2>. DEFINE M == MayStart(launches)  N == MayStart(launches')  f == [l \in M |-> Left(l)]  g == [l \in launches |-> Left(l)]
  <2>1. IsFiniteSet(launches) /\ IsFiniteSet(M) /\ Cardinality(M) \in Nat
    BY ShellNumbers, MayStartIsFinite
  <2>2. g \in Surjection(launches, launches')
    BY <1>1 DEF Surjection
  <2>3. IsFiniteSet(launches')
    BY <2>1, <2>2, FS_Surjection
  <2>4. N = {Left(l) : l \in M}
    BY <1>1, <1>2 DEF MayStart
  <2>5. f \in Surjection(M, N)
    BY <2>4 DEF Surjection
  <2>. HIDE DEF M, N, f, g
  <2>6. IsFiniteSet(N) /\ Cardinality(N) <= Cardinality(M)
    BY <2>1, <2>5, FS_Surjection
  <2>7. Cardinality(N) \in Nat
    BY <2>6, FS_CardinalityType
  <2>8. started + Cardinality(N) <= asked
    BY <2>1, <2>6, <2>7, ShellNumbers DEF M
  <2>. QED BY <1>1, <2>3, <2>8 DEF StartsAreCounted, N, MayStart
<1>6. NumbersAreKnown'
  BY <1>1, <1>3 DEF ShellInv, NumbersAreKnown, Services
<1>7. MainPCHasNone'
  BY <1>1, <1>2, <1>3 DEF ShellInv, MainPCHasNone
<1>8. OneRun'
  <2>. SUFFICES ASSUME patient PROVE OneRun'
    BY <1>1 DEF OneRun
  <2>1. OneRun /\ sidecar' = sidecar /\ screens' = screens /\ launches' = {Left(l) : l \in launches}
    BY <1>1 DEF ShellInv
  <2>2. \A l, k \in launches' : l = k
    BY <2>1 DEF OneRun
  <2>3. ASSUME NEW k \in launches'
        PROVE  /\ k.at \in {"launch", "port", "proxy"} => sidecar = Nothing
               /\ k.at \in {"stop", "health", "failed"} => k.service = sidecar
    <3>1. PICK l \in launches : k = Left(l)
      BY <2>1
    <3>2. k.at = l.at /\ k.service = l.service
      BY <1>2, <3>1
    <3>. QED BY <2>1, <3>2 DEF OneRun
  <2>4. Services' \subseteq {sidecar}
    BY <1>3, <2>1 DEF OneRun
  <2>. QED BY <1>3, <2>1, <2>2, <2>3, <2>4 DEF OneRun
<1>. QED BY <1>4, <1>5, <1>6, <1>7, <1>8 DEF ShellInv

LEMMA ShellKeeps == ShellInv /\ [ShellNext]_shellVars => ShellInv'
<1>. SUFFICES ASSUME ShellInv, [ShellNext]_shellVars PROVE ShellInv'
  OBVIOUS
<1>1. ASSUME NEW l \in launches, app # "gone", Continues(l) \/ Stopped(l) PROVE ShellInv'
  BY <1>1, RunsGoOn, RunsEnd, ServiceStarts, ProxyStep, StopEnds DEF Continues
<1>2. CASE RestartFromError \/ PairAndFinish \/ UseSingle
  BY <1>2, RestartIsAsked
<1>3. CASE OpenSetup \/ (\E p \in alive : Exit(p)) \/ UNCHANGED shellVars
  BY <1>3, WindowsMove
<1>4. CASE CloseScreen \/ CloseError \/ Quit \/ AppGone
  BY <1>4, WindowsClose
<1>5. CASE CloseSetup
  BY <1>5, SetupCloses
<1>. QED BY <1>1, <1>2, <1>3, <1>4, <1>5 DEF ShellNext

LEMMA ShellSafe == ShellInv => ShellTypeOK /\ OneService
<1>. SUFFICES ASSUME ShellInv PROVE ShellTypeOK /\ OneService
  OBVIOUS
<1>1. started \in 0 .. asked
  BY ShellNumbers
<1>2. ShellTypeOK
  BY <1>1 DEF ShellInv, ShellTypes, ShellTypeOK
<1>3. patient => Cardinality(Services) <= 1
  <2>1. SUFFICES ASSUME patient PROVE Cardinality(Services) <= 1
    OBVIOUS
  <2>2. Services \subseteq {sidecar}
    BY <2>1 DEF ShellInv, OneRun
  <2>3. IsFiniteSet({sidecar}) /\ Cardinality({sidecar}) = 1
    BY FS_Singleton
  <2>. QED BY <2>2, <2>3, FS_Subset
<1>. QED BY <1>2, <1>3 DEF ShellInv, MainPCHasNone, OneRun, OneService

\* Whatever ends, a window that showed it is told.
LEMMA DeathTold ==
    ASSUME ShellInv, [ShellNext]_shellVars, patient, app = "running", NEW p \in Services \ alive', p \in screens
    PROVE  error'
<1>1. p # proxy /\ p \in alive /\ p \notin proxied
  BY ShellNumbers DEF Services, ShellInv, ShellTypes, NumbersAreKnown
<1>2. CASE Exit(p)
  <2>1. sidecar = p
    BY DEF ShellInv, OneRun
  <2>2. p \in watched
    BY DEF ShellInv, NumbersAreKnown
  <2>. QED BY <1>2, <2>1, <2>2 DEF Exit, Told, ShowError, ErrorOpens
<1>3. CASE \E q \in alive : Exit(q) /\ q # p
  BY <1>1, <1>3 DEF Exit
<1>4. CASE \E l \in launches : Continues(l) \/ Stopped(l)
  BY <1>1, <1>4 DEF Continues, Stopped, LaunchRefused, LaunchClient, LaunchUnreadable, LaunchOnMainPC, LaunchSingle,
                    Spawn, Healthy, Unhealthy, LaunchFailed, ProxyStarts, ProxyFails, backendVars
<1>5. CASE RestartFromError \/ PairAndFinish \/ UseSingle \/ OpenSetup \/ UNCHANGED shellVars
  BY <1>1, <1>5 DEF RestartFromError, PairAndFinish, UseSingle, AskRestart, OpenSetup, shellVars, backendVars
<1>6. CASE CloseScreen \/ CloseError \/ CloseSetup \/ Quit \/ AppGone
  BY <1>1, <1>6 DEF CloseScreen, CloseError, CloseSetup, Quit, AppGone, AfterClose, BeginQuit
<1>. QED BY <1>2, <1>3, <1>4, <1>5, <1>6 DEF ShellNext

\* Whatever closes a window opens another, but for the user.
LEMMA WindowStays ==
    ASSUME ShellInv, [ShellNext]_shellVars, patient, app = "running", Windows, app' = "running"
    PROVE  Windows'
<1>1. CASE \E q \in alive : Exit(q)
  BY <1>1 DEF Exit, ShowError, ErrorOpens, Windows
<1>2. ASSUME NEW l \in launches, Continues(l) \/ Stopped(l) PROVE Windows'
  <2>1. CASE LaunchOnMainPC(l)
    <3>1. ~ l.closeSetup
      BY <2>1 DEF LaunchOnMainPC, ShellInv, MainPCHasNone
    <3>. QED BY <2>1, <3>1 DEF LaunchOnMainPC, Windows
  <2>2. CASE LaunchRefused(l) \/ LaunchUnreadable(l) \/ LaunchFailed(l) \/ ProxyFails(l)
    BY <2>2 DEF LaunchRefused, LaunchUnreadable, LaunchFailed, ProxyFails, ShowError, ErrorOpens, Windows
  <2>3. CASE Healthy(l) \/ ProxyStarts(l)
    BY <2>3 DEF Healthy, ProxyStarts, ShowMain, Windows
  <2>4. CASE UNCHANGED windowVars
    BY <2>4 DEF windowVars, Windows
  <2>. QED BY <1>2, <2>1, <2>2, <2>3, <2>4 DEF Continues, Stopped, LaunchClient, LaunchSingle, Spawn, Unhealthy
<1>3. CASE RestartFromError \/ PairAndFinish \/ UseSingle \/ OpenSetup \/ UNCHANGED shellVars
  <2>1. CASE OpenSetup
    BY <2>1 DEF OpenSetup, Windows
  <2>2. CASE RestartFromError \/ PairAndFinish \/ UseSingle \/ UNCHANGED shellVars
    <3>1. UNCHANGED windowVars
      BY <2>2 DEF RestartFromError, PairAndFinish, UseSingle, AskRestart, shellVars
    <3>. QED BY <3>1 DEF windowVars, Windows
  <2>. QED BY <1>3, <2>1, <2>2
<1>4. CASE CloseScreen \/ CloseError \/ CloseSetup \/ Quit \/ AppGone
  BY <1>4 DEF CloseScreen, CloseError, CloseSetup, Quit, AppGone, AfterClose, BeginQuit, Windows
<1>. QED BY <1>1, <1>2, <1>3, <1>4 DEF ShellNext

\* However starts, deaths, windows and the quit overlap: with a user who waits no
\* two services run, a dead one is told, and the shell does not vanish (main.ts,
\* sidecar.ts).
THEOREM ShellKeepsWatch == ShellSpec => []OneService /\ DeathIsTold /\ NeverVanishes
<1>1. ShellSpec => []ShellInv
  BY ShellStarts, ShellKeeps, PTL DEF ShellSpec
<1>2. ShellInv /\ [ShellNext]_shellVars
          => [patient /\ app = "running" => \A p \in Services \ alive' : p \in screens => error']_shellVars
  BY DeathTold
<1>3. ShellInv /\ [ShellNext]_shellVars
          => [patient /\ app = "running" /\ Windows /\ app' = "running" => Windows']_shellVars
  BY WindowStays
<1>. QED BY <1>1, <1>2, <1>3, ShellSafe, PTL DEF ShellSpec, DeathIsTold, NeverVanishes

-----------------------------------------------------------------------------
(* All of them.                                                            *)

AllWindowsInv == WebInv /\ QtInv /\ ShellInv

LEMMA SettledIsSound == Settled => ShellInv
<1>. SUFFICES ASSUME Settled PROVE ShellInv
  OBVIOUS
<1>1. 1 \in Backend /\ 1 \in 1 .. MaxStarts /\ 1 # Nothing
  BY ShellAssumption DEF Backend
<1>2. ShellTypes
  BY <1>1 DEF Settled, ShellTypes
<1>3. StartsAreCounted
  <2>1. MayStart({}) = {} /\ IsFiniteSet({}) /\ Cardinality({}) = 0
    BY FS_EmptySet DEF MayStart
  <2>. QED BY <2>1 DEF Settled, StartsAreCounted
<1>4. NumbersAreKnown /\ MainPCHasNone /\ OneRun
  BY <1>1 DEF Settled, NumbersAreKnown, MainPCHasNone, OneRun, Services
<1>. QED BY <1>2, <1>3, <1>4 DEF ShellInv

LEMMA AllWindowsStart == WindowsInit => AllWindowsInv
BY WebStarts, QtStarts, ShellStarts, SettledIsSound DEF WindowsInit, AllWindowsInv

LEMMA AllWindowsStep == AllWindowsInv /\ [WindowsNext]_windowsVars => AllWindowsInv'
<1>. SUFFICES ASSUME AllWindowsInv, [WindowsNext]_windowsVars PROVE AllWindowsInv'
  OBVIOUS
<1>1. [WebSessionNext]_webVars
  BY DEF WindowsNext, Shell, Session, Qt, windowsVars
<1>2. [QtNext]_qtVars
  BY DEF WindowsNext, Shell, Session, Qt, windowsVars
<1>3. [ShellNext]_shellVars
  BY DEF WindowsNext, Shell, Session, Qt, windowsVars
<1>. QED BY <1>1, <1>2, <1>3, WebStep, QtStep, ShellKeeps DEF AllWindowsInv

LEMMA AllWindowsSafe == AllWindowsInv => WindowsTypeOK
BY WebSafe, QtSafe, ShellSafe DEF AllWindowsInv, WindowsTypeOK

\* Whichever of the windows is followed, its variables keep their types
\* (main.ts, AuthContext.tsx, main_window.py).
THEOREM WindowsKeepTypes == WindowsSpec => []WindowsTypeOK
BY AllWindowsStart, AllWindowsStep, AllWindowsSafe, PTL DEF WindowsSpec

=============================================================================
