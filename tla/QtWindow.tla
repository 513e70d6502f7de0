------------------------------- MODULE QtWindow --------------------------------
(***************************************************************************)
(* The Qt application: the login and main windows (app/ui/main_window.py), *)
(* the lock screen (lock_screen_dialog.py) and the slow work of its pages, *)
(* which one thread does beside the event loop (background.py,             *)
(* table_report_window.py).  Whatever runs in the event loop is one step;  *)
(* a dialog that waits for its user runs an event loop of its own, in      *)
(* which timers and the results of the thread go on.                       *)
(***************************************************************************)
EXTENDS Integers, Sequences, FiniteSets

CONSTANTS MaxTasks,    \* bound: pieces of work given to the thread
          MaxPages,    \* bound: pages opened
          MaxLogins    \* bound: sessions

ASSUME QtWindowAssumption == {MaxTasks, MaxPages, MaxLogins} \subseteq Nat

VARIABLES face,      \* the window that is shown: "login" or "main"
          seat,      \* its session: "valid", "expired", or "ended" by the application
          logins,    \* sessions so far
          ticking,   \* _session_timer
          dialogs,   \* dialogs that wait for the user, the newest last
          page,      \* the page that is open, or NoPage
          pages,     \* pages opened so far
          widgets,   \* pages whose widgets exist
          enabled,   \* pages whose buttons are enabled
          showing,   \* of each page, the number of the work whose result it shows
          made,      \* pieces of work so far
          waiting,   \* the queue of the pool
          working,   \* what its threads work on
          results,   \* signals on their way back to the event loop
          cursors    \* wait cursors set and not restored

sessionVars == <<face, seat, logins, ticking>>
pageVars == <<page, pages, widgets>>
poolVars == <<waiting, working, results>>
workVars == <<enabled, showing, made, poolVars, cursors>>
qtVars == <<sessionVars, dialogs, pageVars, workVars>>

NoPage == 0
Nobody == "ended"

\* Dialogs are application-modal: only the newest one can be used.
Free == dialogs = <<>>
OnTop(d) == ~Free /\ dialogs[Len(dialogs)] = d
Below == SubSeq(dialogs, 1, Len(dialogs) - 1)

-----------------------------------------------------------------------------
(* Work for the thread.                                                    *)

\* run_in_background.
Give(p, kind) ==
    /\ made < MaxTasks
    /\ made' = made + 1
    /\ waiting' = Append(waiting, [no |-> made + 1, page |-> p, kind |-> kind])
    /\ enabled' = enabled \ {p}
    /\ cursors' = cursors + 1
    /\ UNCHANGED <<showing, working, results>>

\* Bug: the work is given to the pool of all.
ThreadsOfAll == 2

\* setMaxThreadCount.
Threads == 1

StartWork ==
    /\ waiting # <<>> /\ Cardinality(working) < Threads
    /\ working' = working \cup {waiting[1]}
    /\ waiting' = Tail(waiting)
    /\ UNCHANGED <<sessionVars, dialogs, pageVars, enabled, showing, made, results, cursors>>

\* The signal is queued for the event loop.
EndWork ==
    /\ \E t \in working, ok \in BOOLEAN :
           /\ working' = working \ {t}
           /\ results' = Append(results, [work |-> t, ok |-> ok])
    /\ UNCHANGED <<sessionVars, dialogs, pageVars, enabled, showing, made, waiting, cursors>>

\* Bug: the buttons of a page that is gone are touched, which raises before
\* the cursor is restored.
RestoredIfThere(p) == IF p \in widgets THEN cursors - 1 ELSE cursors

\* is_widget_alive.
Restored(p) == cursors - 1

\* _restore, then on_done or on_error: a report or its error, or a preview.
Deliver ==
    /\ results # <<>>
    /\ LET t == results[1].work IN
           /\ enabled' = enabled \cup ({t.page} \cap widgets)
           /\ cursors' = Restored(t.page)
           /\ showing' = IF t.kind = "refresh" /\ t.page \in widgets
                         THEN [showing EXCEPT ![t.page] = t.no] ELSE showing
           /\ dialogs' = IF t.kind = "print" /\ results[1].ok /\ t.page \in widgets
                         THEN Append(dialogs, "preview") ELSE dialogs
    /\ results' = Tail(results)
    /\ UNCHANGED <<sessionVars, pageVars, made, waiting, working>>

ClosePreview ==
    /\ OnTop("preview") /\ dialogs' = Below
    /\ UNCHANGED <<sessionVars, pageVars, workVars>>

-----------------------------------------------------------------------------
(* Pages.                                                                  *)

\* A page fetches its report when it is made.
OpenPage ==
    /\ Free /\ face = "main" /\ pages < MaxPages
    /\ pages' = pages + 1 /\ page' = pages + 1
    /\ widgets' = widgets \cup {pages + 1}
    /\ Give(pages + 1, "refresh")
    /\ UNCHANGED <<sessionVars, dialogs>>

LeavePage ==
    /\ Free /\ page # NoPage /\ page' = NoPage
    /\ UNCHANGED <<sessionVars, dialogs, pages, widgets, workVars>>

\* deleteLater, or the window of a session that is over.
Destroyed ==
    /\ \E p \in widgets \ {page} : widgets' = widgets \ {p}
    /\ UNCHANGED <<sessionVars, dialogs, page, pages, workVars>>

\* A button of the page.
Press ==
    /\ Free /\ page \in enabled
    /\ \E kind \in {"refresh", "print"} : Give(page, kind)
    /\ UNCHANGED <<sessionVars, dialogs, pageVars>>

\* F5 asks the page to refresh whatever its buttons are.
PressF5 ==
    /\ Free /\ page # NoPage /\ Give(page, "refresh")
    /\ UNCHANGED <<sessionVars, dialogs, pageVars>>

-----------------------------------------------------------------------------
(* The session.                                                            *)

\* _show_main_window.
SignIn ==
    /\ Free /\ face = "login" /\ logins < MaxLogins
    /\ face' = "main" /\ seat' = "valid" /\ logins' = logins + 1 /\ ticking' = TRUE
    /\ UNCHANGED <<dialogs, pageVars, workVars>>

\* expires_at goes by.
Expire ==
    /\ seat = "valid" /\ seat' = "expired"
    /\ UNCHANGED <<face, logins, ticking, dialogs, pageVars, workVars>>

\* Bug: the timer rests while the screen is locked.
MayTickUnlocked == ticking /\ ~OnTop("lock")

MayTick == ticking

\* _check_session finds the session over, also from within a dialog.
CheckSession ==
    /\ MayTick /\ seat = "expired"
    /\ seat' = Nobody /\ ticking' = FALSE
    /\ dialogs' = Append(dialogs, "expired")
    /\ UNCHANGED <<face, logins, pageVars, workVars>>

\* _on_logout.
ToLogin == face' = "login" /\ page' = NoPage

AcknowledgeExpiry ==
    /\ OnTop("expired") /\ dialogs' = Below
    /\ ToLogin
    /\ UNCHANGED <<seat, logins, ticking, pages, widgets, workVars>>

\* Bug: the session is left open.
SeatAfterLogoutOpen == seat

SeatAfterLogout == Nobody

\* _logout.
EndSession ==
    /\ ticking' = FALSE /\ seat' = SeatAfterLogout
    /\ ToLogin
    /\ UNCHANGED <<logins, pages, widgets, workVars>>

Logout == Free /\ face = "main" /\ EndSession /\ UNCHANGED dialogs

OpenLock ==
    /\ Free /\ face = "main" /\ dialogs' = <<"lock">>
    /\ UNCHANGED <<sessionVars, pageVars, workVars>>

\* The dialog cannot be closed otherwise, not even with its main window.
Unlock ==
    /\ OnTop("lock") /\ dialogs' = Below
    /\ UNCHANGED <<sessionVars, pageVars, workVars>>

SignOutInstead == OnTop("lock") /\ dialogs' = Below /\ EndSession

-----------------------------------------------------------------------------
QtInit ==
    /\ face = "login" /\ seat = Nobody /\ logins = 0 /\ ticking = FALSE
    /\ dialogs = <<>>
    /\ page = NoPage /\ pages = 0 /\ widgets = {}
    /\ enabled = {} /\ showing = [p \in 1 .. MaxPages |-> 0] /\ made = 0
    /\ waiting = <<>> /\ working = {} /\ results = <<>> /\ cursors = 0

QtNext ==
    \/ StartWork \/ EndWork \/ Deliver \/ ClosePreview
    \/ OpenPage \/ LeavePage \/ Destroyed \/ Press \/ PressF5
    \/ SignIn \/ Expire \/ CheckSession \/ AcknowledgeExpiry
    \/ Logout \/ OpenLock \/ Unlock \/ SignOutInstead

\* The timer of the window goes off once a minute.
QtSpec == QtInit /\ [][QtNext]_qtVars /\ WF_qtVars(CheckSession)

-----------------------------------------------------------------------------
(* Properties.                                                             *)

\* The variables hold what the code keeps in them.
QtTypeOK ==
    /\ face \in {"login", "main"} /\ seat \in {"valid", "expired", Nobody}
    /\ logins \in 0 .. MaxLogins /\ ticking \in BOOLEAN
    /\ \A i \in DOMAIN dialogs : dialogs[i] \in {"lock", "expired", "preview"}
    /\ pages \in 0 .. MaxPages /\ page \in 0 .. pages
    /\ widgets \subseteq 1 .. pages /\ enabled \subseteq 1 .. pages
    /\ showing \in [1 .. MaxPages -> 0 .. made] /\ made \in 0 .. MaxTasks
    /\ cursors \in 0 .. made

\* Nobody goes on working in a main window whose session is over: it is
\* covered by the message that says so, also when another dialog was open
\* (_check_session, _logout, _lock_screen).
OverMeansOut ==
    [](face = "main" /\ seat = Nobody => \E i \in DOMAIN dialogs : dialogs[i] = "expired")

\* A session that nobody sits at is over.
LoginMeansOver == [](face = "login" => seat = Nobody)

\* A page never goes back from the result of a later request to that of an
\* earlier one, although F5 asks again while the first is under way (refresh,
\* the pool's only thread).
NewestResultStays == [][\A p \in DOMAIN showing : showing'[p] >= showing[p]]_qtVars

\* The wait cursor is set as often as work is under way, and so it is gone
\* with the last piece, also when the page that asked is (_restore,
\* is_widget_alive).
CursorCountsWork == [](cursors = Len(waiting) + Cardinality(working) + Len(results))

\* Whoever sits at an expired session is told, also behind the lock screen
\* (_check_session: its timer "is untouched by this method").
ExpiryIsTold == seat = "expired" ~> seat # "expired"

\* What the Qt windows are trusted with.
QtKeepsItsWord ==
    /\ OverMeansOut /\ LoginMeansOver /\ NewestResultStays
    /\ CursorCountsWork /\ ExpiryIsTold

\* lock_screen_dialog.py:5: a locked session is "visually blocked behind this
\* modal dialog until unlocked".  The preview of a report that was asked for
\* before opens in front of the lock screen.
LockedShowsNothing ==
    [][Len(dialogs') > Len(dialogs) /\ dialogs' # <<"lock">> =>
           dialogs'[Len(dialogs')] = "expired"
               \/ \A i \in DOMAIN dialogs : dialogs[i] # "lock"]_qtVars

\* background.py:157: buttons "are disabled for the duration".  After F5 the
\* first result enables them while the second request is still under way.
DisabledForTheDuration ==
    \A p \in enabled :
        /\ \A i \in DOMAIN waiting : waiting[i].page # p
        /\ \A t \in working : t.page # p
        /\ \A i \in DOMAIN results : results[i].work.page # p

=============================================================================
