------------------------------- MODULE MCWindows ------------------------------
(***************************************************************************)
(* The windows of one PC: the Electron shell that opens them, who is       *)
(* signed in at the web screens inside, and the Qt application that can be *)
(* started in their place.  A behaviour follows one of the three; the      *)
(* others are frozen in a state in which nothing is under way.             *)
(***************************************************************************)
EXTENDS DesktopShell, WebSession, QtWindow

VARIABLE followed   \* the part that moves

windowsVars == <<followed, shellVars, webVars, qtVars>>

Settled ==
    /\ isMainPC = FALSE /\ pathTooLong = FALSE /\ patient = TRUE /\ paired = "none"
    /\ alive = {1} /\ proxied = {} /\ started = 1 /\ watched = {1}
    /\ sidecar = 1 /\ proxy = Nothing
    /\ main = 1 /\ screens = {1} /\ error = FALSE /\ setup = FALSE
    /\ launches = {} /\ asked = 1
    /\ app = "running" /\ leaving = Nothing

WindowsInit ==
    /\ WebSessionInit /\ QtInit
    /\ \/ followed = "shell" /\ ShellInit /\ link = "local"
       \/ followed = "session" /\ Settled
       \/ followed = "qt" /\ Settled /\ link = "local"

Shell(A) == followed = "shell" /\ A /\ UNCHANGED <<followed, webVars, qtVars>>
Session(A) == followed = "session" /\ A /\ UNCHANGED <<followed, shellVars, qtVars>>
Qt(A) == followed = "qt" /\ A /\ UNCHANGED <<followed, shellVars, webVars>>

WindowsNext == Shell(ShellNext) \/ Session(WebSessionNext) \/ Qt(QtNext)

WindowsSpec ==
    /\ WindowsInit /\ [][WindowsNext]_windowsVars
    /\ WF_windowsVars(Shell(ShellGoesOn))
    /\ WF_windowsVars(Session(SendRead))
    /\ WF_windowsVars(Session(\E m \in calls : m.kind = "read" /\ (Serve(m) \/ Take(m))))
    /\ WF_windowsVars(Session(PollHealth))
    /\ WF_windowsVars(Session(TryStream)) /\ WF_windowsVars(Session(StreamEnds))
    /\ WF_windowsVars(Qt(CheckSession))

-----------------------------------------------------------------------------
\* The variables of the parts hold what the code keeps in them.
WindowsTypeOK == ShellTypeOK /\ WebSessionTypeOK /\ QtTypeOK

\* What the windows of a PC are trusted with: what main.ts and sidecar.ts
\* promise of services and windows, what AuthContext.tsx, client.ts and
\* live.ts promise of the person signed in, and what main_window.py and
\* background.py promise of a session and of the work behind a page.
WindowsKeepTheirWord ==
    ShellKeepsItsWord /\ WebSessionKeepsItsWord /\ QtKeepsItsWord

=============================================================================
