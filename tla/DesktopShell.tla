----------------------------- MODULE DesktopShell -----------------------------
(***************************************************************************)
(* The Electron shell around the screens (desktop/src/main.ts, sidecar.ts):*)
(* it starts the local service or, on a Client PC, the proxy to the Main   *)
(* PC, opens its windows, tells the user when the service dies, starts     *)
(* again on request and stops everything when the app quits.  Its handlers *)
(* run on one thread and are interleaved where they await; a run of launch *)
(* or restart is one record of launches.                                   *)
(***************************************************************************)
EXTENDS Integers, FiniteSets

CONSTANTS MaxStarts,   \* bound: starts asked for, the first included
          Nothing      \* no service, no proxy, no window

ASSUME ShellAssumption == MaxStarts \in Nat \ {0} /\ Nothing \notin 1 .. MaxStarts

VARIABLES isMainPC,   \* lan.json says so: no service of its own here
          pathTooLong,   \* a packaged app was installed in a folder too deep
          patient,    \* the user waits for a start before asking for the next
          paired,     \* device bundle on disk: "none", "good" or "unreadable"
          alive,      \* backends running: services and proxies, by number
          proxied,    \* the numbers that were given to proxies
          started,    \* backends started so far
          watched,    \* services whose exit launch waits for
          sidecar,    \* the variable of that name
          proxy,      \* the variable of that name
          main,       \* mainWindow: the backend it shows, or Nothing
          screens,    \* backends of the application windows that exist
          error,      \* is the error window open?
          setup,      \* is the setup window open?
          launches,   \* runs of launch and restart that have not ended
          asked,      \* runs begun so far
          app,        \* "running", "quitting" or "gone"
          leaving     \* the service that the quit waits for

pcVars == <<isMainPC, pathTooLong, patient>>
backendVars == <<alive, proxied, started, watched>>
heldVars == <<sidecar, proxy>>
windowVars == <<main, screens, error, setup>>
appVars == <<app, leaving, asked>>
shellVars == <<pcVars, paired, backendVars, heldVars, windowVars, launches, appVars>>

Backend == 1 .. MaxStarts

\* A run: its number, where it awaits, which service that is about, and whether
\* the setup window that asked for it goes at its end (finishSetup).
Start(no, at, service, closeSetup) ==
    [no |-> no, at |-> at, service |-> service, closeSetup |-> closeSetup]

Windows == screens # {} \/ error \/ setup

Ends(l) ==
    /\ launches' = launches \ {l}
    /\ setup' = (setup /\ ~l.closeSetup)

\* Bug: a failed or slow step is begun again beside the first.
GoesTwice(l, at, service) ==
    launches' = launches \cup {[l EXCEPT !.at = at, !.service = service]}

Goes(l, at, service) ==
    launches' = (launches \ {l}) \cup {[l EXCEPT !.at = at, !.service = service]}

-----------------------------------------------------------------------------
(* What the handlers share.                                                *)

\* Bug: while the setup window is open no error window is.
ErrorUnlessSetup == error \/ ~setup

\* showError opens its window if there is none.
ErrorOpens == TRUE

\* showError destroys the window mainWindow knows of.
ShowError ==
    /\ error' = ErrorOpens
    /\ screens' = screens \ {main}
    /\ main' = Nothing

\* createMainWindow, and then the error window is destroyed.
ShowMain(backend) ==
    /\ screens' = screens \cup {backend}
    /\ main' = backend
    /\ error' = FALSE

-----------------------------------------------------------------------------
(* launch, once what was running has been stopped.                         *)

\* installPathProblem.
LaunchRefused(l) ==
    /\ l.at = "launch" /\ pathTooLong
    /\ ShowError
    /\ Ends(l)
    /\ UNCHANGED <<pcVars, paired, backendVars, heldVars, appVars>>

LaunchClient(l) ==
    /\ l.at = "launch" /\ ~pathTooLong /\ paired = "good"
    /\ Goes(l, "proxy", Nothing)
    /\ UNCHANGED <<pcVars, paired, backendVars, heldVars, windowVars, appVars>>

LaunchUnreadable(l) ==
    /\ l.at = "launch" /\ ~pathTooLong /\ paired = "unreadable"
    /\ ShowError
    /\ launches' = launches \ {l}
    /\ setup' = ~l.closeSetup
    /\ UNCHANGED <<pcVars, paired, backendVars, heldVars, appVars>>

LaunchOnMainPC(l) ==
    /\ l.at = "launch" /\ ~pathTooLong /\ paired = "none" /\ isMainPC
    /\ launches' = launches \ {l}
    /\ setup' = ~l.closeSetup
    /\ UNCHANGED <<pcVars, paired, backendVars, heldVars, main, screens, error, appVars>>

\* findFreePort is awaited before the process is spawned.
LaunchSingle(l) ==
    /\ l.at = "launch" /\ ~pathTooLong /\ paired = "none" /\ ~isMainPC
    /\ Goes(l, "port", Nothing)
    /\ UNCHANGED <<pcVars, paired, backendVars, heldVars, windowVars, appVars>>

\* Once the service a quit waits for is gone the app exits before anything
\* else that is awaited can answer.
StillHere == app = "running" \/ leaving \in alive

Spawn(l) ==
    /\ l.at = "port" /\ StillHere
    /\ started' = started + 1
    /\ alive' = alive \cup {started'}
    /\ sidecar' = started'
    /\ Goes(l, "health", started')
    /\ UNCHANGED <<pcVars, paired, proxied, watched, proxy, windowVars, appVars>>

\* waitUntilHealthy returns, the window is opened, and from now on somebody
\* waits for the exit.
Healthy(l) ==
    /\ l.at = "health" /\ l.service \in alive /\ StillHere
    /\ ShowMain(l.service)
    /\ watched' = watched \cup {l.service}
    /\ Ends(l)
    /\ UNCHANGED <<pcVars, paired, alive, proxied, started, heldVars, appVars>>

\* It throws: there is no port, the process has died or it does not answer.
\* What sidecar holds is stopped, whoever started it.
Unhealthy(l) ==
    /\ l.at \in {"port", "health"} /\ StillHere
    /\ Goes(l, "failed", sidecar)
    /\ UNCHANGED <<pcVars, paired, backendVars, heldVars, windowVars, appVars>>

LaunchFailed(l) ==
    /\ l.at = "failed" /\ l.service \notin alive /\ StillHere
    /\ sidecar' = Nothing
    /\ ShowError
    /\ Ends(l)
    /\ UNCHANGED <<pcVars, paired, backendVars, proxy, appVars>>

ProxyStarts(l) ==
    /\ l.at = "proxy" /\ StillHere
    /\ started' = started + 1
    /\ alive' = alive \cup {started'}
    /\ proxied' = proxied \cup {started'}
    /\ proxy' = started'
    /\ ShowMain(started')
    /\ Ends(l)
    /\ UNCHANGED <<pcVars, paired, watched, sidecar, appVars>>

ProxyFails(l) ==
    /\ l.at = "proxy" /\ StillHere
    /\ alive' = alive \ {proxy}
    /\ proxy' = Nothing
    /\ ShowError
    /\ Ends(l)
    /\ UNCHANGED <<pcVars, paired, proxied, started, watched, sidecar, appVars>>

Continues(l) ==
    \/ LaunchRefused(l)
    \/ LaunchClient(l) \/ LaunchUnreadable(l) \/ LaunchOnMainPC(l) \/ LaunchSingle(l)
    \/ Spawn(l) \/ Healthy(l) \/ Unhealthy(l) \/ LaunchFailed(l)
    \/ ProxyStarts(l) \/ ProxyFails(l)

-----------------------------------------------------------------------------
(* restart.                                                                *)

\* Bug: nothing is stopped before the next start.
ToStopNothing == Nothing

\* stopBackends asks what sidecar holds to stop.
ToStop == sidecar

\* The error window's button, and the setup window when it has finished.
AskRestart(closeSetup) ==
    /\ app = "running"
    /\ patient => launches = {}
    /\ asked < MaxStarts
    /\ asked' = asked + 1
    /\ launches' = launches \cup {Start(asked', "stop", ToStop, closeSetup)}
    /\ UNCHANGED <<pcVars, backendVars, heldVars, windowVars, app, leaving>>

RestartFromError ==
    /\ error
    /\ AskRestart(FALSE)
    /\ UNCHANGED paired

\* lan:enrol or lan:importFile, and then lan:finish.
PairAndFinish ==
    /\ setup
    /\ paired' = "good"
    /\ AskRestart(TRUE)

\* Bug: the Main PC may be told to run on its own.
MayUseSingleAnywhere == TRUE

\* mainPcHere.
MayUseSingle == ~isMainPC

\* lan:useSingle.
UseSingle ==
    /\ setup /\ MayUseSingle
    /\ paired' = "none"
    /\ AskRestart(TRUE)

\* shell:networkSetup comes from the window that mainWindow knows.
OpenSetup ==
    /\ app = "running" /\ main # Nothing
    /\ setup' = TRUE
    /\ UNCHANGED <<pcVars, paired, backendVars, heldVars, main, screens, error, launches,
                   appVars>>

\* The rest of stopBackends: both variables are emptied, and launch begins.
Stopped(l) ==
    /\ l.at = "stop" /\ l.service \notin alive /\ StillHere
    /\ sidecar' = Nothing /\ proxy' = Nothing
    /\ alive' = alive \ {proxy}
    /\ Goes(l, "launch", Nothing)
    /\ UNCHANGED <<pcVars, paired, proxied, started, watched, windowVars, appVars>>

-----------------------------------------------------------------------------
(* A service ends: asked to, killed after the wait, or by itself.          *)

\* Bug: only a death whose window is still known is told.
ToldIfMain(service) == app = "running" /\ main = service

\* The handler of launch that waits for the exit.
Told(service) == app = "running" /\ sidecar = service

Exit(service) ==
    /\ service \in alive \ proxied
    /\ alive' = alive \ {service}
    /\ watched' = watched \ {service}
    /\ IF service \in watched /\ Told(service)
       THEN ShowError
       ELSE UNCHANGED <<main, screens, error>>
    /\ UNCHANGED <<pcVars, paired, proxied, started, heldVars, setup, launches, appVars>>

\* Bug: a service that does not stop by itself at the quit is not killed.
AskedByRestart(service) == \E l \in launches : l.at \in {"stop", "failed"} /\ l.service = service

\* stopSidecar kills it after the wait.
Asked(service) ==
    \/ app = "quitting" /\ leaving = service
    \/ \E l \in launches : l.at \in {"stop", "failed"} /\ l.service = service

-----------------------------------------------------------------------------
(* The user closes windows and quits.                                      *)

\* before-quit: a service is asked to stop and waited for.
BeginQuit ==
    IF sidecar = Nothing
    THEN /\ app' = "gone"
         /\ alive' = alive \ {proxy}
         /\ UNCHANGED <<leaving, asked>>
    ELSE /\ app' = "quitting"
         /\ leaving' = sidecar
         /\ UNCHANGED <<alive, asked>>

\* window-all-closed quits.
AfterClose(windowsLeft) ==
    /\ app = "running"
    /\ IF windowsLeft THEN UNCHANGED <<appVars, alive>> ELSE BeginQuit
    /\ UNCHANGED <<pcVars, paired, proxied, started, watched, heldVars>>

\* Any 'closed' of an application window forgets the newest one.
CloseScreen ==
    /\ \E w \in screens : screens' = screens \ {w}
    /\ main' = Nothing
    /\ AfterClose(screens' # {} \/ error \/ setup)
    /\ UNCHANGED <<error, setup, launches>>

CloseError ==
    /\ error /\ error' = FALSE
    /\ AfterClose(screens # {} \/ setup)
    /\ UNCHANGED <<main, screens, setup, launches>>

\* A run that was to destroy this setup window leaves the next one alone.
CloseSetup ==
    /\ setup /\ setup' = FALSE
    /\ launches' = {[l EXCEPT !.closeSetup = FALSE] : l \in launches}
    /\ AfterClose(screens # {} \/ error)
    /\ UNCHANGED <<main, screens, error>>

Quit ==
    /\ app = "running"
    /\ BeginQuit
    /\ UNCHANGED <<pcVars, paired, proxied, started, watched, heldVars, windowVars, launches>>

\* Its service has stopped: the proxy is closed and the app exits.
AppGone ==
    /\ app = "quitting" /\ leaving \notin alive
    /\ app' = "gone"
    /\ alive' = alive \ {proxy}
    /\ UNCHANGED <<pcVars, paired, proxied, started, watched, heldVars, windowVars, launches,
                   leaving, asked>>

-----------------------------------------------------------------------------
\* The first start; what the shell finds may be of any kind.
ShellInit ==
    /\ isMainPC \in BOOLEAN /\ pathTooLong \in BOOLEAN /\ patient \in BOOLEAN
    /\ paired \in {"none", "good", "unreadable"}
    /\ alive = {} /\ proxied = {} /\ started = 0 /\ watched = {}
    /\ sidecar = Nothing /\ proxy = Nothing
    /\ main = Nothing /\ screens = {} /\ error = FALSE /\ setup = FALSE
    /\ launches = {Start(1, "launch", Nothing, FALSE)} /\ asked = 1
    /\ app = "running" /\ leaving = Nothing

ShellNext ==
    /\ app # "gone"
    /\ \/ \E l \in launches : Continues(l) \/ Stopped(l)
       \/ RestartFromError \/ PairAndFinish \/ UseSingle \/ OpenSetup
       \/ \E p \in alive : Exit(p)
       \/ CloseScreen \/ CloseError \/ CloseSetup \/ Quit
       \/ AppGone

\* What is awaited comes or times out, and what was asked to stop is killed.
ShellGoesOn ==
    /\ app # "gone"
    /\ \/ \E l \in launches : Continues(l) \/ Stopped(l)
       \/ \E p \in alive : Asked(p) /\ Exit(p)
       \/ AppGone

ShellSpec == ShellInit /\ [][ShellNext]_shellVars /\ WF_shellVars(ShellGoesOn)

-----------------------------------------------------------------------------
(* Properties.                                                             *)

Run == [no : 1 .. MaxStarts,
        at : {"launch", "port", "health", "failed", "proxy", "stop"},
        service : Backend \cup {Nothing}, closeSetup : BOOLEAN]

\* The variables of the shell hold what they are declared for.
ShellTypeOK ==
    /\ paired \in {"none", "good", "unreadable"}
    /\ alive \subseteq Backend /\ proxied \subseteq Backend /\ watched \subseteq Backend
    /\ started \in 0 .. asked /\ asked \in 1 .. MaxStarts
    /\ {sidecar, proxy, main, leaving} \subseteq Backend \cup {Nothing}
    /\ screens \subseteq Backend
    /\ launches \subseteq Run
    /\ app \in {"running", "quitting", "gone"}

Services == alive \ proxied

\* With a user who waits for a start before asking for the next, no two
\* services ever work on the one database, none runs on the Main PC (whose
\* service is another), and none outlives the app.
OneService ==
    /\ patient => Cardinality(Services) <= 1
    /\ isMainPC => Services = {}
    /\ patient /\ app = "gone" => Services = {}

\* A dead service is told to whoever has its window open, also where that is
\* not the newest window (main.ts:253: "say so clearly instead of leaving a
\* dead window").
DeathIsTold ==
    [][patient /\ app = "running" =>
           \A p \in Services \ alive' : p \in screens => error']_shellVars

\* The shell never closes its last window by itself, however starting, dying
\* and setting up overlap (main.ts:164: "the user would see it simply vanish").
NeverVanishes == [][patient /\ app = "running" /\ Windows /\ app' = "running" => Windows']_shellVars

\* Every start ends in a window or the end of the app, and a quit ends it.
ShellSettles ==
    launches # {} \/ app = "quitting"
        ~> app = "gone" \/ (launches = {} /\ app = "running")

\* What the shell is trusted with.
ShellKeepsItsWord ==
    /\ []OneService
    /\ DeathIsTold
    /\ NeverVanishes
    /\ ShellSettles

\* sidecar.ts:137: one service at a time, stopped before the next.  "Try again"
\* pressed twice starts two.
OneServiceWhoeverAsks == Cardinality(Services) <= 1

\* main.ts:257: "stopped unexpectedly".  It is also said of a service that a
\* restart has asked to stop.
OnlyUnexpectedIsTold ==
    [][\A p \in Services \ alive' : Asked(p) => error' = error]_shellVars

\* One application window: the old one stays when a PC that was a client is
\* set up again, and shows a proxy that is closed.
OneScreen == patient => Cardinality(screens) <= 1

=============================================================================
