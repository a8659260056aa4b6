------------------------------- MODULE Launcher -------------------------------
(***************************************************************************)
(* The life of the X11 launcher (src/examples/launcher/                    *)
(* pt_wsi_window_x11.cpp): the main thread starts the draw-request thread  *)
(* and the app thread, handles window events, and tears everything down;   *)
(* m_loop ends all three.  The app is src/examples/launcher/               *)
(* pt_wsi_window_app.cpp, which loads one texture and returns.  The X      *)
(* server is external: it sends any events, at any time or never.          *)
(***************************************************************************)

VARIABLES
    loop,           \* m_loop
    drawRunning,    \* m_draw_request_thread_running
    appRunning,     \* m_app_thread_running
    main,           \* where the main thread is
    draw,           \* where the draw-request thread is, "none" before it exists
    app,            \* where the app thread is
    connection,     \* m_gfx_connection: "null", "live" or "destroyed"
    appObject,      \* m_wsi_window_app, likewise
    window          \* the X window and its connection

vars == <<loop, drawRunning, appRunning, main, draw, app, connection, appObject, window>>

\* init, from its member section on: the window is up, no thread exists.
Init ==
    /\ loop = TRUE
    /\ drawRunning = FALSE
    /\ appRunning = FALSE
    /\ main = "create draw"
    /\ draw = "none"
    /\ app = "none"
    /\ connection = "null"
    /\ appObject = "null"
    /\ window = "live"

MainGoes(from, to) == main = from /\ main' = to
DrawGoes(from, to) == draw = from /\ draw' = to
AppGoes(from, to) == app = from /\ app' = to

objects == <<connection, appObject, window>>
flags == <<loop, drawRunning, appRunning>>

-----------------------------------------------------------------------------
(* The main thread: init                                                   *)

CreateDraw ==
    /\ MainGoes("create draw", "await draw")
    /\ draw' = "init"
    /\ UNCHANGED <<flags, app, objects>>

\* The spin on m_draw_request_thread_running ends; the app thread starts.
CreateApp ==
    /\ drawRunning
    /\ MainGoes("await draw", "await app")
    /\ app' = "init"
    /\ UNCHANGED <<flags, draw, objects>>

EndInit ==
    /\ appRunning
    /\ MainGoes("await app", "run")
    /\ UNCHANGED <<flags, draw, app, objects>>

-----------------------------------------------------------------------------
(* The main thread: run                                                    *)

RunWaits ==
    /\ loop
    /\ MainGoes("run", "wait for event")
    /\ UNCHANGED <<flags, draw, app, objects>>

RunEnds ==
    /\ ~loop
    /\ MainGoes("run", "join app")
    /\ UNCHANGED <<flags, draw, app, objects>>

\* An event of the X server, or NULL when the connection fails.
Event ==
    /\ \/ MainGoes("wait for event", "key")
       \/ MainGoes("wait for event", "resize")
       \/ MainGoes("wait for event", "delete")
       \/ MainGoes("wait for event", "run")
       \/ MainGoes("wait for event", "join app")
    /\ UNCHANGED <<flags, draw, app, objects>>

\* XCB_KEY_PRESS goes to the app, XCB_CONFIGURE_NOTIFY to the gfx connection.
HandleEvent ==
    /\ MainGoes("key", "run") \/ MainGoes("resize", "run")
    /\ UNCHANGED <<flags, draw, app, objects>>

\* A WM_DELETE_WINDOW that only tells the app.
HandleDeleteQuietly ==
    /\ MainGoes("delete", "quit app")
    /\ UNCHANGED <<flags, draw, app, objects>>

\* WM_DELETE_WINDOW clears m_loop, then sends the app MESSAGE_CODE_QUIT.
HandleDelete ==
    /\ MainGoes("delete", "quit app")
    /\ loop' = FALSE
    /\ UNCHANGED <<drawRunning, appRunning, draw, app, objects>>

QuitApp ==
    /\ MainGoes("quit app", "run")
    /\ UNCHANGED <<flags, draw, app, objects>>

-----------------------------------------------------------------------------
(* The main thread: destroy                                                *)

JoinApp ==
    /\ app = "returned" /\ appRunning
    /\ MainGoes("join app", "destroy app")
    /\ UNCHANGED <<flags, draw, app, objects>>

DestroyApp ==
    /\ MainGoes("destroy app", "join draw")
    /\ appObject' = "destroyed"
    /\ UNCHANGED <<flags, draw, app, connection, window>>

\* Teardown that trusts the flag, without the join.
JoinDrawByFlag ==
    /\ ~drawRunning \/ ~loop
    /\ MainGoes("join draw", "disconnect")
    /\ UNCHANGED <<flags, draw, app, objects>>

JoinDraw ==
    /\ draw = "returned" /\ ~drawRunning
    /\ MainGoes("join draw", "disconnect")
    /\ UNCHANGED <<flags, draw, app, objects>>

Disconnect ==
    /\ MainGoes("disconnect", "done")
    /\ window' = "destroyed"
    /\ UNCHANGED <<flags, draw, app, connection, appObject>>

-----------------------------------------------------------------------------
(* draw_request_main                                                       *)

\* A thread that says it runs before it has its connection.
DrawInitEarlyFlag ==
    /\ DrawGoes("init", "started")
    /\ drawRunning' = TRUE
    /\ UNCHANGED <<loop, appRunning, main, app, objects>>

DrawInit ==
    /\ DrawGoes("init", "started")
    /\ connection' = "live"
    /\ UNCHANGED <<flags, main, app, appObject, window>>

DrawStarted ==
    /\ DrawGoes("started", "loop")
    /\ drawRunning' = TRUE
    /\ UNCHANGED <<loop, appRunning, main, app, objects>>

\* One round: on_redraw_needed_acquire and release, on the window.
DrawFrame ==
    /\ \/ loop /\ DrawGoes("loop", "frame")
       \/ DrawGoes("frame", "loop")
    /\ UNCHANGED <<flags, main, app, objects>>

DrawEnds ==
    /\ ~loop
    /\ DrawGoes("loop", "ending")
    /\ connection' = "destroyed"
    /\ UNCHANGED <<flags, main, app, appObject, window>>

DrawReturns ==
    /\ DrawGoes("ending", "returned")
    /\ drawRunning' = FALSE
    /\ UNCHANGED <<loop, appRunning, main, app, objects>>

-----------------------------------------------------------------------------
(* app_main and the app                                                    *)

AppInit ==
    /\ AppGoes("init", "started")
    /\ appObject' = "live"
    /\ UNCHANGED <<flags, main, draw, connection, window>>

AppStarted ==
    /\ AppGoes("started", "load texture")
    /\ appRunning' = TRUE
    /\ UNCHANGED <<loop, drawRunning, main, draw, objects>>

AppLoads ==
    /\ AppGoes("load texture", "finished")
    /\ UNCHANGED <<flags, main, draw, objects>>

AppReturns ==
    /\ AppGoes("finished", "returned")
    /\ loop' = FALSE
    /\ UNCHANGED <<drawRunning, appRunning, main, draw, objects>>

-----------------------------------------------------------------------------

Main ==
    \/ CreateDraw \/ CreateApp \/ EndInit
    \/ RunWaits \/ RunEnds \/ HandleEvent \/ HandleDelete \/ QuitApp
    \/ JoinApp \/ DestroyApp \/ JoinDraw \/ Disconnect
Draw == DrawInit \/ DrawStarted \/ DrawFrame \/ DrawEnds \/ DrawReturns
App == AppInit \/ AppStarted \/ AppLoads \/ AppReturns

Next == Main \/ Event \/ Draw \/ App

\* The threads are scheduled; no event need ever come.
Spec == Init /\ [][Next]_vars /\ WF_vars(Main) /\ WF_vars(Draw) /\ WF_vars(App)

-----------------------------------------------------------------------------

States == {"null", "live", "destroyed"}

(* Places and states are those of the code, and a thread's running flag is *)
(* set only after the thread has made what others use of it.               *)
TypeOK ==
    /\ loop \in BOOLEAN /\ drawRunning \in BOOLEAN /\ appRunning \in BOOLEAN
    /\ main \in {"create draw", "await draw", "await app", "run", "wait for event",
                 "key", "resize", "delete", "quit app", "join app", "destroy app",
                 "join draw", "disconnect", "done"}
    /\ draw \in {"none", "init", "started", "loop", "frame", "ending", "returned"}
    /\ app \in {"none", "init", "started", "load texture", "finished", "returned"}
    /\ connection \in States /\ appObject \in States /\ window \in {"live", "destroyed"}
    /\ drawRunning <=> draw \in {"loop", "frame", "ending"}
    /\ appRunning <=> app \in {"load texture", "finished", "returned"}

Running == {"run", "wait for event", "key", "resize", "delete", "quit app"}

(* init's asserts: a thread that uses what another thread makes starts     *)
(* only when it is made.  The app thread has a gfx connection, and run     *)
(* has both the connection and the app.                                    *)
StartedInOrder ==
    /\ TypeOK
    /\ app # "none" => connection # "null"
    /\ main \in Running => connection # "null" /\ appObject # "null"

(* destroy takes nothing from under a thread: the window goes when draw    *)
(* and app have returned and the gfx connection is gone, and the app       *)
(* object, which run's events use, when run and the app thread are over.   *)
TornDownInOrder ==
    /\ window = "destroyed" =>
          draw = "returned" /\ app = "returned" /\ connection = "destroyed"
    /\ appObject = "destroyed" => main \notin Running /\ app = "returned"

(* Once the window is closed, the process ends: neither the event loop nor *)
(* the joins of destroy wait for something that does not come.             *)
CloseEnds == (main = "quit app") ~> (main = "done")
=============================================================================
