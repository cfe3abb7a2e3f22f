--------------------------- MODULE TerminalDisplay ---------------------------
(***************************************************************************)
(* A live display and the terminal it keeps to itself (ui/display.py,      *)
(* ui/capture.py), as the preparation's DataDashboard                      *)
(* (data_preparation/lib/ui/dashboard.py) and as the TrainingDashboard     *)
(* (training/ui/board.py, training/ui/capture.py): starting and closing,   *)
(* the prompt, log lines and kept records, a terminal that goes away, a    *)
(* frame that does not render, SIGHUP.                                     *)
(*                                                                         *)
(* A thread is the list of the steps it still has to take, todo[t]: a call *)
(* puts the steps of the callee in front.  The threads are main, a worker  *)
(* that logs, and the refresh thread of each rich Live, named like it.  A  *)
(* signal handler runs on main between two of its steps.  rich itself is   *)
(* external: a Live draws under a lock of its own and its stop draws one   *)
(* last frame and erases it.  What a frame shows is left out.              *)
(***************************************************************************)
EXTENDS Integers, Sequences, FiniteSets

CONSTANTS
    main, worker,
    Lives,      \* bound: the Lives a run may start, one more than its prompts
    None,
    Boards,     \* may the display be a TrainingDashboard (TRUE), a DataDashboard (FALSE)
    Notes,      \* bound: the kept records the worker logs, one each
    Breaks,     \* a frame may fail to render
    Loses,      \* the terminal may go away
    Hups        \* bound: the SIGHUPs the process gets

Threads == {main, worker} \cup Lives
Locks == {"display", "handler"} \cup Lives  \* _lock, the handler's, rich's
Records == Notes \cup {"line", "lost", "broken"}  \* line: a stray one without a newline

VARIABLES
    todo,     \* the steps each thread has left
    lock,     \* who holds a lock, and how often
    at,       \* main: outside, inside the with block, left
    display,  \* the LiveDisplay
    rich,     \* its Lives
    capture,  \* the log handler is on, the streams are sinks, an unfinished line
    signal,   \* SIGHUP: our handler is installed, how many may still come
    tty,      \* the terminal is there, frames render, a frame is on it
    written,  \* how often each record reached the terminal as a plain line
    unlogged  \* what the worker and main have not written yet

vars == <<todo, lock, at, display, rich, capture, signal, tty, written, unlogged>>

NewDisplay(board) ==
    [board |-> board, enabled |-> TRUE, live |-> None, headless |-> FALSE, broken |-> FALSE,
     console |-> "stream", plain |-> "stream", kept |-> <<>>,
     renderError |-> FALSE, tornDown |-> FALSE]

Training == display.board

\* attach: the training logger's own handler is there for the whole run
Attached(board) == [handler |-> board, streams |-> FALSE, line |-> FALSE]

Init ==
    /\ todo = [t \in Threads |-> <<>>]
    /\ lock = [l \in Locks |-> [by |-> None, depth |-> 0]]
    /\ at = "outside"
    /\ \E board \in Boards : display = NewDisplay(board) /\ capture = Attached(board)
    /\ rich = [used |-> {}, started |-> {}, starting |-> {}, ticking |-> {}, pending |-> {}]
    /\ signal = [ours |-> FALSE, left |-> Hups]
    /\ tty = [open |-> TRUE, renders |-> TRUE, frame |-> FALSE]
    /\ written = [r \in Records |-> 0]
    /\ unlogged = Notes \cup {"line"}

----------------------------------------------------------------------------
(* Steps and locks *)

Runs(t, op) == todo[t] # <<>> /\ Head(todo[t])[1] = op
Arg(t) == Head(todo[t])[2]
Rest(t) == Tail(todo[t])
Do(t, steps) == todo' = [todo EXCEPT ![t] = steps \o Rest(t)]
Done(t) == Do(t, <<>>)

Call(op) == <<op, None>>
Acquire(l) == <<"acquire", l>>
Release(l) == <<"release", l>>
LogOf(r) == <<"log", r>>

CanTake(t, l) == lock[l].by \in {None, t}
Holds(t, l) == lock[l].by = t

Take(t) ==
    /\ Runs(t, "acquire") /\ CanTake(t, Arg(t))
    /\ lock' = [lock EXCEPT ![Arg(t)] = [by |-> t, depth |-> @.depth + 1]]
    /\ Done(t)
    /\ UNCHANGED <<at, display, rich, capture, signal, tty, written, unlogged>>

Give(t) ==
    /\ Runs(t, "release")
    /\ lock' = [lock EXCEPT ![Arg(t)] = [by |-> IF @.depth = 1 THEN None ELSE t, depth |-> @.depth - 1]]
    /\ Done(t)
    /\ UNCHANGED <<at, display, rich, capture, signal, tty, written, unlogged>>

----------------------------------------------------------------------------
(* Log lines and kept records *)

\* a line written to a stream that is the terminal, unless that is gone
PrintLine(r, stream) ==
    written' = [x \in Records |->
        written[x] + IF x = r /\ stream = "stream" /\ tty.open THEN 1 ELSE 0]

\* Logger.callHandlers: the display's handler, else the console's own
Log(t) ==
    /\ Runs(t, "log")
    /\ IF capture.handler
       THEN Do(t, <<Acquire("handler"), <<"emit", Arg(t)>>, Release("handler")>>) /\ UNCHANGED written
       ELSE Done(t) /\ PrintLine(Arg(t), "stream")
    /\ UNCHANGED <<lock, at, display, rich, capture, signal, tty, unlogged>>

\* DashboardLogHandler.emit (is_attached takes _lock for a moment) and write
Emit(t) ==
    /\ Runs(t, "emit") /\ CanTake(t, "display")
    /\ IF display.enabled
       THEN Do(t, <<Acquire("display"), <<"append", Arg(t)>>, Release("display")>>) /\ UNCHANGED written
       ELSE Done(t) /\ PrintLine(Arg(t), display.plain)
    /\ UNCHANGED <<lock, at, display, rich, capture, signal, tty, unlogged>>

Keep(t) ==
    /\ Runs(t, "append")
    /\ display' = [display EXCEPT !.kept = IF Arg(t) \in Records THEN Append(@, Arg(t)) ELSE @]
    /\ Done(t)
    /\ UNCHANGED <<lock, at, rich, capture, signal, tty, written, unlogged>>

\* _print_kept
PrintKept(t) ==
    /\ Runs(t, "print_kept") /\ CanTake(t, "display")
    /\ display' = [display EXCEPT !.kept = <<>>]
    /\ written' = [r \in Records |->
            written[r] + IF display.console = "stream" /\ tty.open
                         THEN Cardinality({i \in DOMAIN display.kept : display.kept[i] = r}) ELSE 0]
    /\ Done(t)
    /\ UNCHANGED <<lock, at, rich, capture, signal, tty, unlogged>>

\* StreamCapture: an unfinished line is logged when the streams are handed back
Redirect(t) ==
    /\ Runs(t, "redirect")
    /\ capture' = [capture EXCEPT !.streams = TRUE]
    /\ Done(t)
    /\ UNCHANGED <<lock, at, display, rich, signal, tty, written, unlogged>>

ReleaseStreams(t) ==
    /\ Runs(t, "release_streams")
    /\ capture' = [capture EXCEPT !.streams = FALSE, !.line = FALSE]
    /\ Do(t, IF capture.line THEN <<LogOf("line")>> ELSE <<>>)
    /\ UNCHANGED <<lock, at, display, rich, signal, tty, written, unlogged>>

\* LoggingCapture; the training logger's own handler stays for all of attach
CaptureLogging(t) ==
    /\ Runs(t, "capture_logging")
    /\ capture' = [capture EXCEPT !.handler = TRUE]
    /\ Done(t)
    /\ UNCHANGED <<lock, at, display, rich, signal, tty, written, unlogged>>

ReleaseLogging(t) ==
    /\ Runs(t, "release_logging")
    /\ capture' = [capture EXCEPT !.handler = Training]
    /\ Done(t)
    /\ UNCHANGED <<lock, at, display, rich, signal, tty, written, unlogged>>

----------------------------------------------------------------------------
(* A Live: ResizeAwareLive over rich *)

\* a frame; whoever draws one holds rich's lock already
Frame(l) == <<Acquire("display"), <<"render", l>>, Release("display"), <<"flush", l>>>>

From(t, n) == SubSeq(todo[t], n, Len(todo[t]))

\* an error after which n - 1 steps of the frame are skipped: the callback
\* reports it, but during start it is raised, before a refresh thread runs
Raise(t, l, releases, n, callback) ==
    todo' = [todo EXCEPT ![t] = releases \o
        IF l \in rich.starting THEN <<Release(l), <<"start_failed", callback>>>> \o From(t, n + 2)
        ELSE <<Call(callback)>> \o From(t, n)]

\* ResizeAwareLive.refresh
Refresh(t) ==
    /\ Runs(t, "refresh")
    /\ Do(t, IF Arg(t) \in rich.pending THEN <<Call("terminal_lost")>> ELSE Frame(Arg(t)))
    /\ UNCHANGED <<lock, at, display, rich, capture, signal, tty, written, unlogged>>

\* __rich_console__: the board catches its own errors and leaves them to main
Render(t) ==
    /\ Runs(t, "render")
    /\ \/ tty.renders /\ Done(t) /\ UNCHANGED display
       \/ /\ ~tty.renders
          /\ Raise(t, Arg(t), <<Release("display")>>, 4, "display_failed")
          /\ UNCHANGED display
       \/ ~tty.renders /\ Training /\ Done(t) /\ display' = [display EXCEPT !.renderError = TRUE]
    /\ UNCHANGED <<lock, at, rich, capture, signal, tty, written, unlogged>>

ToTerminal == display.console = "stream"

\* the write of a frame; it fails on a terminal that is gone
Flush(t) ==
    /\ Runs(t, "flush")
    /\ IF ToTerminal /\ ~tty.open
       THEN Raise(t, Arg(t), <<>>, 2, "terminal_lost") /\ UNCHANGED tty
       ELSE Done(t) /\ tty' = [tty EXCEPT !.frame = @ \/ ToTerminal]
    /\ UNCHANGED <<lock, at, display, rich, capture, signal, written, unlogged>>

\* _start_live; Live.start draws the first frame, then starts its thread
StartLive(t) ==
    /\ Runs(t, "start_live")
    /\ Lives # rich.used
    /\ LET l == CHOOSE x \in Lives : x \notin rich.used IN
        /\ display' = [display EXCEPT !.live = l]
        /\ rich' = [rich EXCEPT !.used = @ \cup {l}]
        /\ Do(t, <<Acquire(l), <<"begin", l>>, <<"refresh", l>>, <<"spawn", l>>, Release(l)>>)
    /\ signal' = [signal EXCEPT !.ours = TRUE]
    /\ UNCHANGED <<lock, at, capture, tty, written, unlogged>>

Begin(t) ==
    /\ Runs(t, "begin")
    /\ rich' = [rich EXCEPT !.started = @ \cup {Arg(t)}, !.starting = @ \cup {Arg(t)}]
    /\ Done(t)
    /\ UNCHANGED <<lock, at, display, capture, signal, tty, written, unlogged>>

Spawn(t) ==
    /\ Runs(t, "spawn")
    /\ rich' = [rich EXCEPT !.ticking = @ \cup {Arg(t)}, !.starting = @ \ {Arg(t)}]
    /\ Done(t)
    /\ UNCHANGED <<lock, at, display, capture, signal, tty, written, unlogged>>

\* rich stopped the Live itself
StartFailed(t) ==
    /\ Runs(t, "start_failed")
    /\ rich' = [rich EXCEPT !.started = @ \ rich.starting, !.starting = {}]
    /\ display' = [display EXCEPT !.live = None]
    /\ Do(t, <<Call(Arg(t))>>)
    /\ UNCHANGED <<lock, at, capture, signal, tty, written, unlogged>>

\* the refresh thread, under rich's lock: one frame per interval, unless the
\* Live was stopped
Tick(l) ==
    /\ l \in rich.ticking /\ todo[l] = <<>> /\ CanTake(l, l)
    /\ lock' = [lock EXCEPT ![l] = [by |-> l, depth |-> 1]]
    /\ todo' = [todo EXCEPT ![l] = <<<<"refresh", l>>, Release(l)>>]
    /\ UNCHANGED <<at, display, rich, capture, signal, tty, written, unlogged>>

\* _stop_live
StopLive(t) ==
    /\ Runs(t, "stop_live")
    /\ display' = [display EXCEPT !.live = None]
    /\ LET l == display.live
       IN  Do(t, <<Call("restore_handler")>> \o
                 IF l = None THEN <<>> ELSE <<Acquire(l), <<"stop", l>>, Release(l)>>)
    /\ UNCHANGED <<lock, at, rich, capture, signal, tty, written, unlogged>>

\* off the main thread the handler stays
RestoreHandler(t) ==
    /\ Runs(t, "restore_handler")
    /\ signal' = [signal EXCEPT !.ours = @ /\ t # main]
    /\ Done(t)
    /\ UNCHANGED <<lock, at, display, rich, capture, tty, written, unlogged>>

\* Live.stop: the last frame is drawn and erased
Stop(t) ==
    /\ Runs(t, "stop")
    /\ rich' = [rich EXCEPT !.started = @ \ {Arg(t)}, !.ticking = @ \ {Arg(t)}]
    /\ Do(t, IF Arg(t) \in rich.started THEN <<<<"refresh", Arg(t)>>, <<"erase", Arg(t)>>>> ELSE <<>>)
    /\ UNCHANGED <<lock, at, display, capture, signal, tty, written, unlogged>>

Erase(t) ==
    /\ Runs(t, "erase")
    /\ IF ToTerminal /\ ~tty.open
       THEN /\ todo' = [todo EXCEPT ![t] = <<Release(Arg(t)), Call("terminal_lost")>> \o From(t, 3)]
            /\ UNCHANGED tty
       ELSE Done(t) /\ tty' = [tty EXCEPT !.frame = @ /\ ~ToTerminal]
    /\ UNCHANGED <<lock, at, display, rich, capture, signal, written, unlogged>>

----------------------------------------------------------------------------
(* What the display survives *)

\* _terminal_lost
TerminalLost(t) ==
    /\ Runs(t, "terminal_lost") /\ CanTake(t, "display")
    /\ display' = [display EXCEPT !.headless = TRUE]
    /\ Do(t, IF display.headless THEN <<>>
             ELSE <<Call("silence"), Call("disable"), Call("stop_live"), LogOf("lost")>>)
    /\ UNCHANGED <<lock, at, rich, capture, signal, tty, written, unlogged>>

\* _silence_terminal
Silence(t) ==
    /\ Runs(t, "silence")
    /\ display' = [display EXCEPT !.console = "null", !.plain = "null"]
    /\ Done(t)
    /\ UNCHANGED <<lock, at, rich, capture, signal, tty, written, unlogged>>

Disable(t) ==
    /\ Runs(t, "disable")
    /\ display' = [display EXCEPT !.enabled = FALSE]
    /\ Done(t)
    /\ UNCHANGED <<lock, at, rich, capture, signal, tty, written, unlogged>>

\* _display_failed
DisplayFailed(t) ==
    /\ Runs(t, "display_failed") /\ ~Training /\ CanTake(t, "display")
    /\ display' = [display EXCEPT !.broken = TRUE]
    /\ Do(t, IF display.broken THEN <<>> ELSE <<Call("disable"), Call("stop_live"), LogOf("broken")>>)
    /\ UNCHANGED <<lock, at, rich, capture, signal, tty, written, unlogged>>

\* Mutant: what was kept is printed before the streams are handed back.
TeardownPrinting ==
    <<Call("stop_live"), Call("print_kept"), Call("release_streams"), Call("release_logging")>>

Teardown == <<Call("stop_live"), Call("release_streams"), Call("release_logging"), Call("print_kept")>>

\* TrainingDashboard._disable
Demote(t) ==
    /\ Runs(t, "demote") \/ (Training /\ Runs(t, "display_failed"))
    /\ IF display.enabled
       THEN /\ display' = [display EXCEPT !.enabled = FALSE, !.tornDown = TRUE]
            /\ Do(t, Teardown \o <<LogOf("broken")>>)
       ELSE Done(t) /\ UNCHANGED display
    /\ UNCHANGED <<lock, at, rich, capture, signal, tty, written, unlogged>>

\* TrainingDashboard._check_render_error
CheckRenderError(t) ==
    /\ Runs(t, "check")
    /\ display' = [display EXCEPT !.renderError = FALSE]
    /\ Do(t, IF display.renderError THEN <<Call("demote")>> ELSE <<>>)
    /\ UNCHANGED <<lock, at, rich, capture, signal, tty, written, unlogged>>

\* bound: what goes wrong does so before a second Live
MayFail == Cardinality(rich.used) < 2

\* a SIGHUP with our handler; without it the process ends
Hangup ==
    /\ signal.ours /\ signal.left > 0 /\ MayFail
    /\ signal' = [signal EXCEPT !.left = @ - 1]
    /\ todo' = [todo EXCEPT ![main] = <<Call("sighup"), Call("resume_main")>> \o @]
    /\ UNCHANGED <<lock, at, display, rich, capture, tty, written, unlogged>>

\* the handler returns to where it interrupted main
HandlerReturns ==
    /\ Runs(main, "resume_main") /\ Done(main)
    /\ UNCHANGED <<lock, at, display, rich, capture, signal, tty, written, unlogged>>

\* _sighup: one line when the terminal answers
Sighup ==
    /\ Runs(main, "sighup")
    /\ Do(main, IF tty.open THEN <<LogOf("answered")>> ELSE <<Call("silence"), Call("hung_up")>>)
    /\ UNCHANGED <<lock, at, display, rich, capture, signal, tty, written, unlogged>>

\* Mutant: the handler closes the display itself.
HungUpAtOnce ==
    /\ Runs(main, "hung_up") /\ Do(main, <<Call("terminal_lost")>>)
    /\ UNCHANGED <<lock, at, display, rich, capture, signal, tty, written, unlogged>>

\* _terminal_hung_up: the teardown is left to the refresh thread, if one runs
HungUp ==
    /\ Runs(main, "hung_up")
    /\ Do(main, IF display.live = None THEN <<Call("terminal_lost")>> ELSE <<<<"pending", display.live>>>>)
    /\ UNCHANGED <<lock, at, display, rich, capture, signal, tty, written, unlogged>>

SetPending ==
    /\ Runs(main, "pending")
    /\ rich' = [rich EXCEPT !.pending = @ \cup {Arg(main)}]
    /\ Done(main)
    /\ UNCHANGED <<lock, at, display, capture, signal, tty, written, unlogged>>

----------------------------------------------------------------------------
(* The run *)

Begins(steps) == todo' = [todo EXCEPT ![main] = steps]
Idle == at = "inside" /\ todo[main] = <<>>

Setup == <<Call("capture_logging"), Call("redirect"), Call("start_live")>>

Enter ==
    /\ at = "outside"
    /\ at' = "inside" /\ Begins(Setup)
    /\ UNCHANGED <<lock, display, rich, capture, signal, tty, written, unlogged>>

\* a task, the status, a step's metrics: _guarded on the board
Update ==
    /\ Idle /\ Begins(IF Training THEN <<Call("check"), Call("update")>> ELSE <<Call("update")>>)
    /\ UNCHANGED <<lock, at, display, rich, capture, signal, tty, written, unlogged>>

ApplyUpdate ==
    /\ Runs(main, "update")
    /\ Do(main, IF Training /\ ~display.enabled THEN <<>> ELSE <<Acquire("display"), Release("display")>>)
    /\ UNCHANGED <<lock, at, display, rich, capture, signal, tty, written, unlogged>>

\* text without a newline on sys.stderr
Write ==
    /\ Idle /\ "line" \in unlogged
    /\ unlogged' = unlogged \ {"line"}
    /\ IF capture.streams THEN capture' = [capture EXCEPT !.line = TRUE] /\ UNCHANGED written
       ELSE PrintLine("line", "stream") /\ UNCHANGED capture
    /\ UNCHANGED <<todo, lock, at, display, rich, signal, tty>>

If(c, op) == IF c THEN <<Call(op)>> ELSE <<>>

\* suspended: what goes before and after a prompt
AroundPrompt(up, captured) ==
    If(up, "stop_live") \o If(captured, "release_streams") \o <<Call("prompt")>> \o
    If(captured, "redirect") \o If(up, "resume")

Suspend ==
    /\ Idle /\ ~Training /\ Lives # rich.used
    /\ Begins(AroundPrompt(display.live # None, capture.streams))
    /\ UNCHANGED <<lock, at, display, rich, capture, signal, tty, written, unlogged>>

Answer ==
    /\ Runs(main, "prompt") /\ Done(main)
    /\ UNCHANGED <<lock, at, display, rich, capture, signal, tty, written, unlogged>>

Resume ==
    /\ Runs(main, "resume") /\ Do(main, IF display.enabled THEN <<Call("start_live")>> ELSE <<>>)
    /\ UNCHANGED <<lock, at, display, rich, capture, signal, tty, written, unlogged>>

\* __exit__, by an exception or not: the pools whose workers log end inside
\* the with block, and wandb.finish comes before the dashboard is closed
Leave ==
    /\ Idle /\ todo[worker] = <<>> /\ at' = "leaving"
    /\ Begins(IF Training THEN <<Call("check"), Call("close")>> ELSE Teardown)
    /\ UNCHANGED <<lock, display, rich, capture, signal, tty, written, unlogged>>

\* Mutant: a display that is off counts as torn down.
CloseEnabled ==
    /\ Runs(main, "close") /\ Do(main, IF ~display.enabled THEN <<>> ELSE Teardown)
    /\ UNCHANGED <<lock, at, display, rich, capture, signal, tty, written, unlogged>>

\* TrainingDashboard.close
Close ==
    /\ Runs(main, "close") /\ Do(main, IF display.tornDown THEN <<>> ELSE Teardown)
    /\ UNCHANGED <<lock, at, display, rich, capture, signal, tty, written, unlogged>>

\* the worker logs a record that is kept
WorkerLogs ==
    /\ todo[worker] = <<>> /\ at = "inside"
    /\ \E r \in unlogged \cap Notes :
        /\ todo' = [todo EXCEPT ![worker] = <<LogOf(r)>>]
        /\ unlogged' = unlogged \ {r}
    /\ UNCHANGED <<lock, at, display, rich, capture, signal, tty, written>>

LoseTerminal ==
    /\ Loses /\ tty.open /\ MayFail /\ tty' = [tty EXCEPT !.open = FALSE, !.frame = FALSE]
    /\ UNCHANGED <<todo, lock, at, display, rich, capture, signal, written, unlogged>>

BreakFrame ==
    /\ Breaks /\ tty.renders /\ MayFail /\ tty' = [tty EXCEPT !.renders = FALSE]
    /\ UNCHANGED <<todo, lock, at, display, rich, capture, signal, written, unlogged>>

Go(t) == todo[t] # <<>> /\
    \/ Take(t) \/ Give(t)
    \/ Log(t) \/ Emit(t) \/ Keep(t) \/ PrintKept(t)
    \/ Redirect(t) \/ ReleaseStreams(t) \/ CaptureLogging(t) \/ ReleaseLogging(t)
    \/ Refresh(t) \/ Render(t) \/ Flush(t) \/ StopLive(t) \/ RestoreHandler(t) \/ Stop(t) \/ Erase(t)
    \/ TerminalLost(t) \/ Silence(t) \/ Disable(t) \/ DisplayFailed(t) \/ Demote(t)

Main ==
    \/ StartLive(main) \/ Begin(main) \/ Spawn(main) \/ StartFailed(main)
    \/ CheckRenderError(main) \/ Sighup \/ HungUp \/ SetPending \/ HandlerReturns
    \/ ApplyUpdate \/ Resume \/ Close

Next ==
    \/ \E t \in Threads : Go(t)
    \/ \E l \in Lives : Tick(l)
    \/ Main
    \/ Enter \/ Update \/ Write \/ Suspend \/ Answer \/ Leave
    \/ WorkerLogs \/ Hangup \/ LoseTerminal \/ BreakFrame

Spec == Init /\ [][Next]_vars

----------------------------------------------------------------------------
(* Properties *)

Ended == at = "leaving" /\ \A t \in Threads : todo[t] = <<>>

\* the lock a thread needs for its next step
Wants(t) ==
    CASE todo[t] = <<>> -> None
      [] Runs(t, "acquire") -> Arg(t)
      [] OTHER -> IF Head(todo[t])[1] \in {"emit", "print_kept", "terminal_lost", "display_failed"}
                  THEN "display" ELSE None

WaitsFor(t, u) == t # u /\ Wants(t) # None /\ Holds(u, Wants(t))

\* Among these threads nobody waits in a circle.
NoCircle(threads) ==
    LET waiting == {t \in threads : Wants(t) # None /\ ~CanTake(t, Wants(t))}
    IN  \A S \in SUBSET waiting \ {{}} : \E t \in S : \A u \in S : ~WaitsFor(t, u)

\* No threads wait for each other's locks in a circle, the signal handler on
\* main included: "the handler probes the display's own descriptor and, when
\* the terminal answers, logs one line and changes nothing".
NoWaitCycle == NoCircle(Threads)

\* main, inside the SIGHUP handler, waits for the log handler's lock
HandlerLogs ==
    /\ Call("resume_main") \in {todo[main][i] : i \in DOMAIN todo[main]}
    /\ Runs(main, "acquire") /\ Arg(main) = "handler"

\* But for the line the SIGHUP handler logs, which main may log under _lock,
\* threads never wait in a circle, whatever goes wrong in whatever order: a
\* frame under rich's lock that wants _lock, a log line under the handler's
\* that wants _lock, every teardown, and what the handler leaves to the refresh
\* thread come through.
CirclesOnlyThroughSighup == NoCircle(IF HandlerLogs THEN Threads \ {main} ELSE Threads)

\* However the run ends - after a lost terminal, a broken frame, in either
\* order with log lines and prompts - nothing of the display is left: no frame
\* and no Live, the streams real, the log handlers and SIGHUP as before (the
\* handler may stay when the refresh thread tore the board down).
ClosedCleanly ==
    Ended => /\ ~tty.frame /\ display.live = None
             /\ rich.started = {}
             /\ ~capture.streams /\ (capture.handler <=> Training)
             /\ signal.ours => display.tornDown

\* A kept record reaches the terminal at most once, and that of a DataDashboard
\* exactly once: printed by the log line itself or after the display closed,
\* never lost between the two. (A record that another thread logs while the
\* board demotes itself may come too late for the kept lines.)
KeptOnce ==
    /\ \A r \in Records : written[r] <= 1
    /\ Ended /\ ~Training /\ tty.open /\ ToTerminal =>
        \A r \in (Notes \cup {"line"}) \ unlogged : written[r] = 1
=============================================================================
