------------------------------ MODULE GuiTask ------------------------------
(***************************************************************************)
(* The threads of the graphical program: the worker thread that runs pack, *)
(* place and route (gui/worker.cc), the UI thread with its event loop      *)
(* (gui/basewindow.cc, gui/designwidget.cc) and the thread that renders    *)
(* the fabric (gui/fpgaviewwidget.cc).  They share the Context under the   *)
(* locks of ContextLock; the UI thread posts jobs to the worker, the       *)
(* worker posts signals to the UI thread, and the buttons of the UI set    *)
(* two flags that the worker reads whenever it logs.                       *)
(*                                                                         *)
(* A task is a sequence of phases:                                         *)
(*   "bare"     mutates the design without a lock (packing; routeVcc,      *)
(*              routeClock and fixupRouting around the router)             *)
(*   "yielding" holds a ScopeLock and calls yield() again and again        *)
(*              (placer1, placer_heap, parallel_refine, router1)           *)
(*   "held"     holds a ScopeLock throughout (router2)                     *)
(*   "raw"      calls lock() and unlock() (timing_opt, ice40 only)         *)
(* Each turn of a phase logs once; a phase without yields makes one turn.  *)
(***************************************************************************)
EXTENDS ContextLock, Naturals, Sequences

CONSTANTS
    UI, Render, Worker,
    Tasks,        \* the tasks a user may start
    UserMay,      \* the buttons the user uses
    MaxJobs       \* bound on the jobs posted

Phase  == {"bare", "yielding", "held", "raw"}
Button == {"start", "pause", "play", "stop", "click"}
Signal == {"taskStarted", "taskPaused", "taskCanceled", "finished", "failed"}

ASSUME GuiAssumption ==
    /\ Thread = {UI, Render, Worker}
    /\ UI # Render /\ UI # Worker /\ Render # Worker
    /\ Tasks \subseteq Seq(Phase)
    /\ UserMay \subseteq Button
    /\ MaxJobs \in Nat

VARIABLES
    toTerminate, toPause,   \* TaskManager
    jobs,                   \* queued signals to the worker thread
    events,                 \* queued signals to the UI thread
    phases,                 \* what is left of the running task
    worker,                 \* where the worker thread is
    ui,                     \* where the UI thread is
    handler,                \* the handler the UI thread is in
    enabled,                \* the enabled actions of the main window
    render,                 \* where the render thread is
    posted                  \* number of jobs posted so far

taskvars == <<toTerminate, toPause>>
workvars == <<phases, worker>>
uivars   == <<ui, handler, enabled>>
vars == <<lockvars, taskvars, jobs, events, workvars, uivars, render, posted>>

Post(signal) == events' = Append(events, signal)

-----------------------------------------------------------------------------
(* The worker thread *)
Locks(p)      == p # "bare"
Yields(p)     == p = "yielding"

(* A fault for the sensitivity runs: no phase releases its lock when an    *)
(* exception unwinds it.                                                   *)
Unwinds_Never(p) == FALSE

(* The phases whose lock an exception releases, by ~ScopeLock. *)
Unwinds(p)    == p \in {"yielding", "held"}

(* A slot of Worker starts. *)
TakeJob ==
    /\ worker = "idle" /\ jobs # <<>>
    /\ phases' = Head(jobs) /\ jobs' = Tail(jobs)
    /\ Post("taskStarted")
    /\ worker' = "between"
    /\ UNCHANGED <<lockvars, taskvars, uivars, render, posted>>

BeginPhase ==
    /\ worker = "between" /\ phases # <<>>
    /\ IF Locks(Head(phases)) THEN Lock(Worker) ELSE UNCHANGED lockvars
    /\ worker' = "work"
    /\ UNCHANGED <<taskvars, jobs, events, phases, uivars, render, posted>>

(* The task returns: pack_finished, place_finished, route_finished. *)
FinishJob(status) ==
    /\ worker = "between" /\ phases = <<>>
    /\ Post(status)
    /\ worker' = "idle"
    /\ UNCHANGED <<lockvars, taskvars, jobs, phases, uivars, render, posted>>

LogCall ==
    /\ worker = "work"
    /\ worker' = "logging"
    /\ UNCHANGED <<lockvars, taskvars, jobs, events, phases, uivars, render, posted>>

(* Faults for the sensitivity runs: the slot does not tell the UI that the *)
(* task was cancelled; or the exception is caught inside the task, which   *)
(* goes on after it has been cancelled.                                    *)
Interrupt_Silent ==
    /\ toTerminate' = FALSE
    /\ IF Unwinds(Head(phases)) THEN Unlock(Worker) ELSE UNCHANGED lockvars
    /\ phases' = <<>> /\ worker' = "idle"
    /\ UNCHANGED <<toPause, jobs, events, uivars, render, posted>>
Interrupt_Resumed ==
    /\ toTerminate' = FALSE
    /\ Post("taskCanceled")
    /\ phases' = <<>> /\ worker' = "logged"
    /\ UNCHANGED <<lockvars, toPause, jobs, uivars, render, posted>>

(* WorkerInterruptionRequested leaves log_write_function and is caught in  *)
(* the slot of Worker.                                                     *)
Interrupt ==
    /\ toTerminate' = FALSE
    /\ IF Unwinds(Head(phases)) THEN Unlock(Worker) ELSE UNCHANGED lockvars
    /\ Post("taskCanceled")
    /\ phases' = <<>> /\ worker' = "idle"
    /\ UNCHANGED <<toPause, jobs, uivars, render, posted>>

CheckTerminate ==
    /\ worker \in {"logging", "pausedCheck"}
    /\ IF toTerminate THEN Interrupt
       ELSE /\ worker' = IF worker = "logging" THEN "logPause" ELSE "paused"
            /\ UNCHANGED <<lockvars, taskvars, jobs, events, phases, uivars,
                           render, posted>>

CheckPause ==
    /\ worker = "logPause"
    /\ IF toPause THEN Post("taskPaused") /\ worker' = "paused"
                  ELSE UNCHANGED events /\ worker' = "logged"
    /\ UNCHANGED <<lockvars, taskvars, jobs, phases, uivars, render, posted>>

(* The loop that sleeps while isPaused(). *)
PauseLoop ==
    /\ worker = "paused"
    /\ worker' = IF toPause THEN "pausedCheck" ELSE "logged"
    /\ UNCHANGED <<lockvars, taskvars, jobs, events, phases, uivars, render, posted>>

(* A phase ends; one that fails (it returns false, or log_error unwinds it *)
(* to a handler inside the task) is the last.                              *)
EndPhase ==
    /\ worker = "logged"
    /\ IF Locks(Head(phases)) THEN Unlock(Worker) ELSE UNCHANGED lockvars
    /\ phases' \in {Tail(phases), <<>>} /\ worker' = "between"
    /\ UNCHANGED <<taskvars, jobs, events, uivars, render, posted>>

(* A fault for the sensitivity runs: yield keeps the main mutex. *)
YieldUnlock_Kept == UNCHANGED lockvars

YieldUnlock == Unlock(Worker)

(* BaseCtx::yield *)
YieldBegin ==
    /\ worker = "logged" /\ Yields(Head(phases))
    /\ YieldUnlock
    /\ worker' = "flash"
    /\ UNCHANGED <<taskvars, jobs, events, phases, uivars, render, posted>>

(* A fault for the sensitivity runs: yield does not wait for ui_mutex. *)
YieldFlash_Skipped ==
    /\ worker = "flash" /\ worker' = "relock"
    /\ UNCHANGED <<lockvars, taskvars, jobs, events, phases, uivars, render, posted>>

YieldFlash ==
    /\ \/ worker = "flash" /\ TakeUiMutex(Worker) /\ worker' = "flashed"
       \/ worker = "flashed" /\ DropUiMutex(Worker) /\ worker' = "relock"
    /\ UNCHANGED <<taskvars, jobs, events, phases, uivars, render, posted>>

YieldEnd ==
    /\ worker = "relock"
    /\ Lock(Worker)
    /\ worker' = "work"
    /\ UNCHANGED <<taskvars, jobs, events, phases, uivars, render, posted>>

-----------------------------------------------------------------------------
(* The UI thread *)

(* Slots that only switch the actions. *)
Reenable ==
    /\ ui = "loop" /\ events # <<>>
    /\ \/ Head(events) = "taskStarted" /\ enabled' = {"pause", "stop"}
       \/ Head(events) = "taskPaused" /\ enabled' = {"play", "stop"}
    /\ events' = Tail(events)
    /\ UNCHANGED <<lockvars, taskvars, jobs, workvars, ui, handler, render, posted>>

(* Slots that report the end of a task: they log, in the UI thread, and    *)
(* the log goes through log_write_function as well.                        *)
TaskEnded ==
    /\ ui = "loop" /\ events # <<>>
    /\ Head(events) \in {"finished", "failed", "taskCanceled"}
    /\ handler' = Head(events)
    /\ events' = Tail(events)
    /\ enabled' = IF handler' = "taskCanceled" THEN enabled ELSE {}
    /\ ui' = "logging"
    /\ UNCHANGED <<lockvars, taskvars, jobs, workvars, render, posted>>

(* No slot of the UI thread catches WorkerInterruptionRequested. *)
UiCheckTerminate ==
    /\ ui = "logging"
    /\ IF toTerminate THEN toTerminate' = FALSE /\ ui' = "aborted"
                      ELSE UNCHANGED toTerminate /\ ui' = "logPause"
    /\ UNCHANGED <<lockvars, toPause, jobs, events, workvars, handler, enabled,
                   render, posted>>

(* While isPaused() the UI thread sleeps in its own log call, after having *)
(* switched the actions by taskPaused.                                     *)
UiCheckPause ==
    /\ ui = "logPause"
    /\ IF toPause
       THEN /\ enabled' = {"play", "stop"}
            /\ UNCHANGED <<ui, handler>>
       ELSE /\ enabled' = IF handler = "finished" THEN enabled ELSE {}
            /\ ui' = IF handler = "finished" THEN "wantUi" ELSE "loop"
            /\ handler' = IF handler = "finished" THEN handler ELSE "none"
    /\ UNCHANGED <<lockvars, taskvars, jobs, events, workvars, render, posted>>

(* What the user does.  Play emits taskStarted in the UI thread itself. *)
UserStart(task) ==
    /\ ui = "loop" /\ "start" \in enabled \cap UserMay /\ posted < MaxJobs
    /\ jobs' = Append(jobs, task) /\ posted' = posted + 1
    /\ UNCHANGED <<lockvars, taskvars, events, workvars, uivars, render>>

UserPause ==
    /\ ui = "loop" /\ "pause" \in enabled \cap UserMay
    /\ toPause' = TRUE
    /\ UNCHANGED <<lockvars, toTerminate, jobs, events, workvars, uivars, render, posted>>

UserPlay ==
    /\ ui = "loop" /\ "play" \in enabled \cap UserMay
    /\ toPause' = FALSE
    /\ enabled' = {"pause", "stop"}
    /\ UNCHANGED <<lockvars, toTerminate, jobs, events, workvars, ui, handler,
                   render, posted>>

UserStop ==
    /\ ui = "loop" /\ "stop" \in enabled \cap UserMay
    /\ toPause' = FALSE /\ toTerminate' = TRUE
    /\ UNCHANGED <<lockvars, jobs, events, workvars, uivars, render, posted>>

UserClick ==
    /\ ui = "loop" /\ "click" \in UserMay
    /\ ui' = "wantUi" /\ handler' = "click"
    /\ UNCHANGED <<lockvars, taskvars, jobs, events, workvars, enabled, render, posted>>

(* The lock_guards of a slot of DesignWidget, and what follows it. *)
UiAcquire ==
    /\ \/ ui = "wantUi" /\ TakeUiMutex(UI) /\ ui' = "wantMain"
       \/ ui = "wantMain" /\ TakeMutex(UI) /\ ui' = "reading"
    /\ UNCHANGED <<taskvars, jobs, events, workvars, handler, enabled, render, posted>>

UiRelease ==
    /\ ui = "reading" /\ DropBoth(UI)
    /\ enabled' = IF handler = "finished" THEN {"start"} ELSE enabled
    /\ ui' = "loop" /\ handler' = "none"
    /\ UNCHANGED <<taskvars, jobs, events, workvars, render, posted>>

-----------------------------------------------------------------------------
(* The render thread, poked by a timer and by the UI thread. *)
Poke ==
    /\ render = "waiting" /\ render' = "wantUi"
    /\ UNCHANGED <<lockvars, taskvars, jobs, events, workvars, uivars, posted>>

RenderAcquire ==
    /\ \/ render = "wantUi" /\ TakeUiMutex(Render) /\ render' = "wantMain"
       \/ render = "wantMain" /\ TakeMutex(Render) /\ render' = "reading"
    /\ UNCHANGED <<taskvars, jobs, events, workvars, uivars, posted>>

RenderRelease ==
    /\ render = "reading" /\ DropBoth(Render)
    /\ render' = "waiting"
    /\ UNCHANGED <<taskvars, jobs, events, workvars, uivars, posted>>

-----------------------------------------------------------------------------
Init ==
    /\ LockInit
    /\ toTerminate = FALSE /\ toPause = FALSE
    /\ jobs = <<>> /\ events = <<>> /\ phases = <<>>
    /\ worker = "idle"
    /\ ui = "loop" /\ handler = "none" /\ enabled = {"start"}
    /\ render = "waiting"
    /\ posted = 0

WorkerStep ==
    \/ TakeJob \/ BeginPhase \/ \E s \in {"finished", "failed"} : FinishJob(s)
    \/ LogCall \/ CheckTerminate \/ CheckPause \/ PauseLoop
    \/ EndPhase \/ YieldBegin \/ YieldFlash \/ YieldEnd
UiStep     == Reenable \/ TaskEnded \/ UiCheckTerminate \/ UiCheckPause
              \/ UiAcquire \/ UiRelease
UserStep   == (\E t \in Tasks : UserStart(t))
              \/ UserPause \/ UserPlay \/ UserStop \/ UserClick
RenderStep == RenderAcquire \/ RenderRelease

Next == WorkerStep \/ UiStep \/ UserStep \/ Poke \/ RenderStep

Spec == Init /\ [][Next]_vars

(* The operating system runs every thread that can run; the user does as   *)
(* he likes and the timer need not fire.  No lock is assumed to be fair.   *)
FairSpec == Spec /\ WF_vars(WorkerStep) /\ WF_vars(UiStep) /\ WF_vars(RenderStep)

-----------------------------------------------------------------------------
(* Properties *)

(* The program points of the worker between the lock and the unlock of a   *)
(* phase that locks.                                                       *)
Inside == {"work", "logging", "logPause", "paused", "pausedCheck", "logged"}

(* The threads are where the code can be, the queues hold signals, and a   *)
(* worker inside a phase has a phase to be in.                             *)
TypeOK ==
    /\ LockTypeOK
    /\ toTerminate \in BOOLEAN /\ toPause \in BOOLEAN
    /\ jobs \in Seq(Tasks) /\ events \in Seq(Signal)
    /\ phases \in Seq(Phase)
    /\ worker \in {"idle", "between", "work", "logging", "logPause", "paused",
                   "pausedCheck", "logged", "flash", "flashed", "relock"}
    /\ ui \in {"loop", "logging", "logPause", "aborted",
               "wantUi", "wantMain", "reading"}
    /\ handler \in {"none", "click", "finished", "failed", "taskCanceled"}
    /\ enabled \subseteq Button
    /\ render \in {"waiting", "wantUi", "wantMain", "reading"}
    /\ posted \in 0 .. MaxJobs
    /\ worker \in Inside => phases # <<>>

(* The worker owns the main mutex exactly while it is inside a phase that  *)
(* locks, however the phase ends, a Stop in the middle of a log call       *)
(* included: the assertion of unlock() holds, no lock is lost with an      *)
(* interrupted task, and none is kept across the flash of yield().         *)
InLockedPhase == worker \in Inside /\ Locks(Head(phases))
LockDiscipline ==
    /\ mutex = Worker <=> InLockedPhase
    /\ mutex = Worker => mutex_owner = Worker

(* A thread that displays the design reads it alone: neither the other     *)
(* one nor a phase that locks is inside.                                   *)
ReadsAlone ==
    /\ ui = "reading" \/ render = "reading" => ~InLockedPhase
    /\ ~(ui = "reading" /\ render = "reading")

(* No circular wait between the two mutexes: whoever waits for ui_mutex    *)
(* (in yield() or in a lock_guard) holds nothing, and whoever holds        *)
(* ui_mutex waits for mutex at most.                                       *)
NoCircularWait ==
    /\ worker = "flash" => mutex # Worker
    /\ ui = "wantUi" => UI \notin {mutex, ui_mutex}
    /\ render = "wantUi" => Render \notin {mutex, ui_mutex}

(* Pause, Play and Stop are enabled only while the worker has a task, or   *)
(* the signal that its task ended is on its way: a window that shows a     *)
(* running task shows one that runs.                                       *)
TaskEndPending == \E i \in DOMAIN events :
                      events[i] \in {"finished", "failed", "taskCanceled"}
ButtonsMeanTask ==
    ui = "loop" /\ enabled \cap {"pause", "play", "stop"} # {} =>
        worker # "idle" \/ TaskEndPending

(* A thread that holds ui_mutex gets the design to read, whatever buttons   *)
(* are pressed and although yield() takes the main mutex again at once and  *)
(* std::mutex is not fair: the flash of ui_mutex in yield() holds the       *)
(* worker back, and no phase that is stopped keeps the mutex.  Only a task  *)
(* that is paused for good inside a phase that locks, asleep in a log call, *)
(* keeps the design to itself.                                              *)
KeptByPause       == worker \in {"paused", "pausedCheck"} /\ mutex = Worker
UiGetsContext     == (ui = "wantMain") ~> (ui = "reading")
RenderGetsContext == (render = "wantMain") ~> (render = "reading")
UiNotStarved == []<>~KeptByPause => UiGetsContext /\ RenderGetsContext

-----------------------------------------------------------------------------
(* Statements of comments and texts in the source that the code breaks.    *)

(* The status tip of the Stop action, "Stop running task": a Stop reaches  *)
(* the worker, and does not end the UI thread.                             *)
StopReachesTask == ui # "aborted"
=============================================================================
