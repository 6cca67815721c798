--------------------------- MODULE GuiTaskProofs ---------------------------
(***************************************************************************)
(* The locks of GuiTask are used correctly, and its window shows a running *)
(* task only while there is one, whatever tasks are posted, as long as     *)
(* none of them has a phase that calls lock() and unlock() directly.       *)
(***************************************************************************)
EXTENDS GuiTask, TLAPS

(* No task runs timing_opt. *)
SafePhase == Phase \ {"raw"}
SafeTasks == Tasks \subseteq Seq(SafePhase)

-----------------------------------------------------------------------------
(* The inductive invariant of the locks: who holds a mutex is read off the *)
(* program points of the three threads.                                    *)
Yielding == {"flash", "flashed", "relock"}

Held ==
    /\ phases \in Seq(SafePhase)
    /\ worker \in Yielding => phases # <<>> /\ Yields(Head(phases))
    /\ mutex = UI <=> ui = "reading"
    /\ mutex = Render <=> render = "reading"
    /\ ui_mutex = UI <=> ui \in {"wantMain", "reading"}
    /\ ui_mutex = Render <=> render \in {"wantMain", "reading"}
    /\ ui_mutex = Worker <=> worker = "flashed"

LockInv == TypeOK /\ LockDiscipline /\ Held

(* At the start no mutex is held.                                          *)
LEMMA InitLockInv == Init => LockInv
<1> SUFFICES ASSUME Init PROVE LockInv
  OBVIOUS
<1> USE LockAssumption, GuiAssumption DEF Init, LockInit
<1>1. TypeOK
  <2>1. jobs \in Seq(Tasks) /\ events \in Seq(Signal) /\ phases \in Seq(Phase)
    OBVIOUS
  <2>2. toTerminate \in BOOLEAN /\ toPause \in BOOLEAN
    OBVIOUS
  <2>3. posted \in 0 .. MaxJobs
    OBVIOUS
  <2> QED
    BY <2>1, <2>2, <2>3 DEF TypeOK, LockTypeOK, Inside, Button
<1>2. LockDiscipline
  BY DEF LockDiscipline, InLockedPhase, Inside
<1>3. Held
  BY DEF Held, Yielding
<1> QED
  BY <1>1, <1>2, <1>3 DEF LockInv

(* What the queues and the phases are made of survives a step on them. *)
LEMMA PostKeepsSignals ==
    ASSUME events \in Seq(Signal), NEW s \in Signal, Post(s)
    PROVE  events' \in Seq(Signal)
BY DEF Post

(* The phases of a safe task are phases.                                   *)
LEMMA SafePhasesArePhases ==
    ASSUME NEW p \in Seq(SafePhase) PROVE p \in Seq(Phase)
BY DEF SafePhase

(* A safe task is safe after any of its phases.                            *)
LEMMA TailIsSafe ==
    ASSUME NEW p \in Seq(SafePhase), p # <<>>
    PROVE  Head(p) \in SafePhase /\ Tail(p) \in Seq(SafePhase)
OBVIOUS

(* The steps of the worker, one by one. *)
LEMMA WorkerKeepsLockInv ==
    ASSUME SafeTasks, LockInv, WorkerStep PROVE LockInv'
<1> USE LockAssumption, GuiAssumption
        DEF LockInv, TypeOK, LockTypeOK, LockDiscipline, InLockedPhase, Held,
            Inside, Yielding, Locks, Yields, Phase, SafePhase
<1>1. CASE TakeJob
  <2>1. Head(jobs) \in Tasks /\ Tail(jobs) \in Seq(Tasks)
    BY <1>1 DEF TakeJob
  <2>2. phases' \in Seq(SafePhase) /\ phases' \in Seq(Phase)
    BY <1>1, <2>1 DEF TakeJob, SafeTasks
  <2>3. events' \in Seq(Signal)
    BY <1>1 DEF TakeJob, Post, Signal
  <2> QED
    BY <1>1, <2>1, <2>2, <2>3 DEF TakeJob, lockvars, taskvars, uivars
<1>2. CASE BeginPhase
  BY <1>2 DEF BeginPhase, Lock, lockvars, taskvars, uivars
<1>3. ASSUME NEW s \in {"finished", "failed"}, FinishJob(s) PROVE LockInv'
  <2>1. events' \in Seq(Signal)
    BY <1>3 DEF FinishJob, Post, Signal
  <2> QED
    BY <1>3, <2>1 DEF FinishJob, lockvars, taskvars, uivars
<1>4. CASE LogCall
  BY <1>4 DEF LogCall, lockvars, taskvars, uivars
<1>5. CASE CheckTerminate
  <2>1. CASE toTerminate
    <3>1. Interrupt /\ phases # <<>>
      BY <1>5, <2>1 DEF CheckTerminate
    <3>2. events' \in Seq(Signal)
      BY <3>1 DEF Interrupt, Post, Signal
    <3>3. Head(phases) \in SafePhase /\ (Locks(Head(phases)) <=> Unwinds(Head(phases)))
      BY <3>1 DEF Unwinds
    <3>4. mutex' # Worker /\ mutex' \in {mutex, Nobody} /\ (mutex # Worker => mutex' = mutex)
      BY <1>5, <3>1, <3>3 DEF CheckTerminate, Interrupt, Unlock, UnlockAsserts, lockvars
    <3>5. UNCHANGED <<ui_mutex, mutex_owner, jobs, uivars, render, posted>>
      BY <3>1 DEF Interrupt, Unlock, lockvars
    <3>7. toTerminate' \in BOOLEAN /\ toPause' \in BOOLEAN
      BY <3>1 DEF Interrupt
    <3>6. TypeOK'
      BY <3>1, <3>2, <3>4, <3>5, <3>7 DEF Interrupt, uivars
    <3>8. worker' = "idle" /\ phases' = <<>>
      BY <3>1 DEF Interrupt
    <3>9. LockDiscipline'
      BY <3>4, <3>5, <3>8
    <3>10. Held'
      BY <1>5, <3>4, <3>5, <3>8 DEF CheckTerminate, uivars
    <3> QED
      BY <3>6, <3>9, <3>10
  <2>2. CASE ~toTerminate
    BY <1>5, <2>2 DEF CheckTerminate, lockvars, taskvars, uivars
  <2> QED
    BY <2>1, <2>2
<1>6. CASE CheckPause
  <2>1. events' \in Seq(Signal)
    <3>1. CASE toPause
      BY <1>6, <3>1, PostKeepsSignals DEF CheckPause, Signal
    <3>2. CASE ~toPause
      BY <1>6, <3>2 DEF CheckPause
    <3> QED
      BY <3>1, <3>2
  <2>2. TypeOK'
    BY <1>6, <2>1 DEF CheckPause, lockvars, taskvars, uivars
  <2> QED
    BY <1>6, <2>2 DEF CheckPause, lockvars, taskvars, uivars
<1>7. CASE PauseLoop
  BY <1>7 DEF PauseLoop, lockvars, taskvars, uivars
<1>8. CASE EndPhase
  <2>1. phases' \in Seq(SafePhase) /\ phases' \in Seq(Phase)
    <3>1. phases \in Seq(SafePhase) /\ phases # <<>> /\ phases' \in {Tail(phases), <<>>}
      BY <1>8 DEF EndPhase
    <3> HIDE DEF SafePhase, Phase, LockInv, LockDiscipline, Held, TypeOK
    <3>2. CASE phases' = <<>>
      BY <3>2
    <3>3. CASE phases' = Tail(phases)
      BY <3>1, <3>3, TailIsSafe, SafePhasesArePhases
    <3> QED
      BY <3>1, <3>2, <3>3
  <2>2. mutex' # Worker /\ mutex' \in {mutex, Nobody} /\ (mutex # Worker => mutex' = mutex)
    BY <1>8 DEF EndPhase, Unlock, UnlockAsserts, lockvars
  <2>3. UNCHANGED <<ui_mutex, mutex_owner, taskvars, jobs, events, uivars, render, posted>>
    BY <1>8 DEF EndPhase, Unlock, lockvars
  <2>4. TypeOK'
    BY <1>8, <2>1, <2>2, <2>3 DEF EndPhase, taskvars, uivars
  <2> QED
    BY <1>8, <2>1, <2>2, <2>3, <2>4 DEF EndPhase, uivars
<1>9. CASE YieldBegin
  BY <1>9 DEF YieldBegin, YieldUnlock, Unlock, UnlockAsserts, lockvars, taskvars, uivars
<1>10. CASE YieldFlash
  BY <1>10 DEF YieldFlash, TakeUiMutex, DropUiMutex, taskvars, uivars
<1>11. CASE YieldEnd
  BY <1>11 DEF YieldEnd, Lock, taskvars, uivars
<1> QED
  BY <1>1, <1>2, <1>3, <1>4, <1>5, <1>6, <1>7, <1>8, <1>9, <1>10, <1>11
     DEF WorkerStep

(* The steps of the UI thread and of its user, and of the render thread. *)
LEMMA UiKeepsLockInv ==
    ASSUME LockInv, UiStep PROVE LockInv'
<1> USE LockAssumption, GuiAssumption
        DEF LockInv, TypeOK, LockTypeOK, LockDiscipline, InLockedPhase, Held,
            Yielding, workvars
<1>1. CASE Reenable
  <2>1. events' \in Seq(Signal)
    BY <1>1 DEF Reenable
  <2> QED
    BY <1>1, <2>1 DEF Reenable, lockvars, taskvars, Button
<1>2. CASE TaskEnded
  <2>1. events' \in Seq(Signal)
    BY <1>2 DEF TaskEnded
  <2> QED
    BY <1>2, <2>1 DEF TaskEnded, lockvars, taskvars
<1>3. CASE UiCheckTerminate
  <2>1. toTerminate' \in BOOLEAN
    BY <1>3 DEF UiCheckTerminate
  <2> QED
    BY <1>3, <2>1 DEF UiCheckTerminate, lockvars
<1>4. CASE UiCheckPause
  <2>1. UNCHANGED <<lockvars, taskvars, jobs, events, workvars, render, posted>>
    BY <1>4 DEF UiCheckPause
  <2>2. ui = "logPause" /\ ui' \in {"logPause", "wantUi", "loop"}
    BY <1>4 DEF UiCheckPause
  <2>3. enabled' \subseteq Button /\ handler' \in {handler, "none"}
    BY <1>4 DEF UiCheckPause, Button
  <2> QED
    BY <2>1, <2>2, <2>3 DEF lockvars, taskvars
<1>5. CASE UiAcquire
  BY <1>5 DEF UiAcquire, TakeUiMutex, TakeMutex, taskvars
<1>6. CASE UiRelease
  BY <1>6 DEF UiRelease, DropBoth, taskvars, Button
<1> QED
  BY <1>1, <1>2, <1>3, <1>4, <1>5, <1>6 DEF UiStep

(* What the user clicks takes no lock.                                     *)
LEMMA UserKeepsLockInv ==
    ASSUME LockInv, UserStep PROVE LockInv'
<1> USE LockAssumption, GuiAssumption
        DEF LockInv, TypeOK, LockTypeOK, LockDiscipline, InLockedPhase, Held,
            Yielding, workvars
<1>1. ASSUME NEW t \in Tasks, UserStart(t) PROVE LockInv'
  <2>1. jobs' \in Seq(Tasks) /\ posted' \in 0 .. MaxJobs
    BY <1>1 DEF UserStart
  <2> QED
    BY <1>1, <2>1 DEF UserStart, lockvars, taskvars, uivars
<1>2. CASE UserPause
  <2>1. toPause' \in BOOLEAN
    BY <1>2 DEF UserPause
  <2> QED
    BY <1>2, <2>1 DEF UserPause, lockvars, uivars
<1>3. CASE UserPlay
  <2>1. toPause' \in BOOLEAN
    BY <1>3 DEF UserPlay
  <2> QED
    BY <1>3, <2>1 DEF UserPlay, lockvars, Button
<1>4. CASE UserStop
  <2>1. toPause' \in BOOLEAN /\ toTerminate' \in BOOLEAN
    BY <1>4 DEF UserStop
  <2> QED
    BY <1>4, <2>1 DEF UserStop, lockvars, uivars
<1>5. CASE UserClick
  BY <1>5 DEF UserClick, lockvars, taskvars
<1> QED
  BY <1>1, <1>2, <1>3, <1>4, <1>5 DEF UserStep

(* The steps of the render thread keep to the discipline of the locks.     *)
LEMMA RenderKeepsLockInv ==
    ASSUME LockInv, Poke \/ RenderStep PROVE LockInv'
<1> USE LockAssumption, GuiAssumption
        DEF LockInv, TypeOK, LockTypeOK, LockDiscipline, InLockedPhase, Held,
            Yielding, workvars, taskvars, uivars
<1>1. CASE Poke
  BY <1>1 DEF Poke, lockvars
<1>2. CASE RenderAcquire
  BY <1>2 DEF RenderAcquire, TakeUiMutex, TakeMutex
<1>3. CASE RenderRelease
  BY <1>3 DEF RenderRelease, DropBoth
<1> QED
  BY <1>1, <1>2, <1>3 DEF RenderStep

(* Nor does a stuttering step change who holds what.                       *)
LEMMA StutterKeepsLockInv ==
    ASSUME LockInv, UNCHANGED vars PROVE LockInv'
BY DEF LockInv, TypeOK, LockTypeOK, LockDiscipline, InLockedPhase, Held,
       vars, lockvars, taskvars, workvars, uivars

(* For tasks that keep to the discipline of the context's locks, a mutex   *)
(* is held exactly by the thread whose program point says so, in every     *)
(* interleaving of worker, UI and render thread.                           *)
THEOREM LocksInvariant ==
    ASSUME SafeTasks PROVE Spec => []LockInv
<1>1. Init => LockInv
  BY InitLockInv
<1>2. LockInv /\ [Next]_vars => LockInv'
  BY WorkerKeepsLockInv, UiKeepsLockInv, UserKeepsLockInv, RenderKeepsLockInv,
     StutterKeepsLockInv DEF Next
<1> QED
  BY <1>1, <1>2, PTL DEF Spec

(* The flags, queues and mutexes of the worker, the window and the threads *)
(* that display keep their types through every task and signal.            *)
THEOREM TypeCorrect ==
    ASSUME SafeTasks PROVE Spec => []TypeOK
<1>1. LockInv => TypeOK
  BY DEF LockInv
<1> QED
  BY <1>1, LocksInvariant, PTL

(* The worker owns the main mutex exactly while it is inside a phase that  *)
(* locks: every unlock() passes its assertion and no Stop loses the lock.  *)
THEOREM WorkerKeepsDiscipline ==
    ASSUME SafeTasks PROVE Spec => []LockDiscipline
<1>1. LockInv => LockDiscipline
  BY DEF LockInv
<1> QED
  BY <1>1, LocksInvariant, PTL

(* A thread that displays the design is alone with it. *)
THEOREM DisplayReadsAlone ==
    ASSUME SafeTasks PROVE Spec => []ReadsAlone
<1>1. LockInv => ReadsAlone
  BY GuiAssumption DEF LockInv, LockDiscipline, Held, ReadsAlone
<1> QED
  BY <1>1, LocksInvariant, PTL

(* Whoever waits for ui_mutex holds neither mutex: yield() and the display *)
(* threads never wait for each other in a circle.                          *)
THEOREM NoCircle ==
    ASSUME SafeTasks PROVE Spec => []NoCircularWait
<1>1. LockInv => NoCircularWait
  BY GuiAssumption
     DEF LockInv, LockDiscipline, InLockedPhase, Inside, Held, NoCircularWait
<1> QED
  BY <1>1, LocksInvariant, PTL

-----------------------------------------------------------------------------
(* The inductive invariant of the window: the last signal of an idle       *)
(* worker says that its task ended, and the buttons of a running task are  *)
(* on only while that signal, or its handler, is still to come.            *)
Ends == {"finished", "failed", "taskCanceled"}
Busy == enabled \cap {"pause", "play", "stop"} # {}

Window ==
    /\ worker = "idle" /\ events # <<>> => events[Len(events)] \in Ends
    /\ ui = "loop" => handler = "none"
    /\ handler = "finished" /\ ~(ui = "logPause" /\ toPause) => ~Busy
    /\ Busy => \/ worker # "idle" \/ TaskEndPending
               \/ ui \in {"logging", "logPause", "aborted"}

(* An emitted signal is the last of the queue of the UI thread.            *)
LEMMA PostIsLast ==
    ASSUME events \in Seq(Signal), NEW s \in Signal, Post(s)
    PROVE  /\ events' # <<>> /\ events'[Len(events')] = s
           /\ s \in Ends => TaskEndPending'
<1>1. /\ events' \in Seq(Signal) /\ Len(events') = Len(events) + 1
      /\ events'[Len(events')] = s
  BY DEF Post
<1>2. Len(events') \in DOMAIN events'
  BY <1>1
<1> QED
  BY <1>1, <1>2 DEF TaskEndPending, Ends

(* Of several queued signals some are left when one is delivered.          *)
LEMMA TailNonEmpty ==
    ASSUME NEW e \in Seq(Signal), Len(e) > 0, Len(e) # 1
    PROVE  Tail(e) # <<>>
<1>1. SUFFICES ASSUME Tail(e) = <<>> PROVE FALSE
  OBVIOUS
<1>2. Len(Tail(e)) = Len(e) - 1 /\ Len(e) \in Nat
  OBVIOUS
<1>3. Len(Tail(e)) = 0
  <2>1. Len(<<>>) = 0
    OBVIOUS
  <2> QED
    BY <1>1, <2>1, Zenon
<1> QED
  BY <1>2, <1>3

(* Delivery of the first of several signals leaves the last where it was.  *)
LEMMA TailKeepsLast ==
    ASSUME NEW e \in Seq(Signal), e # <<>>, Tail(e) # <<>>
    PROVE  Tail(e)[Len(Tail(e))] = e[Len(e)]
OBVIOUS

(* A queue whose last signal ends a task has the end of a task in it.      *)
LEMMA LastEnds ==
    ASSUME events \in Seq(Signal), events # <<>>, events[Len(events)] \in Ends
    PROVE  TaskEndPending
<1>1. Len(events) \in DOMAIN events
  OBVIOUS
<1> QED
  BY <1>1 DEF TaskEndPending, Ends

(* At the start the window shows no task.                                  *)
LEMMA InitWindow == Init => Window
BY DEF Init, Window, Busy

(* The steps of the worker keep what the window shows in step with it.     *)
LEMMA WorkerKeepsWindow ==
    ASSUME TypeOK, Window, WorkerStep PROVE Window'
<1>0. events \in Seq(Signal)
  BY DEF TypeOK
<1>1. CASE TakeJob
  BY <1>0, <1>1, PostIsLast DEF TakeJob, Window, Busy, Signal, Ends, uivars, taskvars
<1>2. CASE BeginPhase
  BY <1>2 DEF BeginPhase, Window, Busy, TaskEndPending, uivars, taskvars
<1>3. ASSUME NEW s \in {"finished", "failed"}, FinishJob(s) PROVE Window'
  BY <1>0, <1>3, PostIsLast DEF FinishJob, Window, Busy, Signal, Ends, uivars, taskvars
<1>4. CASE LogCall
  BY <1>4 DEF LogCall, Window, Busy, TaskEndPending, uivars, taskvars
<1>5. CASE CheckTerminate
  <2>1. CASE toTerminate
    <3>1. Post("taskCanceled") /\ UNCHANGED <<toPause, uivars>>
      BY <1>5, <2>1 DEF CheckTerminate, Interrupt
    <3>2. TaskEndPending' /\ events'[Len(events')] \in Ends
      BY <1>0, <3>1, PostIsLast DEF Signal, Ends
    <3> QED
      BY <3>1, <3>2 DEF Window, Busy, uivars
  <2>2. CASE ~toTerminate
    BY <1>5, <2>2 DEF CheckTerminate, Window, Busy, TaskEndPending, uivars, taskvars
  <2> QED
    BY <2>1, <2>2
<1>6. CASE CheckPause
  BY <1>6 DEF CheckPause, Window, Busy, uivars, taskvars
<1>7. CASE PauseLoop
  BY <1>7 DEF PauseLoop, Window, Busy, TaskEndPending, uivars, taskvars
<1>8. CASE EndPhase
  BY <1>8 DEF EndPhase, Window, Busy, TaskEndPending, uivars, taskvars
<1>9. CASE YieldBegin \/ YieldFlash \/ YieldEnd
  BY <1>9 DEF YieldBegin, YieldFlash, YieldEnd, Window, Busy, TaskEndPending,
              uivars, taskvars
<1> QED
  BY <1>1, <1>2, <1>3, <1>4, <1>5, <1>6, <1>7, <1>8, <1>9 DEF WorkerStep

(* The slots of the UI thread keep the window in step with the worker.     *)
LEMMA UiKeepsWindow ==
    ASSUME TypeOK, Window, UiStep PROVE Window'
<1>0. events \in Seq(Signal)
  BY DEF TypeOK
<1>1. CASE Reenable
  <2>1. /\ ui = "loop" /\ handler' = handler /\ ui' = ui /\ worker' = worker
        /\ events # <<>> /\ Head(events) \notin Ends /\ events' = Tail(events)
    BY <1>1 DEF Reenable, Ends, workvars
  <2>2. events' \in Seq(Signal)
    BY <1>0, <2>1
  <2>3. worker = "idle" => events' # <<>> /\ events'[Len(events')] \in Ends
    <3>1. ASSUME worker = "idle" PROVE Tail(events) # <<>>
      <4>1. events[Len(events)] \in Ends /\ Head(events) = events[1]
        BY <1>0, <2>1, <3>1 DEF Window
      <4>2. Len(events) # 1 /\ Len(events) \in Nat /\ Len(events) > 0
        BY <1>0, <2>1, <4>1
      <4> QED
        BY <1>0, <4>2, TailNonEmpty
    <3> QED
      BY <1>0, <2>1, <3>1, TailKeepsLast DEF Window
  <2>4. worker = "idle" => TaskEndPending'
    <3>1. ASSUME worker = "idle" PROVE Len(events') \in DOMAIN events'
      BY <2>2, <2>3, <3>1
    <3> QED
      BY <2>3, <3>1 DEF TaskEndPending, Ends
  <2> QED
    BY <2>1, <2>3, <2>4 DEF Window
<1>2. CASE TaskEnded
  <2>1. /\ ui' = "logging" /\ worker' = worker /\ events # <<>> /\ events' = Tail(events)
        /\ handler' = "finished" => enabled' = {}
    BY <1>2 DEF TaskEnded, workvars
  <2>2. worker' = "idle" /\ events' # <<>> => events'[Len(events')] \in Ends
    BY <1>0, <2>1, TailKeepsLast DEF Window
  <2> QED
    BY <2>1, <2>2 DEF Window, Busy
<1>3. CASE UiCheckTerminate
  BY <1>3 DEF UiCheckTerminate, Window, Busy, TaskEndPending, workvars
<1>4. CASE UiCheckPause
  <2>1. CASE toPause
    BY <1>4, <2>1 DEF UiCheckPause, Window, Busy, TaskEndPending, workvars, taskvars
  <2>2. CASE ~toPause
    BY <1>4, <2>2 DEF UiCheckPause, Window, Busy, TaskEndPending, workvars, taskvars
  <2> QED
    BY <2>1, <2>2
<1>5. CASE UiAcquire
  BY <1>5 DEF UiAcquire, Window, Busy, TaskEndPending, workvars, taskvars
<1>6. CASE UiRelease
  BY <1>6 DEF UiRelease, Window, Busy, TaskEndPending, workvars, taskvars
<1> QED
  BY <1>1, <1>2, <1>3, <1>4, <1>5, <1>6 DEF UiStep

(* The user's and the render thread's steps keep the window in step.       *)
LEMMA OthersKeepWindow ==
    ASSUME Window, UserStep \/ Poke \/ RenderStep \/ UNCHANGED vars PROVE Window'
<1> USE DEF Window, Busy, TaskEndPending, workvars, taskvars, uivars
<1>1. ASSUME NEW t \in Tasks, UserStart(t) PROVE Window'
  BY <1>1 DEF UserStart
<1>2. CASE UserPause
  BY <1>2 DEF UserPause
<1>3. CASE UserPlay
  BY <1>3 DEF UserPlay
<1>4. CASE UserStop
  BY <1>4 DEF UserStop
<1>5. CASE UserClick
  BY <1>5 DEF UserClick
<1>6. CASE Poke \/ RenderStep
  BY <1>6 DEF Poke, RenderStep, RenderAcquire, RenderRelease
<1>7. CASE UNCHANGED vars
  BY <1>7 DEF vars
<1> QED
  BY <1>1, <1>2, <1>3, <1>4, <1>5, <1>6, <1>7 DEF UserStep

(* A window that shows a running task shows one that runs, or one whose    *)
(* last signal has not arrived yet.                                        *)
THEOREM ButtonsMeanRunningTask ==
    ASSUME SafeTasks PROVE Spec => []ButtonsMeanTask
<1>1. Init => Window
  BY InitWindow
<1>2. LockInv /\ Window /\ [Next]_vars => Window'
  BY WorkerKeepsWindow, UiKeepsWindow, OthersKeepWindow DEF Next, LockInv
<1>3. Window => ButtonsMeanTask
  BY DEF Window, Busy, ButtonsMeanTask
<1> QED
  BY <1>1, <1>2, <1>3, LocksInvariant, PTL DEF Spec
=============================================================================
