---------------------------- MODULE ContextLock ----------------------------
(***************************************************************************)
(* The two mutexes that guard the Context, as common/kernel/basectx.h      *)
(* declares them.  A thread that mutates the design holds mutex; a thread  *)
(* that displays it takes ui_mutex first and mutex second.  std::mutex     *)
(* promises no order among the threads that wait for it.                   *)
(***************************************************************************)
CONSTANTS Thread, Nobody

ASSUME LockAssumption == Nobody \notin Thread

VARIABLES
    mutex, ui_mutex,    \* the thread that holds it, or Nobody
    mutex_owner         \* the thread that last returned from lock()

lockvars == <<mutex, ui_mutex, mutex_owner>>

LockInit == mutex = Nobody /\ ui_mutex = Nobody /\ mutex_owner = Nobody

LockTypeOK ==
    /\ mutex \in Thread \cup {Nobody}
    /\ ui_mutex \in Thread \cup {Nobody}
    /\ mutex_owner \in Thread \cup {Nobody}

-----------------------------------------------------------------------------
(* A fault for the sensitivity runs: lock() does not wait. *)
Lock_Unchecked(t) ==
    /\ mutex' = t /\ mutex_owner' = t
    /\ UNCHANGED ui_mutex

(* BaseCtx::lock and unlock, also as the constructor and destructor of     *)
(* ScopeLock.  unlock asserts that the caller is mutex_owner.              *)
Lock(t) ==
    /\ mutex = Nobody
    /\ mutex' = t /\ mutex_owner' = t
    /\ UNCHANGED ui_mutex

UnlockAsserts(t) == mutex = t /\ mutex_owner = t

Unlock(t) ==
    /\ UnlockAsserts(t)
    /\ mutex' = Nobody
    /\ UNCHANGED <<ui_mutex, mutex_owner>>

(* The two critical sections of yield() between unlock() and lock(). *)
TakeUiMutex(t) ==
    /\ ui_mutex = Nobody
    /\ ui_mutex' = t
    /\ UNCHANGED <<mutex, mutex_owner>>

DropUiMutex(t) ==
    /\ ui_mutex = t
    /\ ui_mutex' = Nobody
    /\ UNCHANGED <<mutex, mutex_owner>>

(* The pair of std::lock_guards of a thread that displays the design: they *)
(* bypass lock(), so mutex_owner does not change.                          *)
TakeMutex(t) ==
    /\ mutex = Nobody
    /\ mutex' = t
    /\ UNCHANGED <<ui_mutex, mutex_owner>>

DropBoth(t) ==
    /\ mutex = t /\ ui_mutex = t
    /\ mutex' = Nobody /\ ui_mutex' = Nobody
    /\ UNCHANGED mutex_owner
=============================================================================
