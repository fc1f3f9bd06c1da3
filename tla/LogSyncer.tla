------------------------------ MODULE LogSyncer ------------------------------
(***************************************************************************)
(* The delayed-fsync machinery of the store (src/storage/mod.rs,           *)
(* MutationLogSyncer): a background thread that fsyncs mutations.jsonl at  *)
(* most once per MUTATION_LOG_SYNC_INTERVAL, the committing thread that    *)
(* marks the log dirty, and the Drop implementation that stops the thread  *)
(* and performs one last fsync.                                            *)
(*                                                                         *)
(* Three processes share a mutex-protected flag `dirty', an atomic flag    *)
(* `stop' and a condition variable `changed'.  A thread that calls wait    *)
(* releases the mutex and joins the wait set in one step; notify_one       *)
(* removes it from the wait set; a thread outside the wait set is not      *)
(* affected by a notification.  Every step below touches one shared object.*)
(*                                                                         *)
(* The content of the log is abstracted to two counters: how many          *)
(* transactions were appended, and how many of them the last successful    *)
(* fsync covered.                                                          *)
(***************************************************************************)
EXTENDS Naturals, TLAPS

CONSTANTS
    MaxAppends,      \* bound: transactions appended in a behaviour
    MaxSyncFailures  \* bound: fsync calls that return an error

ASSUME BoundsAssumption == MaxAppends \in Nat /\ MaxSyncFailures \in Nat

VARIABLES
    dirty,     \* Mutex<bool>: appended records still to be synced
    stop,      \* AtomicBool: set by Drop
    lock,      \* which process holds the `dirty' mutex
    syncer,    \* program counter of run_mutation_log_syncer
    inWaitSet, \* the syncer thread is blocked on the condition variable
    writer,    \* program counter of the committing thread
    dropper,   \* program counter of Drop::drop
    finalSync, \* what the last fsync of Drop returned
    appended,  \* transactions written to mutations.jsonl
    synced,    \* transactions covered by a successful fsync
    failures   \* fsync calls that failed so far

flags == <<dirty, stop, lock, inWaitSet>>
procs == <<syncer, writer, dropper>>
disk  == <<finalSync, appended, synced, failures>>
vars  == <<flags, procs, disk>>

Free == "free"

SyncerStates ==
    {"lock", "check", "wait", "waiting", "relock",      \* lines 260-270
     "stopped?", "timed", "timedWait",                   \* lines 271-280
     "timedWaiting", "timedRelock",                      \* lines 281-286
     "decide", "sync", "redirty", "exited"}             \* lines 287-302

WriterStates  == {"idle", "appended", "locked"}
DropperStates == {"live", "notify", "join", "finalLock", "finalSync", "dropped"}

\* The syncer thread owns the mutex from a successful lock until the next
\* wait, continue or return.
SyncerHolds ==
    {"check", "wait", "stopped?", "timed", "timedWait", "decide"}

TypeOK ==
    /\ dirty \in BOOLEAN
    /\ stop \in BOOLEAN
    /\ lock \in {Free, "syncer", "writer"}
    /\ syncer \in SyncerStates
    /\ inWaitSet \in BOOLEAN
    /\ writer \in WriterStates
    /\ dropper \in DropperStates
    /\ finalSync \in {"none", "ok", "failed"}
    /\ appended \in 0..MaxAppends
    /\ synced \in Nat
    /\ failures \in 0..MaxSyncFailures

\* MutationLogSyncer::spawn.  When the thread cannot be started the handle is
\* None: there is no delayed sync and Drop has nothing to join.
Init ==
    /\ dirty = FALSE
    /\ stop = FALSE
    /\ lock = Free
    /\ syncer \in {"lock", "exited"}
    /\ inWaitSet = FALSE
    /\ writer = "idle"
    /\ dropper = "live"
    /\ finalSync = "none"
    /\ appended = 0
    /\ synced = 0
    /\ failures = 0

-----------------------------------------------------------------------------
(* The committing thread.  It holds the commit lock, so there is one at a  *)
(* time, and it keeps the syncer alive: Drop cannot have started.          *)

\* append_committed_transaction returned: the records are in the file.
AppendTransaction ==
    /\ writer = "idle"
    /\ dropper = "live"
    /\ appended < MaxAppends
    /\ appended' = appended + 1
    /\ writer' = "appended"
    /\ UNCHANGED <<flags, syncer, dropper, finalSync, synced, failures>>

\* mark_dirty, first half: the mutex is taken and the flag is raised.
MarkDirty ==
    /\ writer = "appended"
    /\ lock = Free
    /\ lock' = "writer"
    /\ dirty' = TRUE
    /\ writer' = "locked"
    /\ UNCHANGED <<stop, inWaitSet, syncer, dropper, disk>>

\* Mutant: mark_dirty forgets to notify the syncer thread.
MarkDirtyNotify_Silent ==
    /\ writer = "locked"
    /\ lock' = Free
    /\ writer' = "idle"
    /\ UNCHANGED <<dirty, stop, inWaitSet, syncer, dropper, disk>>

\* mark_dirty, second half: notify_one while the guard is held, then return.
MarkDirtyNotify ==
    /\ writer = "locked"
    /\ inWaitSet' = FALSE
    /\ lock' = Free
    /\ writer' = "idle"
    /\ UNCHANGED <<dirty, stop, syncer, dropper, disk>>

-----------------------------------------------------------------------------
(* run_mutation_log_syncer                                                 *)

\* Acquiring the mutex: at the top of the loop, and again inside wait and
\* wait_timeout once the thread has left the wait set.
SyncerLock ==
    /\ lock = Free
    /\ \/ syncer = "lock" /\ syncer' = "check"
       \/ syncer = "relock" /\ syncer' = "check"
       \/ syncer = "timedRelock" /\ syncer' = "timed"
    /\ lock' = "syncer"
    /\ UNCHANGED <<dirty, stop, inWaitSet, writer, dropper, disk>>

\* Mutant: the wait loop goes on while either flag is down.
SyncerCheck_EitherFlag ==
    /\ syncer = "check"
    /\ syncer' = IF ~dirty \/ ~stop THEN "wait" ELSE "stopped?"
    /\ UNCHANGED <<flags, writer, dropper, disk>>

\* while !*dirty && !stop: the flag is read under the mutex, stop is an atomic
\* that Drop may set at any time.
SyncerCheck ==
    /\ syncer = "check"
    /\ syncer' = IF ~dirty /\ ~stop THEN "wait" ELSE "stopped?"
    /\ UNCHANGED <<flags, writer, dropper, disk>>

\* changed.wait(dirty): release the mutex and join the wait set atomically.
SyncerWait ==
    /\ syncer = "wait"
    /\ syncer' = "waiting"
    /\ inWaitSet' = TRUE
    /\ lock' = Free
    /\ UNCHANGED <<dirty, stop, writer, dropper, disk>>

\* The thread has been taken out of the wait set and must take the mutex again.
SyncerWakes ==
    /\ ~inWaitSet
    /\ \/ syncer = "waiting" /\ syncer' = "relock"
       \/ syncer = "timedWaiting" /\ syncer' = "timedRelock"
    /\ UNCHANGED <<flags, writer, dropper, disk>>

\* A condition variable may also wake a waiter without a notification.
SpuriousWakeup ==
    /\ inWaitSet
    /\ inWaitSet' = FALSE
    /\ UNCHANGED <<dirty, stop, lock, procs, disk>>

\* if stop { return }, after the first wait loop.
SyncerStopped ==
    /\ syncer = "stopped?"
    /\ IF stop
       THEN syncer' = "exited" /\ lock' = Free
       ELSE syncer' = "timed" /\ UNCHANGED lock
    /\ UNCHANGED <<dirty, stop, inWaitSet, writer, dropper, disk>>

\* while !stop: leave the batching window when it has elapsed (or stop is set),
\* otherwise wait for the remaining time.
SyncerTimedLeave ==
    /\ syncer = "timed"
    /\ syncer' = "decide"
    /\ UNCHANGED <<flags, writer, dropper, disk>>

SyncerTimedRemaining ==
    /\ syncer = "timed"
    /\ ~stop
    /\ syncer' = "timedWait"
    /\ UNCHANGED <<flags, writer, dropper, disk>>

\* changed.wait_timeout(dirty, remaining)
SyncerTimedWait ==
    /\ syncer = "timedWait"
    /\ syncer' = "timedWaiting"
    /\ inWaitSet' = TRUE
    /\ lock' = Free
    /\ UNCHANGED <<dirty, stop, writer, dropper, disk>>

\* wait_timeout gives up: the remaining time of the window is over.
SyncerTimeout ==
    /\ syncer = "timedWaiting"
    /\ syncer' = "timedRelock"
    /\ inWaitSet' = FALSE
    /\ UNCHANGED <<dirty, stop, lock, writer, dropper, disk>>

\* Mutant: the guard is not dropped before the fsync.  It is dropped at the end
\* of the iteration, but a failed fsync takes the mutex again before that.
SyncerDecide_KeepsGuard ==
    /\ syncer = "decide"
    /\ \/ stop /\ syncer' = "exited" /\ lock' = Free /\ UNCHANGED <<dirty, synced, failures>>
       \/ ~stop /\ ~dirty /\ syncer' = "lock" /\ lock' = Free
          /\ UNCHANGED <<dirty, synced, failures>>
       \/ /\ ~stop /\ dirty /\ dirty' = FALSE
          /\ \/ syncer' = "lock" /\ lock' = Free /\ synced' = appended /\ UNCHANGED failures
             \/ /\ failures < MaxSyncFailures
                /\ failures' = failures + 1
                /\ syncer' = "redirty"
                /\ UNCHANGED <<lock, synced>>
    /\ UNCHANGED <<stop, inWaitSet, writer, dropper, finalSync, appended>>

\* if stop { return }; if !dirty { continue }; dirty = false; drop(guard).
SyncerDecide ==
    /\ syncer = "decide"
    /\ lock' = Free
    /\ \/ stop /\ syncer' = "exited" /\ UNCHANGED dirty
       \/ ~stop /\ ~dirty /\ syncer' = "lock" /\ UNCHANGED dirty
       \/ ~stop /\ dirty /\ syncer' = "sync" /\ dirty' = FALSE
    /\ UNCHANGED <<stop, inWaitSet, writer, dropper, disk>>

\* mutation_log::sync succeeds: everything appended so far is on the disk.
SyncerSync ==
    /\ syncer = "sync"
    /\ synced' = appended
    /\ syncer' = "lock"
    /\ UNCHANGED <<flags, writer, dropper, finalSync, appended, failures>>

\* Mutant: a failed delayed sync is logged and forgotten.
SyncerSyncFails_NoRetry ==
    /\ syncer = "sync"
    /\ failures < MaxSyncFailures
    /\ failures' = failures + 1
    /\ syncer' = "lock"
    /\ UNCHANGED <<flags, writer, dropper, finalSync, appended, synced>>

\* mutation_log::sync fails: the flag must be raised again.
SyncerSyncFails ==
    /\ syncer = "sync"
    /\ failures < MaxSyncFailures
    /\ failures' = failures + 1
    /\ syncer' = "redirty"
    /\ UNCHANGED <<flags, writer, dropper, finalSync, appended, synced>>

SyncerRedirty ==
    /\ syncer = "redirty"
    /\ lock = Free
    /\ dirty' = TRUE
    /\ syncer' = "lock"
    /\ UNCHANGED <<stop, lock, inWaitSet, writer, dropper, disk>>

-----------------------------------------------------------------------------
(* Drop for MutationLogSyncer.  It runs when the last handle of the store  *)
(* goes away, so no commit is in progress.                                 *)

DropSetStop ==
    /\ dropper = "live"
    /\ writer = "idle"
    /\ stop' = TRUE
    /\ dropper' = "notify"
    /\ UNCHANGED <<dirty, lock, inWaitSet, syncer, writer, disk>>

\* changed.notify_one() without the mutex.
DropNotify ==
    /\ dropper = "notify"
    /\ inWaitSet' = FALSE
    /\ dropper' = "join"
    /\ UNCHANGED <<dirty, stop, lock, syncer, writer, disk>>

DropJoin ==
    /\ dropper = "join"
    /\ syncer = "exited"
    /\ dropper' = "finalLock"
    /\ UNCHANGED <<flags, syncer, writer, disk>>

\* Mutant: the final sync is skipped.
DropFinalLock_NoSync ==
    /\ dropper = "finalLock"
    /\ lock = Free
    /\ dirty' = FALSE
    /\ dropper' = "dropped"
    /\ UNCHANGED <<stop, lock, inWaitSet, syncer, writer, disk>>

\* sync_dirty_mutation_log_now: read and clear the flag under the mutex.
DropFinalLock ==
    /\ dropper = "finalLock"
    /\ lock = Free
    /\ dirty' = FALSE
    /\ dropper' = IF dirty THEN "finalSync" ELSE "dropped"
    /\ UNCHANGED <<stop, lock, inWaitSet, syncer, writer, disk>>

DropFinalSync ==
    /\ dropper = "finalSync"
    /\ dropper' = "dropped"
    /\ \/ /\ synced' = appended
          /\ finalSync' = "ok"
          /\ UNCHANGED failures
       \/ /\ failures < MaxSyncFailures
          /\ failures' = failures + 1
          /\ finalSync' = "failed"
          /\ UNCHANGED synced
    /\ UNCHANGED <<flags, syncer, writer, appended>>

-----------------------------------------------------------------------------

SyncerStep ==
    \/ SyncerLock \/ SyncerCheck \/ SyncerWait \/ SyncerWakes
    \/ SyncerStopped \/ SyncerTimedLeave \/ SyncerTimedRemaining
    \/ SyncerTimedWait \/ SyncerTimeout
    \/ SyncerDecide \/ SyncerSync \/ SyncerSyncFails \/ SyncerRedirty

WriterStep == AppendTransaction \/ MarkDirty \/ MarkDirtyNotify

DropStep ==
    DropSetStop \/ DropNotify \/ DropJoin \/ DropFinalLock \/ DropFinalSync

Next == SyncerStep \/ WriterStep \/ DropStep \/ SpuriousWakeup

\* The operating system runs every runnable thread: a started commit, the
\* syncer thread and a started drop are not suspended forever, and a mutex
\* that is free again and again is eventually granted to a thread that asks
\* for it.  Nothing forces a new commit, a drop or a spurious wakeup; the
\* batching window is over after MUTATION_LOG_SYNC_INTERVAL at the latest.
Fairness ==
    /\ WF_vars(SyncerStep)
    /\ SF_vars(SyncerLock)
    /\ SF_vars(SyncerTimedLeave)
    /\ SF_vars(SyncerRedirty)
    /\ SF_vars(MarkDirty)
    /\ WF_vars(MarkDirtyNotify)
    /\ WF_vars(DropNotify \/ DropJoin \/ DropFinalSync)
    /\ SF_vars(DropFinalLock)

Spec == Init /\ [][Next]_vars
FairSpec == Spec /\ Fairness

-----------------------------------------------------------------------------
(* Properties                                                              *)

\* Records that are in the file but not yet on the disk are never forgotten:
\* the dirty flag is up, or somebody is between the append and mark_dirty, or
\* the syncer or Drop has taken the flag over and is about to sync (or to put
\* it back), or the final sync of Drop was tried and failed.
DirtyCoversUnsynced ==
    synced < appended =>
        \/ dirty
        \/ writer = "appended"
        \/ syncer \in {"sync", "redirty"}
        \/ dropper = "finalSync"
        \/ finalSync = "failed"

\* A clean shutdown does not skip the pending batch: once Drop has returned,
\* every appended transaction is on the disk unless the last fsync failed.
CleanShutdownSyncs ==
    dropper = "dropped" /\ finalSync # "failed" => synced = appended

\* The thread's promise to commits: as long as it is running and nobody shuts
\* the store down, whatever was appended is eventually synced, however wakeups,
\* further commits and failed syncs interleave.
DelayedSyncHappens ==
    \A n \in 1..MaxAppends :
        (appended = n /\ syncer # "exited") ~> (synced >= n \/ stop)

\* A commit is never held up for ever by the delayed sync: mark_dirty gets the
\* mutex and returns, whether the thread waits out its window, fsyncs or takes
\* the mutex once more after an fsync that failed.
CommitsReturn == writer = "appended" ~> writer = "idle"

\* A shutdown that finds the dirty flag up terminates: Drop returns.
PendingBatchShutdownCompletes == (stop /\ dirty) ~> (dropper = "dropped")

\* Every shutdown terminates.  Drop stores `stop' and notifies without the
\* mutex, so the notification can fall between the syncer's test of `stop' and
\* its wait.
ShutdownCompletes == stop ~> (dropper = "dropped")
-----------------------------------------------------------------------------
(***************************************************************************)
(* Proofs.  For any number of commits and of failing fsync calls: the      *)
(* delayed sync never forgets a record, and a clean shutdown leaves        *)
(* nothing unsynced.                                                       *)
(***************************************************************************)

\* The mutex is held by exactly the process whose program counter says so, and
\* a committing thread inside mark_dirty has raised the flag.
MutexDiscipline ==
    /\ lock = "syncer" <=> syncer \in SyncerHolds
    /\ lock = "writer" <=> writer = "locked"
    /\ writer = "locked" => dirty

\* Drop runs alone: no commit is in progress once it started, and the thread
\* has returned before the final sync begins.
DropRunsAlone ==
    /\ dropper # "live" => writer = "idle"
    /\ dropper \in {"finalLock", "finalSync", "dropped"} => syncer = "exited"
    /\ dropper \in {"finalSync", "dropped"} => ~dirty
    /\ finalSync # "none" => dropper = "dropped"

SyncedWithinAppended == synced <= appended

IInv ==
    /\ TypeOK
    /\ MutexDiscipline
    /\ DropRunsAlone
    /\ SyncedWithinAppended
    /\ DirtyCoversUnsynced

\* The initial state satisfies the inductive invariant.
LEMMA InitIInv == Init => IInv
<1> SUFFICES ASSUME Init PROVE IInv
  OBVIOUS
<1> USE DEF Init
<1>1. TypeOK
  <2>1. 0 \in 0..MaxAppends /\ 0 \in 0..MaxSyncFailures /\ 0 \in Nat
    BY BoundsAssumption
  <2>2. syncer \in SyncerStates
    BY DEF SyncerStates
  <2>3. QED
    BY <2>1, <2>2, Zenon DEF TypeOK, WriterStates, DropperStates, Free
<1>2. MutexDiscipline
  BY DEF MutexDiscipline, SyncerHolds, Free
<1>3. DropRunsAlone
  BY DEF DropRunsAlone
<1>4. SyncedWithinAppended /\ DirtyCoversUnsynced
  BY DEF SyncedWithinAppended, DirtyCoversUnsynced
<1>5. QED
  BY <1>1, <1>2, <1>3, <1>4 DEF IInv

\* No step of the committing thread, of the syncer thread or of Drop breaks it.
LEMMA StepIInv == IInv /\ [Next]_vars => IInv'
<1> SUFFICES ASSUME IInv, [Next]_vars PROVE IInv'
  OBVIOUS
<1> USE BoundsAssumption
    DEF IInv, TypeOK, MutexDiscipline, DropRunsAlone, SyncedWithinAppended,
        DirtyCoversUnsynced, SyncerStates, WriterStates, DropperStates,
        SyncerHolds, Free, flags, procs, disk
<1>1. CASE AppendTransaction
  BY <1>1 DEF AppendTransaction
<1>2. CASE MarkDirty
  BY <1>2 DEF MarkDirty
<1>3. CASE MarkDirtyNotify
  BY <1>3 DEF MarkDirtyNotify
<1>4. CASE SyncerLock
  BY <1>4 DEF SyncerLock
<1>5. CASE SyncerCheck
  BY <1>5 DEF SyncerCheck
<1>6. CASE SyncerWait
  BY <1>6 DEF SyncerWait
<1>7. CASE SyncerWakes
  BY <1>7 DEF SyncerWakes
<1>8. CASE SpuriousWakeup
  BY <1>8 DEF SpuriousWakeup
<1>9. CASE SyncerStopped
  BY <1>9 DEF SyncerStopped
<1>10. CASE SyncerTimedLeave \/ SyncerTimedRemaining
  BY <1>10 DEF SyncerTimedLeave, SyncerTimedRemaining
<1>11. CASE SyncerTimedWait \/ SyncerTimeout
  BY <1>11 DEF SyncerTimedWait, SyncerTimeout
<1>12. CASE SyncerDecide
  BY <1>12 DEF SyncerDecide
<1>13. CASE SyncerSync
  BY <1>13 DEF SyncerSync
<1>14. CASE SyncerSyncFails
  BY <1>14 DEF SyncerSyncFails
<1>15. CASE SyncerRedirty
  BY <1>15 DEF SyncerRedirty
<1>16. CASE DropSetStop
  BY <1>16 DEF DropSetStop
<1>17. CASE DropNotify
  BY <1>17 DEF DropNotify
<1>18. CASE DropJoin
  BY <1>18 DEF DropJoin
<1>19. CASE DropFinalLock
  BY <1>19 DEF DropFinalLock
<1>20. CASE DropFinalSync
  BY <1>20 DEF DropFinalSync
<1>21. CASE UNCHANGED vars
  BY <1>21 DEF vars
<1>22. QED
  BY <1>1, <1>2, <1>3, <1>4, <1>5, <1>6, <1>7, <1>8, <1>9, <1>10, <1>11, <1>12,
     <1>13, <1>14, <1>15, <1>16, <1>17, <1>18, <1>19, <1>20, <1>21
  DEF Next, SyncerStep, WriterStep, DropStep

\* The flags, program counters and counters of the delayed sync keep their types.
THEOREM TypeCorrect == Spec => []TypeOK
<1>1. IInv => TypeOK
  BY DEF IInv
<1>2. QED
  BY <1>1, InitIInv, StepIInv, PTL DEF Spec

\* A record that was appended and is not on the disk is always flagged, being
\* flagged, or being synced: no interleaving of commits, the syncer thread and
\* Drop forgets it.
THEOREM NoForgottenRecord == Spec => []DirtyCoversUnsynced
<1>1. IInv => DirtyCoversUnsynced
  BY DEF IInv
<1>2. QED
  BY <1>1, InitIInv, StepIInv, PTL DEF Spec

\* When Drop has returned and its last fsync did not fail, everything that was
\* appended is on the disk.
THEOREM CleanShutdown == Spec => []CleanShutdownSyncs
<1>1. IInv => CleanShutdownSyncs
  BY BoundsAssumption
     DEF IInv, TypeOK, DropRunsAlone, SyncedWithinAppended, DirtyCoversUnsynced,
         CleanShutdownSyncs
<1>2. QED
  BY <1>1, InitIInv, StepIInv, PTL DEF Spec
=============================================================================
