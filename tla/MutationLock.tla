---------------------------- MODULE MutationLock ----------------------------
(***************************************************************************)
(* The advisory OS lock on pmux.lock, internal/adapter/lock/lock.go.  The  *)
(* OS lock is the sole authority (the JSON metadata in the file is         *)
(* diagnostic and left out); the kernel drops it when its holder dies.     *)
(***************************************************************************)
CONSTANT NoProc

VARIABLE lock   \* the process whose descriptor holds the OS lock, or NoProc

LockInit == lock = NoProc

\* Mutant: flock is not consulted.
AlwaysFree == TRUE

\* platformTryLock would grant the lock.
Free == lock = NoProc

\* TryAcquire returned a handle.
TryAcquireOk(p) == Free /\ lock' = p

\* TryAcquire returned BusyError, or failed to open, lock or write the file;
\* in the last case it has released the lock again.
TryAcquireErr(p) == UNCHANGED lock

\* Handle.Release.
Release(p) == lock' = NoProc

\* The kernel closes a dead process's descriptors.
Abandon(p) == lock' = IF lock = p THEN NoProc ELSE lock
=============================================================================
