----------------------------- MODULE Singleton -----------------------------
(***************************************************************************)
(* What a singleton lock promises: at most one process holds it, and it    *)
(* passes from one to the next only through a release.  The scheduler's    *)
(* lock (internal/singleton) is this directly: the kernel arbitrates one   *)
(* flock on a file that is never unlinked.  The watch lock, whose file is  *)
(* unlinked by every holder, is shown to implement it (WatchLock).         *)
(***************************************************************************)

CONSTANTS Proc,     \* processes that want the lock
          Nobody    \* the lock is free, and no process

VARIABLE holder

Init == holder = Nobody

\* Acquire: LOCK_EX | LOCK_NB on the one file; the pid written into it is
\* for observers only.
Acquire(p) ==
  /\ holder = Nobody
  /\ holder' = p

\* Release, or the kernel when the holder dies: the descriptor is closed and
\* the file stays.
Release(p) ==
  /\ holder = p
  /\ holder' = Nobody

Next == \E p \in Proc : Acquire(p) \/ Release(p)

Spec == Init /\ [][Next]_holder
=============================================================================
