--------------------------- MODULE ExclusiveLocks ---------------------------
(***************************************************************************)
(* What a machine lock promises to those who build on it: a file name is   *)
(* locked by one user at a time, for reading as well, and those who are    *)
(* refused or fail change nothing.  MachineLocks implements this; the file *)
(* device and the process status indicator use it.                         *)
(***************************************************************************)
CONSTANTS Lockers,     \* those who lock
          LockFiles,   \* the names of the lock files
          NoOwner      \* the owner of a lock that is free

ASSUME NoOwnerAssumption == NoOwner \notin Lockers

VARIABLE owner         \* who has each file name locked

LocksFree == owner = [f \in LockFiles |-> NoOwner]

\* A bug to detect: a lock is shared.
TakeLockShared(u, f) == owner' = [owner EXCEPT ![f] = u]

TakeLock(u, f) == owner[f] = NoOwner /\ owner' = [owner EXCEPT ![f] = u]
GiveLock(u, f) == owner[f] = u /\ owner' = [owner EXCEPT ![f] = NoOwner]

\* A process that dies, or loses an object, has its locks taken away.
DropLocks(S) == owner' = [f \in LockFiles |-> IF owner[f] \in S THEN NoOwner ELSE owner[f]]

LocksNext ==
  \/ \E u \in Lockers, f \in LockFiles : TakeLock(u, f) \/ GiveLock(u, f)
  \/ \E S \in SUBSET Lockers : DropLocks(S)

LocksSpec == LocksFree /\ [][LocksNext]_owner
=============================================================================
