------------------------ MODULE SettingsDurability ------------------------
(***************************************************************************)
(* Settings as a cache of its file.  The history variable estranged records *)
(* the two events after which cache and file may differ although the cache *)
(* is marked clean: RejectChanges, and a failed read or write.  The next    *)
(* write, or the next successful reload, ends it.                           *)
(***************************************************************************)
EXTENDS Settings

VARIABLE estranged

dvars == <<vars, estranged>>

DInit == Init /\ estranged = FALSE

RejectOrFail ==
  \/ \E c \in Clients : RejectChanges(c)
  \/ ReadFails \/ WriteFails \/ CloseFails

Reconcile == StartWrite \/ ReadFile \/ Construct

DNext ==
  /\ Next
  /\ estranged' = IF RejectOrFail THEN TRUE ELSE IF Reconcile THEN FALSE ELSE estranged

DSpec == DInit /\ [][DNext]_dvars /\ Fairness

OnDisk == file.state # "damaged" /\ file.lines = data

\* An idle object whose cache is clean has it on disk, although callers go on
\* changing the cache while the worker writes a copy of it (m_dirty is cleared
\* when _commit_changes takes the copy, not when the write ends), unless changes
\* were rejected or the file failed since.
CleanCacheIsOnDisk ==
  (life = "open" /\ command = "sleep" /\ ~dirty /\ ~estranged) => OnDisk

\* When the destructor is done, everything the clients set is on disk.
DestructorSaves == (life = "joining" /\ ~estranged) => OnDisk

\* The same during a session, seen from every position of the worker: what the
\* two properties above rest on.
Durable ==
  ~estranged /\ life # "gone" =>
    /\ worker \in {"ready", "exited"} /\ ~dirty => OnDisk
    /\ worker \in {"opening", "writing", "sealing", "written"} /\ ~dirty => data = copy
    /\ worker = "written" => file = [state |-> "sealed", lines |-> copy]
    /\ worker = "loaded" => file.state # "damaged" /\ file.lines = copy
    /\ worker \notin {"loadFailed", "writeFailed"}
    /\ life = "saving" /\ (command = "sleep" \/ worker # "ready") => ~dirty
    /\ life \in {"leaving", "joining"} => ~dirty
============================================================================
