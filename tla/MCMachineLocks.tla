-------------------------- MODULE MCMachineLocks --------------------------
(* Three objects: two share a process, so that both levels of the lock are  *)
(* contended, and one lives in another process.  One of them is renamed.    *)
EXTENDS MachineLocks, TLC

CONSTANTS o1, o2, o3, p1, p2, f1, f2

MCProcessOf == (o1 :> p1) @@ (o2 :> p1) @@ (o3 :> p2)
MCNamesOf   == (o1 :> {f1, f2}) @@ (o2 :> {f1}) @@ (o3 :> {f1})

\* The smallest instance: one object of one name.
OneProcess == (o1 :> p1)
OneName    == (o1 :> {f1})
============================================================================
