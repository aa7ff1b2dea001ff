------------------------- MODULE MCUniversalMutex -------------------------
(* Two agents share a machine, the third is on another one.  The second     *)
(* accepts the id of the first, as after a crash of the same program.       *)
EXTENDS UniversalMutex, TLC

CONSTANTS a1, a2, a3, m1, m2, i1, i2, i3

MCMachineOf == (a1 :> m1) @@ (a2 :> m1) @@ (a3 :> m2)
MCIdOf      == (a1 :> i1) @@ (a2 :> i2) @@ (a3 :> i3)
MCAccepted  == (a1 :> {i1}) @@ (a2 :> {i1, i2}) @@ (a3 :> {i3})

\* Two agents on two machines, which share nothing but the file.
TwoMachines == (a1 :> m1) @@ (a3 :> m2)
TwoIds      == (a1 :> i1) @@ (a3 :> i3)
OnlyOwnIds  == (a1 :> {i1}) @@ (a3 :> {i3})
===========================================================================
