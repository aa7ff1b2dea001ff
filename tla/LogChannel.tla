---------------------------- MODULE LogChannel ----------------------------
(***************************************************************************)
(* What an asynchronous log promises its callers, without any thread,      *)
(* lock or queue: entries come out of the channel in the order they went   *)
(* in, each one once.  When the channel is shut down it finishes either    *)
(* with every entry delivered or with none of them.                        *)
(***************************************************************************)
EXTENDS Naturals, Sequences

CONSTANT Entry

VARIABLES accepted,    \* the entries callers have handed over, in order
          delivered,   \* the entries written to the log device, in order
          status       \* "open", "closing" or "done"

vars == <<accepted, delivered, status>>

Init == accepted = <<>> /\ delivered = <<>> /\ status = "open"

Accept ==
  /\ status = "open"
  /\ \E e \in Entry : accepted' = Append(accepted, e)
  /\ UNCHANGED <<delivered, status>>

Deliver ==
  /\ status # "done"
  /\ Len(delivered) < Len(accepted)
  /\ delivered' = Append(delivered, accepted[Len(delivered) + 1])
  /\ UNCHANGED <<accepted, status>>

Close ==
  /\ status = "open"
  /\ status' = "closing"
  /\ UNCHANGED <<accepted, delivered>>

Finish ==
  /\ status = "closing"
  /\ delivered = accepted \/ delivered = <<>>
  /\ status' = "done"
  /\ UNCHANGED <<accepted, delivered>>

Next == Accept \/ Deliver \/ Close \/ Finish

Spec == Init /\ [][Next]_vars
============================================================================
