------------------------------ MODULE DocumentLife ------------------------------
(****************************************************************************)
(* What the approval engine and the handlers promise about the life of a    *)
(* document: it waits for its approvers at will, but once it is out (posted,*)
(* sent, approved) it is never a draft again, and once it is cancelled it   *)
(* stays so.  Nothing is promised about a document that a call has          *)
(* overwritten from a stale read.                                           *)
(****************************************************************************)
CONSTANT Docs

VARIABLE phase  \* of each document

Phases == {"open", "waiting", "out", "cancelled", "overtaken"}

Init == phase = [d \in Docs |-> "open"]

Move(d, from, to) ==
  /\ phase[d] \in from
  /\ phase' = [phase EXCEPT ![d] = to]

\* Submitted to its approvers, and back by rejection or withdrawal.
Submit(d) == Move(d, {"open"}, "waiting")
Return(d) == Move(d, {"waiting"}, "open")

\* Posted, sent, approved or acknowledged, with or without approvers.
Issue(d) == Move(d, {"open", "waiting"}, "out")

Cancel(d) == Move(d, {"open", "waiting", "out"}, "cancelled")

Overtake(d) == Move(d, Phases, "overtaken")

Next ==
  \E d \in Docs : Submit(d) \/ Return(d) \/ Issue(d) \/ Cancel(d) \/ Overtake(d)

Spec == Init /\ [][Next]_phase
================================================================================
