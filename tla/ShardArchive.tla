----------------------------- MODULE ShardArchive -----------------------------
(***************************************************************************)
(* What the research data directory promises its readers: per day, nothing *)
(* or one whole dataset, which then stays.                                  *)
(***************************************************************************)
CONSTANT Days

VARIABLE kept   \* kept[d]: "absent" or "whole"

Init == kept = [d \in Days |-> "absent"]

Preserve(d) ==
  /\ kept[d] = "absent"
  /\ kept' = [kept EXCEPT ![d] = "whole"]

Spec == Init /\ [][\E d \in Days : Preserve(d)]_kept
=============================================================================
