--------------------------- MODULE ObservationLog ---------------------------
(***************************************************************************)
(* What market_frames promises its readers: a log of write-once             *)
(* observations. An observation is opened for a time later than every       *)
(* other, over the universe of that instant, and settled once, with the     *)
(* part of the universe that had data. Then it never changes.               *)
(***************************************************************************)
EXTENDS Integers

CONSTANTS Instruments, MaxBoundary

VARIABLES status, universe, seen
vars == <<status, universe, seen>>

Times == 1..MaxBoundary

Init == /\ status = [t \in Times |-> "absent"]
        /\ universe = [t \in Times |-> {}]
        /\ seen = [t \in Times |-> {}]

\* The log only grows at its end: nothing is backfilled.
Open(t, instruments) ==
  /\ \A u \in Times : status[u] # "absent" => u < t
  /\ status' = [status EXCEPT ![t] = "building"]
  /\ universe' = [universe EXCEPT ![t] = instruments]
  /\ UNCHANGED seen

\* COMPLETE is never claimed of a part of the universe.
Settle(t, instruments) ==
  /\ status[t] = "building"
  /\ instruments \subseteq universe[t]
  /\ status' = [status EXCEPT ![t] =
       IF instruments = universe[t] THEN "complete" ELSE "partial"]
  /\ seen' = [seen EXCEPT ![t] = instruments]
  /\ UNCHANGED universe

Step == \E t \in Times, instruments \in SUBSET Instruments :
          Open(t, instruments) \/ Settle(t, instruments)

Spec == Init /\ [][Step]_vars
=============================================================================
