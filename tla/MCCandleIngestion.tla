-------------------------- MODULE MCCandleIngestion --------------------------
(***************************************************************************)
(* CandleIngestion with one history variable, for the properties that only  *)
(* hold of ingestions that did not overlap.                                 *)
(***************************************************************************)
EXTENDS CandleIngestion

VARIABLE overlapped   \* some ingestion began while another was under way

FollowedInit == Init /\ overlapped = FALSE
FollowedNext ==
  /\ Next
  /\ overlapped' = (overlapped \/ \E a, b \in Writers :
                      a # b /\ step[a] # "idle" /\ step[b] = "idle" /\ step'[b] # "idle")
FollowedSpec == FollowedInit /\ [][FollowedNext]_<<ingestVars, overlapped>>

\* Bound: candles are corrected only until two ingestions overlap.
FewCorrections == overlapped => \A s \in Slots : base[s] <= 1

MCNext == FollowedNext /\ FewCorrections'
MCSpec == FollowedInit /\ [][MCNext]_<<ingestVars, overlapped>>

\* A derived candle is the aggregate of what is stored, also after a
\* correction, as long as no two ingestions overlap.
CurrentUnlessOverlapped == ~overlapped => DerivedIsCurrent

\* An ingestion that returns leaves every window it touched current, also
\* those an abandoned one had left behind, unless ingestions overlapped.
RederivesTouched ==
  [][\A a \in Writers :
       (step[a] = "store" /\ step'[a] = "idle" /\ failures' = failures /\ ~overlapped) =>
         \A d \in Durations : \A w \in TouchedWindows(a, d) :
           Complete(w) => derived'[w] = Aggregate(w)]_ingestVars

-----------------------------------------------------------------------------
(* Why: until ingestions overlap, the one under way reads what stays stored *)
(* until it has stored the aggregate, so each window that is not current is *)
(* still on its way.                                                       *)

OneAtATime == \A a, b \in Writers : a # b => step[a] = "idle" \/ step[b] = "idle"

FoundIsFresh == \A a \in Writers : \A w \in DOMAIN found[a] : found[a][w] = Aggregate(w)

StaleIsPending ==
  failures = 0 =>
    \A w \in Windows :
      Complete(w) /\ derived[w] # Aggregate(w) => \E a \in Writers : Pending(a, w)

TouchedIsOnTheWay ==
  \A a \in Writers : step[a] # "idle" =>
    \A w \in Windows :
      w \in TouchedWindows(a, w.length) /\ Complete(w) =>
        \/ w.length \in todo[a]
        \/ w \in DOMAIN found[a]
        \/ derived[w] = Aggregate(w)

AloneInv == OneAtATime /\ FoundIsFresh /\ StaleIsPending /\ TouchedIsOnTheWay
FollowedInv == ~overlapped => AloneInv
=============================================================================
