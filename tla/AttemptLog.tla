------------------------------ MODULE AttemptLog ------------------------------
(***************************************************************************)
(* What the exposure log and the run records promise together to whoever   *)
(* trusts a prospective result. An attempt to evaluate is authorized, then *)
(* started, and ends once, if it ends; evidence is recorded only while it  *)
(* is open, under a number of its own; its last event names exactly the    *)
(* evidence it recorded; and nothing of this is ever rewritten.            *)
(***************************************************************************)
EXTENDS Naturals

CONSTANT MaxAttempts

VARIABLES
    events,    \* attempt -> the types of its events
    evidence,  \* attempt -> the numbers of the runs it recorded
    named,     \* attempt -> the runs its events name
    records    \* how many runs there are, of attempts or of others
vars == <<events, evidence, named, records>>

Numbers == 1..MaxAttempts
Open == {"authorized", "started"}

Init ==
    /\ events = [a \in Numbers |-> {}]
    /\ evidence = [a \in Numbers |-> {}]
    /\ named = [a \in Numbers |-> {}]
    /\ records = 0

Authorize(a) ==
    /\ events[a] = {}
    /\ events' = [events EXCEPT ![a] = {"authorized"}]
    /\ UNCHANGED <<evidence, named, records>>

Begin(a) ==
    /\ events[a] = {"authorized"}
    /\ events' = [events EXCEPT ![a] = Open]
    /\ UNCHANGED <<evidence, named, records>>

Record(a) ==
    /\ events[a] = Open
    /\ records' = records + 1
    /\ evidence' = [evidence EXCEPT ![a] = @ \cup {records + 1}]
    /\ UNCHANGED <<events, named>>

\* Without evidence there is no completion.
End(a, outcome) ==
    /\ events[a] = Open
    /\ outcome = "completed" => evidence[a] # {}
    /\ events' = [events EXCEPT ![a] = Open \cup {outcome}]
    /\ named' = [named EXCEPT ![a] = evidence[a]]
    /\ UNCHANGED <<evidence, records>>

\* A run that is no attempt's.
Compare ==
    /\ records' = records + 1
    /\ UNCHANGED <<events, evidence, named>>

Next ==
    \/ \E a \in Numbers :
          \/ Authorize(a) \/ Begin(a) \/ Record(a)
          \/ End(a, "completed") \/ End(a, "failed")
    \/ Compare

Spec == Init /\ [][Next]_vars
=============================================================================
