------------------------- MODULE MC_RecurringTasks -------------------------
(* Instances of RecurringTasks: agents, cards and schedules. *)
EXTENDS RecurringTasks

CONSTANTS t1, t2, a1, a2

Only1      == [t \in Tasks |-> a1]
Only2      == [t \in Tasks |-> a2]
OwnAgents  == (t1 :> a1) @@ (t2 :> a2)
SameAgent  == (t1 :> a1) @@ (t2 :> a1)
Patient    == [t \in Tasks |-> [catchUp |-> TRUE, skipWhenBusy |-> FALSE]]
Strict     == [t \in Tasks |-> [catchUp |-> FALSE, skipWhenBusy |-> TRUE]]
Mixed      == (t1 :> [catchUp |-> TRUE, skipWhenBusy |-> FALSE]) @@ (t2 :> [catchUp |-> FALSE, skipWhenBusy |-> TRUE])
EveryOne   == Interval(1)
EveryTwo   == Interval(2)
OnSomeDays == Daily(1, {1})
Every1     == {EveryOne}
Every2     == {EveryTwo}
Grids      == {EveryOne, OnSomeDays}
=============================================================================
