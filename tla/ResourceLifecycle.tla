------------------------- MODULE ResourceLifecycle -------------------------
(***************************************************************************)
(* What a finalizer promises: the abstract life of a Kubernetes object     *)
(* that owns resources outside the cluster.                                *)
(*                                                                         *)
(*   - a resource is acquired only while the finalizer is persisted;       *)
(*   - a resource is given up only once deletion has been asked for;       *)
(*   - the object goes only when it holds nothing any more, and then it    *)
(*     never holds anything again.                                         *)
(***************************************************************************)
CONSTANT Owned  \* the resources the object may own

VARIABLES
    phase,  \* the object is "active", "deleting" or "gone"
    guard,  \* its finalizer is persisted
    held    \* the resources it owns

lvars == <<phase, guard, held>>

LInit == phase = "active" /\ guard = FALSE /\ held = {}

Protect ==
    /\ phase = "active" /\ ~guard
    /\ guard' = TRUE
    /\ UNCHANGED <<phase, held>>

Acquire ==
    /\ guard
    /\ \E r \in Owned : held' = held \cup {r}
    /\ UNCHANGED <<phase, guard>>

RequestDelete ==
    /\ phase = "active"
    /\ phase' = IF guard THEN "deleting" ELSE "gone"
    /\ UNCHANGED <<guard, held>>

GiveUp ==
    /\ phase = "deleting"
    /\ \E r \in Owned : held' = held \ {r}
    /\ UNCHANGED <<phase, guard>>

Finish ==
    /\ phase = "deleting" /\ held = {}
    /\ phase' = "gone" /\ guard' = FALSE
    /\ UNCHANGED held

LNext == Protect \/ Acquire \/ RequestDelete \/ GiveUp \/ Finish

LSpec == LInit /\ [][LNext]_lvars

=============================================================================
