--------------------------- MODULE ManagedObject ---------------------------
(***************************************************************************)
(* One object of the experimental API group and the passes of its          *)
(* controller, at the grain at which the controllers of GKE clusters       *)
(* interact: the object in the API server, and the running pass with its   *)
(* copy of it.                                                             *)
(*                                                                         *)
(* ObjectController has the informer cache and the workqueue in detail.    *)
(* Here a pass may start at any time, since the manager's resync enqueues  *)
(* every object again, and it reads the API server; it may then stay at    *)
(* its first step for as long as it likes, which is how a read gets stale. *)
(***************************************************************************)
EXTENDS Naturals

CONSTANTS
    NoWant, NoSpec, NoStatus,  \* an object that is not there
    MaxFaults                  \* bound: failed calls and crashes

VARIABLES
    obj,    \* the object; its want is written by users, spec and status by its controller
    pass,   \* the running pass: its next step and its copy of the object
    faults  \* faults so far

NoObject == [exists |-> FALSE, deleting |-> FALSE, finalizer |-> FALSE,
             want |-> NoWant, spec |-> NoSpec, status |-> NoStatus]

NoPass == [pc |-> "Idle", local |-> NoObject]

Created(want) == [NoObject EXCEPT !.exists = TRUE, !.want = want]

\* A deleted object goes once it has no finalizer.
Settle(o) == IF o.deleting /\ ~o.finalizer THEN NoObject ELSE o

UserDelete ==
    /\ obj.exists /\ ~obj.deleting
    /\ obj' = Settle([obj EXCEPT !.deleting = TRUE])

UserEdit(want) == obj.exists /\ obj.want # want /\ obj' = [obj EXCEPT !.want = want]

-----------------------------------------------------------------------------
(* The running pass                                                        *)

At(step) == pass.pc = step

Fault == faults < MaxFaults /\ faults' = faults + 1

Begin(step) ==
    /\ At("Idle") /\ obj.exists
    /\ pass' = [pc |-> step, local |-> obj]
    /\ UNCHANGED <<obj, faults>>

Go(step, scope) == pass' = [pc |-> step, local |-> scope] /\ UNCHANGED <<obj, faults>>

\* The pass returns, with an error or not: the deferred Close is left.
Return(scope) == Go("Close", scope)

CallFails(scope) ==
    /\ Fault
    /\ pass' = [pc |-> "Close", local |-> scope]
    /\ UNCHANGED obj

\* AddFinalizer and PatchObject; an object that is gone is not patched.
AddFinalizer(next) ==
    /\ At("Finalizer")
    /\ LET scope == [pass.local EXCEPT !.finalizer = TRUE]
           patched == IF obj.exists THEN [obj EXCEPT !.finalizer = TRUE] ELSE obj
       IN  \/ /\ obj.exists /\ obj' = patched
              /\ pass' = [pc |-> next, local |-> scope]
              /\ UNCHANGED faults
           \/ /\ ~obj.exists /\ Return(scope)
           \/ /\ ~pass.local.finalizer /\ Fault
              /\ obj' \in {obj, patched}
              /\ pass' = [pc |-> "Close", local |-> scope]

\* What Close may leave: the patch of metadata and spec, the patch of the status, both
\* or none of them.
Metadata(o) == [o EXCEPT !.finalizer = pass.local.finalizer, !.spec = pass.local.spec]

Status(o) == [o EXCEPT !.status = pass.local.status]

\* PatchObject of the deferred Close.
Close ==
    /\ At("Close")
    /\ pass' = NoPass
    /\ \/ ~obj.exists /\ UNCHANGED <<obj, faults>>
       \/ obj.exists /\ obj' = Settle(Metadata(Status(obj))) /\ UNCHANGED faults
       \/ /\ obj.exists /\ Fault
          /\ obj' \in {obj, Settle(Metadata(obj)), Status(obj)}

Stop == pass' = NoPass

-----------------------------------------------------------------------------
(* Types                                                                   *)

ObjectType(Want, Spec, Statuses) ==
    obj \in [exists : BOOLEAN, deleting : BOOLEAN, finalizer : BOOLEAN,
             want : Want, spec : Spec, status : Statuses]

PassType(Steps, Want, Spec, Statuses) ==
    pass \in [pc : Steps,
              local : [exists : BOOLEAN, deleting : BOOLEAN, finalizer : BOOLEAN,
                       want : Want, spec : Spec, status : Statuses]]

=============================================================================
