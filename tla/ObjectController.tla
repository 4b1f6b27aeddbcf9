-------------------------- MODULE ObjectController --------------------------
(***************************************************************************)
(* What the controllers of one guarded object share: the object in the API *)
(* server, the informer cache's copy of it, the workqueue, and a reconcile *)
(* pass with the patch helper of its scope.  A controller instantiates     *)
(* this module, adds the state its passes work on and conjoins to each     *)
(* action below what it does to that state.                                *)
(*                                                                         *)
(* An object has a spec, of which the field the controller writes is kept, *)
(* and a status, a record whose fields are patched one by one.             *)
(***************************************************************************)
EXTENDS Naturals

CONSTANTS
    NoSpec, NoStatus,  \* what the controller writes, before it has
    MaxFaults,         \* bound: failed calls and controller crashes
    MaxEdits           \* bound: changes the environment makes

VARIABLES
    obj,     \* the object in the API server
    cache,   \* the informer cache's copy of it
    queued,  \* the workqueue holds the object's key
    before,  \* the patch helper's snapshot of the running pass
    local,   \* the object the running pass edits
    pc,      \* next step of the running pass, "Idle" when there is none
    failed,  \* the running pass returns an error
    faults,  \* faults so far
    edits    \* edits so far

NoObject == [exists |-> FALSE, reconcilable |-> FALSE, finalizer |-> FALSE,
             deleting |-> FALSE, spec |-> NoSpec, status |-> NoStatus]

\* Nothing has happened yet; the owner reference is not set.
ObjectInit ==
    /\ obj = [NoObject EXCEPT !.exists = TRUE]
    /\ cache = NoObject /\ before = NoObject /\ local = NoObject
    /\ queued = FALSE /\ failed = FALSE
    /\ pc = "Idle"
    /\ faults = 0 /\ edits = 0

-----------------------------------------------------------------------------
(* The API server and its other clients                                    *)

\* A deleted object goes once it has no finalizer.
Settle(o) == IF o.deleting /\ ~o.finalizer THEN NoObject ELSE o

ClientFrame == UNCHANGED <<cache, queued, before, local, pc, failed, faults>>

Edit == edits < MaxEdits /\ edits' = edits + 1

UserDelete ==
    /\ obj.exists /\ ~obj.deleting
    /\ obj' = Settle([obj EXCEPT !.deleting = TRUE])
    /\ UNCHANGED edits /\ ClientFrame

\* The owner reference is set, or the user unpauses.
Release ==
    /\ obj.exists /\ ~obj.reconcilable
    /\ obj' = [obj EXCEPT !.reconcilable = TRUE]
    /\ UNCHANGED edits /\ ClientFrame

Pause ==
    /\ obj.exists /\ obj.reconcilable
    /\ obj' = [obj EXCEPT !.reconcilable = FALSE]
    /\ Edit /\ ClientFrame

-----------------------------------------------------------------------------
(* The controller's runtime                                                *)

Fault == faults < MaxFaults /\ faults' = faults + 1

NoFault == UNCHANGED faults

\* A watch event reaches the cache and enqueues the key.
CacheSync ==
    /\ cache # obj
    /\ cache' = obj /\ queued' = TRUE
    /\ UNCHANGED <<obj, before, local, pc, failed, faults, edits>>

\* A pass is over: its scope is gone.
Ended == pc' = "Idle" /\ before' = NoObject /\ local' = NoObject /\ failed' = FALSE

\* The process dies, wherever it is, and starts again with a full list.
Crash ==
    /\ Fault
    /\ cache' = obj /\ queued' = TRUE
    /\ Ended
    /\ UNCHANGED <<obj, edits>>

Dequeue == pc = "Idle" /\ queued /\ queued' = FALSE

\* Reconcile returns early: the object or another one it needs is not there, the
\* owner is not set, or the object is paused.
ReconcileIgnored(available) ==
    /\ Dequeue
    /\ ~(cache.exists /\ cache.reconcilable /\ available)
    /\ UNCHANGED <<obj, cache, before, local, pc, failed, faults, edits>>

\* Reconcile fails to read an object or to build the scope, and is retried.
ReconcileFails ==
    /\ pc = "Idle" /\ queued
    /\ Fault
    /\ UNCHANGED <<obj, cache, queued, before, local, pc, failed, edits>>

\* Reconcile builds the scope and starts at a step.
StartPass(step) ==
    /\ Dequeue
    /\ cache.exists /\ cache.reconcilable
    /\ before' = cache /\ local' = cache
    /\ failed' = FALSE
    /\ pc' = step
    /\ UNCHANGED <<obj, cache, faults, edits>>

-----------------------------------------------------------------------------
(* Steps of a pass                                                         *)

\* What a step between the finalizer and Close leaves alone.
StepFrame == UNCHANGED <<obj, cache, before, edits>>

Continue(next, scope) ==
    /\ pc' = next /\ local' = scope
    /\ NoFault /\ UNCHANGED <<queued, failed>> /\ StepFrame

\* Reconcile returns without an error, and asks for another pass or not.
Return(requeue, scope) ==
    /\ pc' = "ClosePatch" /\ local' = scope
    /\ queued' = (queued \/ requeue)
    /\ NoFault /\ UNCHANGED failed /\ StepFrame

\* The pass returns an error: only the deferred Close is left.
ReturnError ==
    /\ pc' = "ClosePatch" /\ failed' = TRUE
    /\ UNCHANGED <<queued, local>> /\ StepFrame

Refuse == NoFault /\ ReturnError

CallFails == Fault /\ ReturnError

\* AddFinalizer and PatchObject, which calls the API server only for a change.
AddFinalizer(next) ==
    /\ pc = "Finalizer"
    /\ local' = [local EXCEPT !.finalizer = TRUE]
    /\ LET patched == [obj EXCEPT !.finalizer = TRUE]
           stopped == pc' = "ClosePatch" /\ failed' = TRUE
       IN  \/ before.finalizer /\ pc' = next /\ NoFault /\ UNCHANGED <<obj, failed>>
           \/ /\ ~before.finalizer /\ obj.exists
              /\ obj' = patched /\ pc' = next
              /\ NoFault /\ UNCHANGED failed
           \/ ~before.finalizer /\ ~obj.exists /\ stopped /\ NoFault /\ UNCHANGED obj
           \/ /\ ~before.finalizer
              /\ obj' \in {obj} \cup {o \in {patched} : obj.exists}
              /\ stopped /\ Fault
    /\ UNCHANGED <<cache, queued, before, edits>>

RemoveFinalizer ==
    /\ pc = "RemoveFinalizer"
    /\ Return(FALSE, [local EXCEPT !.finalizer = FALSE])

-----------------------------------------------------------------------------
(* Close: the patch helper patches what differs from its snapshot, metadata *)
(* and spec first and the status subresource second; an error of the first  *)
(* patch does not stop the second.                                         *)

PatchChanged == local.finalizer # before.finalizer \/ local.spec # before.spec

StatusChanged == local.status # before.status

Patched(o) ==
    Settle([o EXCEPT
        !.finalizer = IF local.finalizer # before.finalizer THEN local.finalizer ELSE @,
        !.spec = IF local.spec # before.spec THEN local.spec ELSE @])

PatchedStatus(o) ==
    [o EXCEPT !.status = [f \in DOMAIN NoStatus |->
        IF local.status[f] # before.status[f] THEN local.status[f] ELSE o.status[f]]]

ClosePatch ==
    /\ pc = "ClosePatch"
    /\ pc' = "CloseStatus"
    /\ \/ ~PatchChanged /\ NoFault /\ UNCHANGED <<obj, failed>>
       \/ /\ PatchChanged /\ obj.exists
          /\ obj' = Patched(obj)
          /\ NoFault /\ UNCHANGED failed
       \/ PatchChanged /\ ~obj.exists /\ failed' = TRUE /\ NoFault /\ UNCHANGED obj
       \/ /\ PatchChanged
          /\ obj' \in {obj} \cup {o \in {Patched(obj)} : obj.exists}
          /\ failed' = TRUE /\ Fault
    /\ UNCHANGED <<cache, queued, before, local, edits>>

\* NotFound is ignored for an object whose last finalizer the pass removed.  An
\* error of the pass or of a patch enqueues the key again.
CloseStatus ==
    /\ pc = "CloseStatus"
    /\ Ended
    /\ LET finished == local.deleting /\ ~local.finalizer
       IN  \/ /\ StatusChanged /\ obj.exists
              /\ obj' = PatchedStatus(obj)
              /\ queued' = (queued \/ failed)
              /\ NoFault
           \/ /\ ~StatusChanged \/ (finished /\ ~obj.exists)
              /\ queued' = (queued \/ failed)
              /\ NoFault /\ UNCHANGED obj
           \/ /\ StatusChanged /\ ~obj.exists /\ ~finished
              /\ queued' = TRUE
              /\ NoFault /\ UNCHANGED obj
           \/ /\ StatusChanged
              /\ obj' \in {obj} \cup {o \in {PatchedStatus(obj)} : obj.exists}
              /\ queued' = TRUE
              /\ Fault
    /\ UNCHANGED <<cache, edits>>

=============================================================================
