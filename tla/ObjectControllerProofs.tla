----------------------- MODULE ObjectControllerProofs -----------------------
(***************************************************************************)
(* Facts about every controller that is built on ObjectController: which   *)
(* copies of the object know of its finalizer and of its deletion, and     *)
(* what a pass may conclude from the copy it works on.  The proofs about   *)
(* GCPMachine and GCPMachinePool instantiate this module and cite them.    *)
(***************************************************************************)
EXTENDS ObjectController, TLAPS

CONSTANTS
    Creating,  \* steps of a pass after the finalizer, which may create
    Removing   \* steps of a deletion pass, the removal of the finalizer included

\* The steps of the services are none of the runtime's own.
StepNames ==
    /\ Creating \cap Removing = {}
    /\ (Creating \cup Removing) \cap {"Idle", "Finalizer", "ClosePatch", "CloseStatus"} = {}
    /\ "RemoveFinalizer" \in Removing

Objects(Specs, Statuses) ==
    [exists : BOOLEAN, reconcilable : BOOLEAN, finalizer : BOOLEAN, deleting : BOOLEAN,
     spec : Specs, status : Statuses]

\* The copies of the object are objects.
Typed(Specs, Statuses) ==
    /\ obj \in Objects(Specs, Statuses) /\ cache \in Objects(Specs, Statuses)
    /\ before \in Objects(Specs, Statuses) /\ local \in Objects(Specs, Statuses)
    /\ NoSpec \in Specs /\ NoStatus \in Statuses

-----------------------------------------------------------------------------
(* The invariant of the runtime                                            *)

\* The API server: a finalizer keeps a deleted object.
ObjectInv ==
    /\ obj.deleting => obj.exists /\ obj.finalizer
    /\ obj.finalizer => obj.exists
    /\ ~obj.exists => obj = NoObject

\* The cache is a past of the object.
CacheInv ==
    /\ cache.deleting => cache.finalizer
    /\ cache.deleting => obj.deleting \/ ~obj.exists
    /\ cache.finalizer /\ ~cache.deleting => obj.finalizer
    /\ ~cache.exists => cache = NoObject

\* A pass works on a past of the cache, is at a creating step only behind a persisted
\* finalizer, and drops the finalizer only at the end of a deletion.
PassInv ==
    /\ pc = "Idle" => before = NoObject /\ local = NoObject
    /\ local.deleting = before.deleting
    /\ before.deleting => /\ before.finalizer
                          /\ obj.deleting \/ ~obj.exists
                          /\ cache.deleting \/ ~cache.finalizer
    /\ before.finalizer /\ ~before.deleting => obj.finalizer
    /\ before.finalizer /\ ~local.finalizer =>
            before.deleting /\ pc \in {"ClosePatch", "CloseStatus"}
    /\ pc \in Creating => ~before.deleting /\ local.finalizer /\ obj.finalizer
    /\ pc = "Finalizer" => ~before.deleting
    /\ pc \in Removing => before.deleting /\ local.finalizer

RuntimeInv == ObjectInv /\ CacheInv /\ PassInv

-----------------------------------------------------------------------------
(* The steps of a controller and its environment, as far as they matter    *)

\* A watch event.
Watch == cache' = obj /\ UNCHANGED <<obj, before, local, pc>>

\* A step of anything else.
Elsewhere == UNCHANGED <<obj, cache, before, local, pc>>

\* A pass begins.
Begin ==
    /\ pc = "Idle" /\ cache.exists
    /\ before' = cache /\ local' = cache
    /\ pc' \in (IF cache.deleting THEN Removing ELSE {"Finalizer"})
    /\ UNCHANGED <<obj, cache>>

\* A step of a service, or the decision after one.
Work ==
    /\ pc \in Creating \cup Removing
    /\ UNCHANGED <<obj, cache, before>>
    /\ local'.finalizer = local.finalizer /\ local'.deleting = local.deleting
    /\ pc' \in {"ClosePatch"} \cup (IF pc \in Creating THEN Creating ELSE Removing)

Step ==
    \/ Watch \/ Elsewhere \/ Begin \/ Work
    \/ UserDelete \/ Release \/ Pause \/ Crash
    \/ \E next \in Creating : AddFinalizer(next)
    \/ RemoveFinalizer \/ ClosePatch \/ CloseStatus

-----------------------------------------------------------------------------
(* What steps do to the object                                             *)

\* An object that is not there.
LEMMA NoObjectFields ==
    /\ NoObject.exists = FALSE /\ NoObject.finalizer = FALSE /\ NoObject.deleting = FALSE
    /\ NoObject.reconcilable = FALSE
    /\ NoObject.spec = NoSpec /\ NoObject.status = NoStatus
BY DEF NoObject

\* The patch of metadata and spec writes the pass's finalizer when that has changed, and
\* may be the end of the object.
LEMMA PatchedIs ==
    ASSUME NEW Specs, NEW Statuses, Typed(Specs, Statuses)
    PROVE  LET f == IF local.finalizer # before.finalizer THEN local.finalizer
                    ELSE obj.finalizer
           IN  IF obj.deleting /\ ~f THEN Patched(obj) = NoObject
               ELSE /\ Patched(obj) \in Objects(Specs, Statuses)
                    /\ Patched(obj).exists = obj.exists
                    /\ Patched(obj).reconcilable = obj.reconcilable
                    /\ Patched(obj).deleting = obj.deleting
                    /\ Patched(obj).finalizer = f
                    /\ Patched(obj).spec = (IF local.spec # before.spec THEN local.spec
                                            ELSE obj.spec)
                    /\ Patched(obj).status = obj.status
BY DEF Patched, Settle, Typed, Objects

\* The patch of the status leaves the rest alone.
LEMMA PatchedStatusIs ==
    ASSUME NEW Specs, NEW Statuses, Typed(Specs, Statuses)
    PROVE  /\ PatchedStatus(obj).exists = obj.exists
           /\ PatchedStatus(obj).reconcilable = obj.reconcilable
           /\ PatchedStatus(obj).deleting = obj.deleting
           /\ PatchedStatus(obj).finalizer = obj.finalizer
           /\ PatchedStatus(obj).spec = obj.spec
           /\ PatchedStatus(obj).status = [f \in DOMAIN NoStatus |->
                  IF local.status[f] # before.status[f] THEN local.status[f]
                  ELSE obj.status[f]]
BY DEF PatchedStatus, Typed, Objects

\* How a step may change what the API server holds: a finalizer goes only with the
\* object, at the end of a deletion pass; a deletion is never taken back; an object that
\* is gone does not come back.
ObjectMoves ==
    \/ /\ obj'.exists = obj.exists /\ obj'.finalizer = obj.finalizer
       /\ obj'.deleting = obj.deleting
       /\ ~obj.exists => obj' = obj
    \/ /\ obj.exists /\ obj'.exists
       /\ ~obj.finalizer /\ obj'.finalizer
       /\ obj'.deleting = obj.deleting /\ pc \in {"Finalizer", "ClosePatch"}
    \/ /\ obj.exists /\ obj'.exists /\ ~obj.deleting /\ obj'.deleting
       /\ obj'.finalizer = obj.finalizer /\ obj.finalizer
       /\ UserDelete
    \/ /\ obj.exists /\ ~obj.deleting /\ ~obj.finalizer /\ obj' = NoObject
       /\ UserDelete
    \/ /\ obj.deleting /\ obj' = NoObject
       /\ pc = "ClosePatch" /\ before.finalizer /\ ~local.finalizer

LEMMA StepMoves ==
    ASSUME NEW Specs, NEW Statuses, Typed(Specs, Statuses), StepNames, RuntimeInv, Step
    PROVE  ObjectMoves
<1> USE DEF Typed, RuntimeInv
<1>1. CASE Watch \/ Elsewhere \/ Begin \/ Work \/ Crash \/ RemoveFinalizer
  BY <1>1 DEF Watch, Elsewhere, Begin, Work, Crash, RemoveFinalizer, Return, StepFrame,
              ObjectMoves
<1>2. CASE UserDelete
  BY <1>2 DEF UserDelete, Settle, ObjectMoves, ObjectInv, Objects
<1>3. CASE Release \/ Pause
  BY <1>3 DEF Release, Pause, ObjectMoves, Objects
<1>4. ASSUME NEW next \in Creating, AddFinalizer(next)
      PROVE  ObjectMoves
  BY <1>4 DEF AddFinalizer, ObjectMoves, Objects, ObjectInv
<1>5. CASE ClosePatch
  <2>1. CASE obj' = obj
    BY <2>1 DEF ObjectMoves
  <2>2. CASE obj.exists /\ obj' = Patched(obj) /\ PatchChanged
    BY <1>5, <2>2, PatchedIs DEF ClosePatch, ObjectMoves, ObjectInv, PassInv, Objects
  <2> QED BY <1>5, <2>1, <2>2 DEF ClosePatch
<1>6. CASE CloseStatus
  BY <1>6, PatchedStatusIs DEF CloseStatus, ObjectMoves
<1> QED BY <1>1, <1>2, <1>3, <1>4, <1>5, <1>6 DEF Step

\* A pass drops the finalizer of its copy only when it removes it.
LEMMA FinalizerDropped ==
    ASSUME NEW Specs, NEW Statuses, Typed(Specs, Statuses), Step,
           before'.finalizer, ~local'.finalizer
    PROVE  pc = "RemoveFinalizer" \/ (before.finalizer /\ ~local.finalizer)
<1>1. CASE UNCHANGED <<before, local>>
  BY <1>1
<1>2. CASE before' = local'
  BY <1>2
<1>3. CASE Work
  BY <1>3 DEF Work
<1>4. ASSUME NEW next \in Creating, AddFinalizer(next)
      PROVE  FALSE
  BY <1>4 DEF AddFinalizer, Typed, Objects
<1>5. CASE RemoveFinalizer
  BY <1>5 DEF RemoveFinalizer
<1> QED BY <1>1, <1>2, <1>3, <1>4, <1>5
        DEF Step, Watch, Elsewhere, Begin, UserDelete, Release, Pause, ClientFrame, Crash,
            Ended, ClosePatch, CloseStatus

-----------------------------------------------------------------------------
(* The invariant holds                                                     *)

LEMMA RuntimeInit ==
    ASSUME StepNames, ObjectInit
    PROVE  RuntimeInv
<1>1. obj.exists /\ obj.finalizer = FALSE /\ obj.deleting = FALSE
  BY DEF ObjectInit, NoObject
<1> QED BY <1>1, NoObjectFields
        DEF ObjectInit, RuntimeInv, ObjectInv, CacheInv, PassInv, StepNames

LEMMA RuntimeStep ==
    ASSUME NEW Specs, NEW Statuses, Typed(Specs, Statuses), Typed(Specs, Statuses)',
           StepNames, RuntimeInv, Step
    PROVE  RuntimeInv'
<1> USE NoObjectFields
<1>0. ObjectMoves
  BY StepMoves
<1>1. ObjectInv'
  BY <1>0 DEF ObjectMoves, RuntimeInv, ObjectInv, Typed, Objects
<1>2. CASE Watch
  BY <1>2 DEF Watch, RuntimeInv, ObjectInv, CacheInv, PassInv, Typed, Objects
<1>3. CASE Elsewhere
  BY <1>3 DEF Elsewhere, RuntimeInv, ObjectInv, CacheInv, PassInv
<1>4. CASE Begin
  BY <1>4 DEF Begin, RuntimeInv, ObjectInv, CacheInv, PassInv, StepNames, Typed, Objects
<1>5. CASE Work
  BY <1>5 DEF Work, RuntimeInv, ObjectInv, CacheInv, PassInv, StepNames, Typed, Objects
<1>6. CASE UserDelete \/ Release \/ Pause
  <2>1. UNCHANGED <<cache, before, local, pc>>
    BY <1>6 DEF UserDelete, Release, Pause, ClientFrame
  <2>2. \/ obj.finalizer = obj'.finalizer /\ (obj.deleting => obj'.deleting)
        \/ ~obj.finalizer /\ ~obj'.exists
    BY <1>6 DEF UserDelete, Release, Pause, Settle, Typed, Objects
  <2>3. obj'.exists => obj.exists
    BY <1>0 DEF ObjectMoves
  <2>4. CacheInv'
    BY <2>1, <2>2, <2>3 DEF RuntimeInv, ObjectInv, CacheInv, Typed, Objects
  <2>5. PassInv'
    BY <2>1, <2>2, <2>3 DEF RuntimeInv, ObjectInv, PassInv, Typed, Objects
  <2> QED BY <1>1, <2>4, <2>5 DEF RuntimeInv
<1>7. CASE Crash
  BY <1>7 DEF Crash, Ended, RuntimeInv, ObjectInv, CacheInv, PassInv, StepNames, Typed, Objects
<1>8. ASSUME NEW next \in Creating, AddFinalizer(next)
      PROVE  RuntimeInv'
  <2>1. UNCHANGED <<cache, before>> /\ pc = "Finalizer" /\ pc' \in {next, "ClosePatch"}
        /\ local' = [local EXCEPT !.finalizer = TRUE]
    BY <1>8 DEF AddFinalizer
  <2>2. local'.finalizer /\ local'.deleting = local.deleting
    BY <2>1 DEF Typed, Objects
  <2>3. obj.finalizer => obj'.finalizer
    BY <1>8 DEF AddFinalizer, Typed, Objects
  <2>4. pc' = next => obj'.finalizer
    BY <1>8 DEF AddFinalizer, Typed, Objects, RuntimeInv, PassInv, StepNames
  <2>5. obj'.deleting = obj.deleting /\ obj'.exists = obj.exists
    BY <1>8 DEF AddFinalizer, Typed, Objects
  <2>6. CacheInv'
    BY <2>1, <2>3, <2>5 DEF RuntimeInv, CacheInv
  <2>7. PassInv'
    BY <2>1, <2>2, <2>3, <2>4, <2>5 DEF RuntimeInv, PassInv, StepNames, Typed, Objects
  <2> QED BY <1>1, <2>6, <2>7 DEF RuntimeInv
<1>9. CASE RemoveFinalizer
  BY <1>9 DEF RemoveFinalizer, Return, StepFrame, RuntimeInv, ObjectInv, CacheInv, PassInv,
              StepNames, Typed, Objects
<1>10. CASE ClosePatch
  <2>1. UNCHANGED <<cache, before, local>> /\ pc = "ClosePatch" /\ pc' = "CloseStatus"
    BY <1>10 DEF ClosePatch
  <2>2. CacheInv'
    BY <1>0, <2>1 DEF ObjectMoves, RuntimeInv, CacheInv, PassInv, ObjectInv, UserDelete
  <2>3. PassInv'
    BY <1>0, <2>1 DEF ObjectMoves, RuntimeInv, CacheInv, PassInv, ObjectInv, UserDelete,
                      StepNames
  <2> QED BY <1>1, <2>2, <2>3 DEF RuntimeInv
<1>11. CASE CloseStatus
  <2>1. /\ UNCHANGED cache /\ before' = NoObject /\ local' = NoObject /\ pc' = "Idle"
        /\ obj' \in {obj, PatchedStatus(obj)}
    BY <1>11 DEF CloseStatus, Ended
  <2>2. obj'.finalizer = obj.finalizer /\ obj'.deleting = obj.deleting
        /\ obj'.exists = obj.exists
    BY <2>1, PatchedStatusIs
  <2> QED BY <1>1, <2>1, <2>2 DEF RuntimeInv, CacheInv, PassInv, StepNames, Typed, Objects
<1> QED BY <1>2, <1>3, <1>4, <1>5, <1>6, <1>7, <1>8, <1>9, <1>10, <1>11 DEF Step

=============================================================================
