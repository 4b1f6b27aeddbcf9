------------------------ MODULE ManagedObjectProofs ------------------------
(***************************************************************************)
(* Facts about every controller that is built on ManagedObject: what the   *)
(* step a pass is at says about the object's finalizer and its deletion.   *)
(* The proofs about ManagedCluster, which has two such objects, and about  *)
(* ManagedMachinePool instantiate this module and cite them.               *)
(***************************************************************************)
EXTENDS ManagedObject, TLAPS

CONSTANTS
    Creating,  \* steps of a pass after the finalizer, which may create
    Removing   \* steps of a deletion pass

\* The steps of the services are none of the runtime's own.
StepNames ==
    /\ Creating \cap Removing = {}
    /\ (Creating \cup Removing) \cap {"Idle", "Finalizer", "Close"} = {}

Objects(Wants, Specs, Statuses) ==
    [exists : BOOLEAN, deleting : BOOLEAN, finalizer : BOOLEAN,
     want : Wants, spec : Specs, status : Statuses]

\* The object and the pass's copy of it are objects.
Typed(Wants, Specs, Statuses) ==
    /\ obj \in Objects(Wants, Specs, Statuses)
    /\ pass.local \in Objects(Wants, Specs, Statuses)
    /\ NoWant \in Wants /\ NoSpec \in Specs /\ NoStatus \in Statuses

-----------------------------------------------------------------------------
(* The invariant                                                           *)

\* The API server: a finalizer keeps a deleted object.
ObjectInv ==
    /\ obj.deleting => obj.exists /\ obj.finalizer
    /\ obj.finalizer => obj.exists
    /\ ~obj.exists => obj = NoObject

\* The pass is about to drop the finalizer.
Dropping == At("Close") /\ ~pass.local.finalizer

\* A pass is at a creating step only behind a persisted finalizer, takes the object for
\* deleted only when it is, and drops the finalizer only in a deletion.
PassInv ==
    /\ At("Idle") => pass = NoPass
    /\ pass.local.deleting => obj.deleting \/ ~obj.exists
    /\ pass.pc \in Creating =>
            ~pass.local.deleting /\ pass.local.finalizer /\ obj.finalizer
    /\ At("Finalizer") => ~pass.local.deleting
    /\ pass.pc \in Removing => pass.local.deleting /\ pass.local.finalizer
    /\ Dropping => pass.local.deleting

ManagedInv == ObjectInv /\ PassInv

-----------------------------------------------------------------------------
(* The steps of a controller and its environment, as far as they matter    *)

Elsewhere == UNCHANGED <<obj, pass>>

\* A pass begins.
Starts ==
    /\ At("Idle") /\ obj.exists
    /\ pass'.local = obj
    /\ pass'.pc \in (IF obj.deleting THEN Removing ELSE {"Finalizer"})
    /\ UNCHANGED obj

\* A step of a service, or the decision after one.
Work ==
    /\ pass.pc \in Creating \cup Removing
    /\ pass'.local.finalizer = pass.local.finalizer
    /\ pass'.local.deleting = pass.local.deleting
    /\ pass'.pc \in {"Close"} \cup (IF pass.pc \in Creating THEN Creating ELSE Removing)
    /\ UNCHANGED obj

\* The end of a deletion: the finalizer is taken from the pass's copy.
Drop ==
    /\ pass.pc \in Removing
    /\ ~pass'.local.finalizer
    /\ pass'.local.deleting = pass.local.deleting
    /\ pass'.pc = "Close"
    /\ UNCHANGED obj

Step ==
    \/ Elsewhere \/ Starts \/ Work \/ Drop
    \/ UserDelete /\ UNCHANGED pass
    \/ (\E want : UserEdit(want)) /\ UNCHANGED pass
    \/ Stop /\ UNCHANGED obj
    \/ \E next \in Creating \cup {"Close"} : AddFinalizer(next)
    \/ Close

\* How a step may change what the API server holds: a finalizer goes only with the
\* object, when a deletion pass that has dropped it closes; an object that is gone does
\* not come back.
ObjectMoves ==
    \/ /\ obj'.exists = obj.exists /\ obj'.finalizer = obj.finalizer
       /\ obj'.deleting = obj.deleting
       /\ ~obj.exists => obj' = obj
    \/ /\ obj.exists /\ obj'.exists
       /\ ~obj.finalizer /\ obj'.finalizer
       /\ obj'.deleting = obj.deleting /\ pass.pc \in {"Finalizer", "Close"}
    \/ /\ obj.exists /\ obj'.exists /\ ~obj.deleting /\ obj'.deleting
       /\ obj'.finalizer = obj.finalizer /\ obj.finalizer
       /\ UNCHANGED pass
    \/ /\ obj.exists /\ ~obj.deleting /\ ~obj.finalizer /\ obj' = NoObject
       /\ UNCHANGED pass
    \/ obj.deleting /\ obj' = NoObject /\ Dropping

-----------------------------------------------------------------------------
(* What steps do to the object                                             *)

\* An object that is not there.
LEMMA NoObjectFields ==
    /\ NoObject.exists = FALSE /\ NoObject.finalizer = FALSE /\ NoObject.deleting = FALSE
    /\ NoPass.pc = "Idle" /\ NoPass.local = NoObject
BY DEF NoObject, NoPass

\* What Close leaves.
LEMMA ClosedIs ==
    ASSUME NEW Wants, NEW Specs, NEW Statuses, Typed(Wants, Specs, Statuses),
           NEW o \in {Settle(Metadata(Status(obj))), Settle(Metadata(obj))}
    PROVE  IF obj.deleting /\ ~pass.local.finalizer THEN o = NoObject
           ELSE /\ o \in Objects(Wants, Specs, Statuses)
                /\ o.exists = obj.exists /\ o.deleting = obj.deleting
                /\ o.finalizer = pass.local.finalizer
BY DEF Settle, Metadata, Status, Typed, Objects

LEMMA StatusIs ==
    ASSUME NEW Wants, NEW Specs, NEW Statuses, Typed(Wants, Specs, Statuses)
    PROVE  /\ Status(obj) \in Objects(Wants, Specs, Statuses)
           /\ Status(obj).exists = obj.exists /\ Status(obj).deleting = obj.deleting
           /\ Status(obj).finalizer = obj.finalizer
BY DEF Status, Typed, Objects

LEMMA CloseStatus ==
    ASSUME NEW Wants, NEW Specs, NEW Statuses, Typed(Wants, Specs, Statuses), Close
    PROVE  obj'.status \in {obj.status, pass.local.status, NoStatus}
<1>1. /\ Metadata(Status(obj)).status = pass.local.status
      /\ Metadata(obj).status = obj.status /\ Status(obj).status = pass.local.status
      /\ NoObject.status = NoStatus
  BY DEF Metadata, Status, NoObject, Typed, Objects
<1>2. obj' \in {obj, NoObject, Metadata(Status(obj)), Metadata(obj), Status(obj)}
  BY DEF Close, Settle
<1> QED BY <1>1, <1>2

LEMMA StepMoves ==
    ASSUME NEW Wants, NEW Specs, NEW Statuses, Typed(Wants, Specs, Statuses),
           StepNames, ManagedInv, Step
    PROVE  ObjectMoves
<1> USE DEF ManagedInv
<1>0. obj \in Objects(Wants, Specs, Statuses) /\ pass.local \in Objects(Wants, Specs, Statuses)
  BY DEF Typed
<1>1. CASE obj' = obj
  BY <1>1 DEF ObjectMoves
<1>2. CASE UserDelete /\ UNCHANGED pass
  BY <1>0, <1>2 DEF UserDelete, Settle, ObjectMoves, ObjectInv, Objects
<1>3. CASE (\E want : UserEdit(want)) /\ UNCHANGED pass
  BY <1>0, <1>3 DEF UserEdit, ObjectMoves, Objects
<1>4. ASSUME NEW next \in Creating \cup {"Close"}, AddFinalizer(next)
      PROVE  ObjectMoves
  BY <1>0, <1>4 DEF AddFinalizer, At, Return, Go, ObjectMoves, ObjectInv, Objects
<1>5. CASE Close
  <2>1. CASE obj.exists /\ obj' = Status(obj)
    BY <2>1, StatusIs DEF ObjectMoves
  <2>2. CASE obj.exists /\ obj' \in {Settle(Metadata(Status(obj))), Settle(Metadata(obj))}
    <3>1. At("Close") /\ pass.pc = "Close"
      BY <1>5 DEF Close, At
    <3> QED BY <1>0, <2>2, <3>1, ClosedIs DEF ObjectMoves, ObjectInv, PassInv, Dropping, Objects
  <2> QED BY <1>1, <1>5, <2>1, <2>2 DEF Close
<1> QED BY <1>1, <1>2, <1>3, <1>4, <1>5 DEF Step, Elsewhere, Starts, Work, Drop

\* A pass comes to drop the finalizer only at the end of a deletion.
LEMMA DropsAtEnd ==
    ASSUME NEW Wants, NEW Specs, NEW Statuses, Typed(Wants, Specs, Statuses),
           StepNames, ManagedInv, Step, Dropping'
    PROVE  Drop \/ (Dropping /\ UNCHANGED pass)
<1> USE NoObjectFields DEF Dropping, At
<1>1. CASE Starts
  BY <1>1 DEF Starts, StepNames
<1>2. CASE Work
  BY <1>2 DEF Work, ManagedInv, PassInv
<1>3. CASE Stop \/ Close
  BY <1>3 DEF Stop, Close
<1>4. ASSUME NEW next \in Creating \cup {"Close"}, AddFinalizer(next)
      PROVE  FALSE
  BY <1>4 DEF AddFinalizer, Return, Go, Typed, Objects
<1> QED BY <1>1, <1>2, <1>3, <1>4 DEF Step, Elsewhere

-----------------------------------------------------------------------------
(* The invariant holds                                                     *)

LEMMA ManagedInit ==
    ASSUME StepNames, NEW want, obj = Created(want), pass = NoPass
    PROVE  ManagedInv
<1>1. obj.exists /\ obj.finalizer = FALSE /\ obj.deleting = FALSE
  BY DEF Created, NoObject
<1> QED BY <1>1, NoObjectFields DEF ManagedInv, ObjectInv, PassInv, Dropping, At, StepNames

LEMMA ManagedStep ==
    ASSUME NEW Wants, NEW Specs, NEW Statuses, Typed(Wants, Specs, Statuses),
           Typed(Wants, Specs, Statuses)', StepNames, ManagedInv, Step
    PROVE  ManagedInv'
<1> USE NoObjectFields DEF ManagedInv, At
<1>0. ObjectMoves
  BY StepMoves
<1>1. /\ obj \in Objects(Wants, Specs, Statuses) /\ obj' \in Objects(Wants, Specs, Statuses)
      /\ pass.local \in Objects(Wants, Specs, Statuses)
      /\ pass'.local \in Objects(Wants, Specs, Statuses)
  BY DEF Typed
<1>2. ObjectInv'
  BY <1>0, <1>1 DEF ObjectMoves, ObjectInv, Objects
<1>3. obj.deleting \/ ~obj.exists => obj'.deleting \/ ~obj'.exists
  BY <1>0, <1>1 DEF ObjectMoves, Objects
<1>4. obj.finalizer => obj'.finalizer \/ Dropping
  BY <1>0, <1>1 DEF ObjectMoves, ObjectInv, Objects
<1>5. CASE UNCHANGED pass
  BY <1>1, <1>3, <1>4, <1>5, <1>2 DEF PassInv, Dropping, StepNames
<1>6. CASE Starts
  BY <1>1, <1>2, <1>6 DEF Starts, PassInv, ObjectInv, Dropping, StepNames
<1>7. CASE Work
  BY <1>1, <1>2, <1>7 DEF Work, PassInv, Dropping, StepNames
<1>8. CASE Drop
  BY <1>1, <1>2, <1>8 DEF Drop, PassInv, Dropping, StepNames
<1>9. CASE Stop \/ Close
  BY <1>2, <1>9 DEF Stop, Close, PassInv, Dropping, StepNames
<1>10. ASSUME NEW next \in Creating \cup {"Close"}, AddFinalizer(next)
       PROVE  ManagedInv'
  <2>1. /\ pass'.pc \in {next, "Close"} /\ pass.pc = "Finalizer"
        /\ pass'.local = [pass.local EXCEPT !.finalizer = TRUE]
    <3> DEFINE scope == [pass.local EXCEPT !.finalizer = TRUE]
    <3>1. pass.pc = "Finalizer" /\ pass' \in {[pc |-> next, local |-> scope],
                                             [pc |-> "Close", local |-> scope]}
      BY <1>10 DEF AddFinalizer, Return, Go
    <3>2. pass'.pc \in {next, "Close"} /\ pass'.local = scope
      <4> HIDE DEF scope
      <4> QED BY <3>1
    <3> QED BY <3>1, <3>2
  <2>2. pass'.local.finalizer /\ pass'.local.deleting = pass.local.deleting
    BY <1>1, <2>1 DEF Objects
  <2>3. pass'.pc # "Close" => obj'.finalizer
    BY <1>1, <1>10 DEF AddFinalizer, Return, Go, Objects
  <2> QED BY <1>2, <1>3, <2>1, <2>2, <2>3 DEF PassInv, Dropping, StepNames
<1> QED BY <1>5, <1>6, <1>7, <1>8, <1>9, <1>10 DEF Step, Elsewhere

=============================================================================
