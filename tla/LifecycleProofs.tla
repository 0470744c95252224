-------------------------- MODULE LifecycleProofs --------------------------
(***************************************************************************)
(* Theorems of module Lifecycle, for every value of its constants.         *)
(***************************************************************************)
EXTENDS Lifecycle, TLAPS

-----------------------------------------------------------------------------
(* The invariant.                                                          *)

Starting == {"down", "connect", "migrate", "apply", "clean", "wire"}
Stopping == {"wait", "close", "return"}

\* A version that is not dirty has its migration in place; main is between the
\* two marks only while it applies one.
SchemaKept ==
  /\ ~ dirty => applied = version
  /\ mpc \in {"apply", "clean"} => dirty
  /\ mpc = "clean" => applied = version

\* What main leaves behind it: no one but main runs before Spawn, and from
\* there on the schema is the latest.
StartedInOrder ==
  /\ mpc \in Starting => inflight = {} /\ work = "none"
  /\ mpc = "ready" => inflight = {}
  /\ mpc \notin {"down", "connect"} => pool # "none"
  /\ mpc \notin Starting \ {"wire"} => ~ dirty /\ version = Latest

\* No request is left after the drain, and no worker after the wait.
StoppedInOrder ==
  /\ mpc \in Stopping => inflight = {}
  /\ mpc \in {"close", "return"} => work \in {"none", "over"}
  /\ pool = "closed" => mpc = "return"

LifeInv ==
  /\ LifecycleTypeOK
  /\ SchemaKept
  /\ StartedInOrder
  /\ StoppedInOrder

\* The process ends with nothing running, and the schema as it is.
LEMMA ExitKeepsLifeInv ==
  ASSUME LifeInv, NEW how \in {"clean", "failed", "killed"}, Exit(how),
         UNCHANGED schemaVars, faults' \in Nat
  PROVE  LifeInv'
BY DEF LifeInv, Exit, schemaVars, LifecycleTypeOK, SchemaKept, StartedInOrder,
       StoppedInOrder, Starting, Stopping

\* Every state has the invariant.
THEOREM LifeCorrect == Spec => []LifeInv
<1>1. Init => LifeInv
  <2> SUFFICES ASSUME Init
               PROVE  LifeInv
    OBVIOUS
  <2>1. last.how = "none"
    BY DEF Init, NoExit
  <2>2. LifecycleTypeOK
    BY <2>1, LifecycleAssumption DEF Init, LifecycleTypeOK
  <2>3. SchemaKept /\ StartedInOrder /\ StoppedInOrder
    BY DEF Init, SchemaKept, StartedInOrder, StoppedInOrder, Starting, Stopping
  <2> QED
    BY <2>2, <2>3 DEF LifeInv
<1>2. LifeInv /\ [Next]_vars => LifeInv'
  <2> SUFFICES ASSUME LifeInv, [Next]_vars
               PROVE  LifeInv'
    OBVIOUS
  <2> USE LifecycleAssumption
  <2>1. CASE Start \/ Connect \/ MigrateNext \/ MigrateRun \/ MigrateClean
             \/ MigrateDone
    <3>1. CASE Start
      BY <3>1 DEF Start, LifeInv, schemaVars, LifecycleTypeOK, SchemaKept,
         StartedInOrder, StoppedInOrder, Starting, Stopping
    <3>2. CASE Connect
      BY <3>2 DEF Connect, LifeInv, schemaVars, LifecycleTypeOK, SchemaKept,
         StartedInOrder, StoppedInOrder, Starting, Stopping
    <3>3. CASE MigrateNext
      BY <3>3 DEF MigrateNext, LifeInv, LifecycleTypeOK, SchemaKept,
         StartedInOrder, StoppedInOrder, Starting, Stopping
    <3>4. CASE MigrateRun
      BY <3>4 DEF MigrateRun, LifeInv, LifecycleTypeOK, SchemaKept,
         StartedInOrder, StoppedInOrder, Starting, Stopping
    <3>5. CASE MigrateClean
      BY <3>5 DEF MigrateClean, LifeInv, LifecycleTypeOK, SchemaKept,
         StartedInOrder, StoppedInOrder, Starting, Stopping
    <3>6. CASE MigrateDone
      BY <3>6 DEF MigrateDone, LifeInv, schemaVars, LifecycleTypeOK, SchemaKept,
         StartedInOrder, StoppedInOrder, Starting, Stopping
    <3> QED
      BY <2>1, <3>1, <3>2, <3>3, <3>4, <3>5, <3>6
  <2>2. CASE ConnectFails \/ MigrateFails \/ ServerFails \/ ShutdownTimeout
             \/ Return \/ Kill
    <3>1. \E how \in {"clean", "failed", "killed"} : Exit(how)
      BY <2>2 DEF ConnectFails, MigrateFails, ServerFails, ShutdownTimeout,
         Return, Kill
    <3>2. UNCHANGED schemaVars
      BY <2>2 DEF ConnectFails, MigrateFails, ServerFails, ShutdownTimeout,
         Return, Kill
    <3>3. faults' \in Nat
      BY <2>2 DEF ConnectFails, MigrateFails, ServerFails, ShutdownTimeout,
         Return, Kill, Fault, LifeInv, LifecycleTypeOK
    <3> QED
      BY <3>1, <3>2, <3>3, ExitKeepsLifeInv
  <2>3. CASE Spawn \/ Serve \/ BeginShutdown \/ ShutdownDone \/ WaitDone
             \/ ClosePool
    <3>1. CASE Spawn
      BY <3>1 DEF Spawn, LifeInv, schemaVars, LifecycleTypeOK, SchemaKept,
         StartedInOrder, StoppedInOrder, Starting, Stopping
    <3>2. CASE Serve
      BY <3>2 DEF Serve, LifeInv, schemaVars, LifecycleTypeOK, SchemaKept,
         StartedInOrder, StoppedInOrder, Starting, Stopping
    <3>3. CASE BeginShutdown
      BY <3>3 DEF BeginShutdown, LifeInv, schemaVars, LifecycleTypeOK,
         SchemaKept, StartedInOrder, StoppedInOrder, Starting, Stopping
    <3>4. CASE ShutdownDone
      BY <3>4 DEF ShutdownDone, LifeInv, schemaVars, LifecycleTypeOK,
         SchemaKept, StartedInOrder, StoppedInOrder, Starting, Stopping
    <3>5. CASE WaitDone
      BY <3>5 DEF WaitDone, LifeInv, schemaVars, LifecycleTypeOK, SchemaKept,
         StartedInOrder, StoppedInOrder, Starting, Stopping
    <3>6. CASE ClosePool
      BY <3>6 DEF ClosePool, LifeInv, schemaVars, LifecycleTypeOK, SchemaKept,
         StartedInOrder, StoppedInOrder, Starting, Stopping
    <3> QED
      BY <2>3, <3>1, <3>2, <3>3, <3>4, <3>5, <3>6
  <2>4. CASE Listen \/ ListenFails \/ Signal
    <3>1. CASE Listen
      BY <3>1 DEF Listen, LifeInv, schemaVars, LifecycleTypeOK,
         SchemaKept, StartedInOrder, StoppedInOrder, Starting, Stopping
    <3>2. CASE ListenFails
      BY <3>2 DEF ListenFails, Fault, LifeInv, schemaVars, LifecycleTypeOK,
         SchemaKept, StartedInOrder, StoppedInOrder, Starting, Stopping
    <3>3. CASE Signal
      BY <3>3 DEF Signal, LifeInv, schemaVars, LifecycleTypeOK,
         SchemaKept, StartedInOrder, StoppedInOrder, Starting, Stopping
    <3> QED
      BY <2>4, <3>1, <3>2, <3>3
  <2>5. ASSUME NEW r \in Requests, Arrive(r) \/ Answer(r)
        PROVE  LifeInv'
    BY <2>5 DEF Arrive, Answer, LifeInv, schemaVars, LifecycleTypeOK,
       SchemaKept, StartedInOrder, StoppedInOrder, Starting, Stopping
  <2>6. CASE GoroutineStep
    BY <2>6 DEF GoroutineStep, WorkerSends, WorkerRecords, CycleEnds, CyclePanics,
           Tick, WorkerStops,
       LifeInv, schemaVars, LifecycleTypeOK, SchemaKept, StartedInOrder,
       StoppedInOrder, Starting, Stopping
  <2>7. CASE UNCHANGED vars
    BY <2>7 DEF vars, LifeInv, schemaVars, LifecycleTypeOK, SchemaKept,
       StartedInOrder, StoppedInOrder, Starting, Stopping
  <2> QED
    BY <2>1, <2>2, <2>3, <2>4, <2>5, <2>6, <2>7 DEF Next, MainStep
<1> QED
  BY <1>1, <1>2, PTL DEF Spec

-----------------------------------------------------------------------------
(* What it gives.                                                          *)

\* Every variable keeps its type, and the listener is open only in Run.
THEOREM LifecycleTyped == Spec => []LifecycleTypeOK
<1>1. LifeInv => LifecycleTypeOK
  BY DEF LifeInv
<1> QED
  BY <1>1, LifeCorrect, PTL

\* Nobody is left to use the pool when the deferred Close runs.
THEOREM PoolClosedLast == Spec => []NothingOnClosedPool
<1>1. LifeInv => NothingOnClosedPool
  BY DEF LifeInv, StoppedInOrder, Stopping, NothingOnClosedPool
<1> QED
  BY <1>1, LifeCorrect, PTL

\* Whatever crashed before, worker and handlers meet the latest schema.
THEOREM SchemaBeforeService == Spec => []SchemaInPlace
<1>1. LifeInv => SchemaInPlace
  BY DEF LifeInv, SchemaKept, StartedInOrder, Starting, SchemaInPlace
<1> QED
  BY <1>1, LifeCorrect, PTL
=============================================================================
