----------------------------- MODULE Manager_proofs -----------------------------
(***************************************************************************)
(* The engine below SessionManager is the engine of module Engine, so what *)
(* is proved of that one holds in the app.                                 *)
(***************************************************************************)
EXTENDS Manager, Engine_proofs

\* A coroutine enters the engine only through start_client, start_server or stop, and
\* only when its thread is in no other call (jni_android.rs:121-192).
LEMMA CallEngineMoves ==
    ASSUME NEW c \in Callers, CallEngine(c)
    PROVE  EngineNext \/ UNCHANGED engineVars
  <1>1. CASE CallStart(c)
    BY <1>1, Zenon DEF CallStart, EngineNext, Environment
  <1>2. CASE CallStop(c)
    BY <1>2, Zenon DEF CallStop, EngineNext, Environment
  <1> QED  BY <1>1, <1>2 DEF CallEngine

\* Every step of the app with its engine is a step of the engine or leaves it alone:
\* however SessionManager's coroutines, the JNI functions and the collector
\* interleave, they use the engine only through its calls (SessionManager.kt:62-164,
\* jni_android.rs:121-192).
THEOREM ManagerImplementsEngine == ManagerSpec => EngineSpec
  <1>1. ManagerInit => EngineInit
    BY Zenon DEF ManagerInit
  <1>2. ManagerNext => EngineNext \/ UNCHANGED engineVars
    <2> SUFFICES ASSUME ManagerNext PROVE EngineNext \/ UNCHANGED engineVars
      OBVIOUS
    <2>1. CASE \E c \in Callers, call \in {"server", "client", "stop"} : launch(c, call)
      BY <2>1, Zenon DEF launch
    <2>2. CASE acknowledgeError
      BY <2>2, Zenon DEF acknowledgeError
    <2>3. ASSUME NEW c \in Callers, Coroutine(c)
          PROVE  EngineNext \/ UNCHANGED engineVars
      <3>1. CASE Begin(c)
        BY <3>1, Zenon DEF Begin
      <3>2. CASE CallEngine(c)
        BY <3>2, CallEngineMoves, Zenon
      <3>3. CASE Finish(c)
        BY <3>3, Zenon DEF Finish
      <3> QED  BY <2>3, <3>1, <3>2, <3>3, Zenon DEF Coroutine
    <2>4. CASE collect
      BY <2>4, Zenon DEF collect
    <2>5. CASE applyTransition
      BY <2>5, Zenon DEF applyTransition
    <2>6. CASE EngineStep
      BY <2>6, Zenon DEF EngineStep, EngineNext, Environment
    <2> QED  BY <2>1, <2>2, <2>3, <2>4, <2>5, <2>6, Zenon DEF ManagerNext
  <1>3. UNCHANGED managerVars => UNCHANGED engineVars
    BY Zenon DEF managerVars
  <1> QED  BY <1>1, <1>2, <1>3, PTL DEF ManagerSpec, EngineSpec

\* Whatever the screens do, and with any number of coroutines, no start leaves the
\* engine below the app in Preparing with nobody to move it on (runner.rs:81-134).
THEOREM AppPreparingHasStarter == ManagerSpec => []PreparingHasStarter
  <1>1. EngineTypeOK /\ PreparingHasStarter => PreparingHasStarter
    OBVIOUS
  <1> QED  BY <1>1, ManagerImplementsEngine, EngineCorrect, PTL

\* Nor in Connecting (runner.rs:103-183).
THEOREM AppConnectingHasDriver == ManagerSpec => []ConnectingHasDriver
  BY ManagerImplementsEngine, ConnectingMovesOn, PTL
================================================================================
