-------------------------------- MODULE Session --------------------------------
(***************************************************************************)
(* The session of gravital-engine (session.rs): a state behind a RwLock,   *)
(* the transition function, and dispatch, which any thread may call.       *)
(*                                                                         *)
(* dispatch takes the lock twice: it reads the state and releases the      *)
(* lock, computes the next state, and takes the lock again to store it;    *)
(* the listeners are called after that.  The three steps of one thread may *)
(* interleave with those of every other thread, so each is an action of    *)
(* its own here.  A thread that has read is "writing" until it has stored  *)
(* the state it computed and "telling" until it has called the listeners.  *)
(***************************************************************************)
EXTENDS SessionTable

CONSTANT Procs          \* the threads and tasks that call dispatch

VARIABLES state,        \* the SessionState behind the lock
          pc,           \* where each process is
          pending,      \* the state a process is about to store or to announce
          heard         \* the state the listeners were told of last

sessionVars == <<state, pc, pending, heard>>

NoDispatch == [next |-> Idle, then |-> "none"]

\* dispatch(e), first critical section: process p, at label "from", reads the
\* state.  It goes on at label "err" when the event is not allowed, at "ok" when
\* the event changes nothing, and otherwise still has the new state to store.
DispatchRead(p, from, e, ok, err) ==
    LET next == transition(state, e) IN
    /\ pc[p] = from
    /\ \/ /\ next = InvalidTransition
          /\ pc' = [pc EXCEPT ![p] = err]
          /\ UNCHANGED pending
       \/ /\ next = state
          /\ pc' = [pc EXCEPT ![p] = ok]
          /\ UNCHANGED pending
       \/ /\ next \notin {InvalidTransition, state}
          /\ pc' = [pc EXCEPT ![p] = "writing"]
          /\ pending' = [pending EXCEPT ![p] = [next |-> next, then |-> ok]]
    /\ UNCHANGED <<state, heard>>

\* Second critical section: the state is overwritten, whatever it is by now.
DispatchWrite(p) ==
    /\ pc[p] = "writing"
    /\ state' = pending[p].next
    /\ pc' = [pc EXCEPT ![p] = "telling"]
    /\ UNCHANGED <<pending, heard>>

\* The listeners are called with the state this process stored.
DispatchNotify(p) ==
    /\ pc[p] = "telling"
    /\ heard' = pending[p].next
    /\ pc' = [pc EXCEPT ![p] = pending[p].then]
    /\ pending' = [pending EXCEPT ![p] = NoDispatch]
    /\ UNCHANGED state

DispatchStep(p) == DispatchWrite(p) \/ DispatchNotify(p)

\* force_idle stores Idle and tells no listener.
force_idle == state' = Idle

SessionInit ==
    /\ state = Idle
    /\ pc = [p \in Procs |-> "ready"]
    /\ pending = [p \in Procs |-> NoDispatch]
    /\ heard = Idle
--------------------------------------------------------------------------------
\* The session is the documented state machine: every change of the state is a
\* row of the transition table, whoever dispatches at the same time.  The document
\* takes one lock for the whole of dispatch; session.rs:122-140 reads the state
\* under one lock and stores the next under another.
Table == INSTANCE Lifecycle WITH phase <- state.tag, reason <- state.cause
LifecycleSpec == Table!Spec
================================================================================
