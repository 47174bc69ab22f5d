------------------------------- MODULE MC_Engine -------------------------------
EXTENDS Engine, TLC

\* Callers are interchangeable, and so are tasks that have not been spawned.
Symmetry == Permutations(Callers) \cup Permutations(Tasks)

\* The same for EngineLive.cfg, where symmetry would not be sound: of the tasks that
\* were not spawned a start takes a given one.
TakesFirst ==
    \A t \in Tasks :
        pc[t] = "ready" /\ pc'[t] = "reserved" => t = CHOOSE u \in Tasks : pc[u] = "ready"

\* The view of EngineRaces.cfg: no action reads what the listeners heard last, and
\* no property of that run depends on it.
Unheard == <<state, pc, pending, mode, job, channelVars, half, loops>>
================================================================================
