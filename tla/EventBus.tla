------------------------------ MODULE EventBus -------------------------------
(***************************************************************************)
(* The in-process event bus (internal/platform/event/bus.go): publishers    *)
(* that admit asynchronous handlers under the read lock, the handlers'      *)
(* goroutines, and the shutdown of the process, which stops admitting,      *)
(* waits for the handlers, cancels their context when the grace is over and *)
(* exits when they have ended or its patience has.  Synchronous handlers    *)
(* run in the publisher and are steps of it where they have a model.        *)
(***************************************************************************)
EXTENDS Integers, Sequences, FiniteSets

CONSTANTS
    Callers,       \* requests that publish
    Slots          \* bound: handlers in flight, numbered

ASSUME BusAssumption == Slots \subseteq Nat /\ IsFiniteSet(Slots)

VARIABLES
    caller,     \* what each request is doing
    handler,    \* the goroutine of each admitted handler
    wg,         \* the WaitGroup
    phase,      \* "up", "closing" (BeginShutdown), "cancelled" (shutdownCancel)
    readers,    \* requests that hold the read lock
    drained     \* drainDone is closed

bus == <<wg, phase, readers, drained>>

Idle == [pc |-> "idle"]
Free(c) == caller[c] = Idle
CallerAt(c, pc) == caller[c].pc = pc
CallerGoto(c, pc) == caller' = [caller EXCEPT ![c].pc = pc]
EndCall(c) == caller' = [caller EXCEPT ![c] = Idle]

FreeSlots == {h \in Slots : handler[h] = Idle}
HandlerAt(h, pc) == handler[h].pc = pc
HandlerGoto(h, pc) == handler' = [handler EXCEPT ![h].pc = pc]
\* A handler returns: wg.Done.
EndHandler(h) == handler' = [handler EXCEPT ![h] = Idle] /\ wg' = wg - 1

\* The handlers' context is live.
Live == phase # "cancelled"

BusInit ==
    /\ caller = [c \in Callers |-> Idle] /\ handler = [h \in Slots |-> Idle]
    /\ wg = 0 /\ phase = "up" /\ readers = {} /\ drained = FALSE

\* dispatchAsync takes the read lock and looks at shuttingDown.
Admit(c) ==
    /\ CallerAt(c, "publish")
    /\ IF phase = "up" THEN readers' = readers \cup {c} /\ CallerGoto(c, "add")
       ELSE EndCall(c) /\ UNCHANGED readers
    /\ UNCHANGED <<handler, wg, phase, drained>>

Add(n) == wg' = wg + n

\* wg.Add and the unlock, then one goroutine for each subscriber.
Spawn(c, starts) ==
    /\ CallerAt(c, "add")
    /\ Cardinality(FreeSlots) >= Len(starts)
    /\ handler' = [h \in Slots |->
                      LET i == Cardinality({g \in FreeSlots : g <= h}) IN
                      IF h \in FreeSlots /\ i <= Len(starts) THEN starts[i] ELSE handler[h]]
    /\ Add(Len(starts))
    /\ readers' = readers \ {c}
    /\ EndCall(c)
    /\ UNCHANGED <<phase, drained>>

\* Mutant: the flag is set without waiting for those who have looked at it.
LockAtOnce == TRUE

\* Lock waits for the readers.
LockFree == readers = {}

BeginShutdown ==
    /\ phase = "up"
    /\ LockFree
    /\ phase' = "closing"
    /\ UNCHANGED <<caller, handler, wg, readers, drained>>

\* wg.Wait returns and drainDone is closed.
Drained ==
    /\ phase # "up" /\ ~drained /\ wg = 0
    /\ drained' = TRUE
    /\ UNCHANGED <<caller, handler, wg, phase, readers>>

\* The grace is over.
CancelStragglers ==
    /\ phase = "closing" /\ ~drained
    /\ phase' = "cancelled"
    /\ UNCHANGED <<caller, handler, wg, readers, drained>>

\* The process and all that was in it are gone, and a new one starts.
Restarted ==
    /\ caller' = [c \in Callers |-> Idle] /\ handler' = [h \in Slots |-> Idle]
    /\ wg' = 0 /\ phase' = "up" /\ readers' = {} /\ drained' = FALSE

\* Drain has returned: the handlers have ended, or their time is up.
Exit ==
    /\ drained \/ phase = "cancelled"
    /\ Restarted
==============================================================================
