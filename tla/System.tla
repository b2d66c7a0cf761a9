------------------------------- MODULE System -------------------------------
(***************************************************************************)
(* The whole plugin: PluginLifecycle in the Thunder process and, in the    *)
(* host process it starts, the implementation object with its observers    *)
(* and the events of the bus, ObserverList.                                *)
(*                                                                         *)
(* The plugin's own observer is _notification, a member of RemoteControl   *)
(* (Core::Sink): a reference does not keep it alive, so none may be left   *)
(* when the plugin is gone.  A client has an observer of its own and may   *)
(* hold a reference to the implementation, which then survives the         *)
(* plugin's Release: out of process until the host is terminated, and in   *)
(* the Thunder process, where nothing is terminated, until the client lets *)
(* go of it.                                                               *)
(*                                                                         *)
(* A step that concerns both parts is the conjunction of theirs.           *)
(***************************************************************************)
EXTENDS Naturals, Sequences, FiniteSets

CONSTANTS MaxConnections, Modes, UnregisterWaits, Threads, Messages, MaxEvents,
          Own,      \* _notification
          Client    \* the observer of a client

ASSUME ObserversAssumption == Own # Client

\* What the parts assume of their constants.
ASSUME PluginAssumption ==
    /\ MaxConnections \in Nat \ {0}
    /\ Modes \subseteq {"Local", "Off"}
    /\ UnregisterWaits \in BOOLEAN

ASSUME ObserverListAssumption ==
    /\ Messages \subseteq [owner : {"ctrlm", "other"}, data : BOOLEAN, id : STRING]
    /\ IsFiniteSet(Threads)
    /\ MaxEvents \in Nat

VARIABLES state, act, service, connectionId, implementation, configure,
          connListening, registered, jsonrpc, shellRefs, connection, mode,
          started, host, reported, cb, cbId, jobs

VARIABLES notifications, refs, owner, alive, pc, event, observers, pos, raised,
          delivered

VARIABLES configured,  \* the event handlers are registered with the bus
          held         \* a client holds a reference to the implementation

P == INSTANCE PluginLifecycle
L == INSTANCE ObserverList WITH Observers <- {Own, Client}

pluginVars == <<state, act, service, connectionId, implementation, configure,
                connListening, registered, jsonrpc, shellRefs, connection, mode,
                started, host, reported, cb, cbId, jobs>>

observerVars == <<notifications, refs, owner, alive, pc, event, observers, pos,
                  raised, delivered>>

objectVars == <<observerVars, configured, held>>

vars == <<pluginVars, objectVars>>

Init ==
    /\ P!Init
    /\ L!Init
    /\ configured = FALSE
    /\ held = FALSE

-----------------------------------------------------------------------------
\* The implementation object in its process.

Quiet == \A t \in Threads : pc[t] = "idle"

ReleaseAll == L!Destroy /\ configured' = FALSE

\* Faulty variant of Destruct: events on their way are not waited for.
DestructAtOnce == ReleaseAll

\* The destructor: the handlers are removed, which waits for those that run,
\* then the observers are released.
Destruct == Quiet /\ ReleaseAll

\* The process ends, with everything in it.
HostDies ==
    /\ L!Crash
    /\ configured' = FALSE
    /\ held' = FALSE

\* The event handlers are registered at the end of Configure and removed at the
\* beginning of the destructor.
Arrive(t) ==
    /\ configured
    /\ \E msg \in Messages : L!Arrive(t, msg)
    /\ UNCHANGED <<pluginVars, configured, held>>

\* Faulty variant of Handle: a callback waits for Deinitialize.
HandleLocked(t) ==
    /\ act = "idle"
    /\ L!Handle(t) /\ UNCHANGED <<pluginVars, configured, held>>

Handle(t) == L!Handle(t) /\ UNCHANGED <<pluginVars, configured, held>>

-----------------------------------------------------------------------------
\* Steps of Initialize and Deinitialize that reach the object.

\* Root makes the object, if its process is still there.  Bound: not while a
\* client holds the object of an earlier activation in the Thunder process (two
\* objects in one process are the subject of ImplLifecycle).
RootSucceeds ==
    /\ P!RootSucceeds
    /\ IF P!OutOfProcess => host[started] = "running"
       THEN L!Construct ELSE UNCHANGED observerVars
    /\ UNCHANGED <<configured, held>>

\* The answer of a process may be lost after it did what it was asked.
ConfigureImplementation ==
    /\ P!ConfigureImplementation
    /\ \/ configured' = (act' = "register")
       \/ P!OutOfProcess /\ configured' = alive
    /\ UNCHANGED <<observerVars, held>>

RegisterNotification ==
    /\ P!RegisterNotification
    /\ \/ (registered' \/ P!OutOfProcess) /\ L!Register(Own)
       \/ ~registered' /\ UNCHANGED observerVars
    /\ UNCHANGED <<configured, held>>

UnregisterNotification ==
    /\ P!UnregisterNotification
    /\ IF P!HostAnswers /\ L!Listed(Own)
       THEN L!Unregister(Own) ELSE UNCHANGED observerVars
    /\ UNCHANGED <<configured, held>>

\* The object is destroyed, and the call returns after that, unless a client
\* holds it too or it is gone already.
ReleaseImplementation(here, next) ==
    /\ P!ReleaseImplementation(here, next)
    /\ IF alive /\ ~held THEN Destruct /\ UNCHANGED held
                         ELSE UNCHANGED objectVars

\* Faulty variant of Terminate: the process of an implementation that is still
\* held is left alone.
TerminateUnlessHeld(here, next) ==
    /\ IF held THEN P!GoOnListening(here, next) ELSE P!Terminate(here, next)
    /\ UNCHANGED objectVars

Terminate(here, next) ==
    /\ P!Terminate(here, next)
    /\ IF host' # host THEN HostDies ELSE UNCHANGED objectVars

Initialize ==
    \/ RootSucceeds \/ ConfigureImplementation \/ RegisterNotification
    \/ ReleaseImplementation("rb_release", "rb_terminate")
    \/ Terminate("rb_terminate", "rb_id")
    \/ /\ \/ P!StartHost \/ P!RootFails \/ P!QueryInterface \/ P!Activated
          \/ P!ReleaseConfigure("rb_configure", "rb_release")
          \/ P!ForgetConnection
          \/ P!StopListening("rb_unregister", "rb_service")
          \/ P!ReleaseService("rb_service")
       /\ UNCHANGED objectVars

Deinitialize ==
    \/ UnregisterNotification
    \/ ReleaseImplementation("de_release", "de_terminate")
    \/ Terminate("de_terminate", "de_service")
    \/ /\ \/ P!StopListening("de_unregister", "de_observer")
          \/ P!UnregisterJson
          \/ P!ReleaseConfigure("de_configure", "de_release")
          \/ P!ReleaseService("de_service")
       /\ UNCHANGED objectVars

-----------------------------------------------------------------------------
\* The framework, the host process and the client.

Crash(id) == P!Crash(id) /\ HostDies

Callback == P!Callback /\ UNCHANGED objectVars

ReportClosed(id) == P!ReportClosed(id) /\ UNCHANGED objectVars

RunJob(id) == P!RunJob(id) /\ UNCHANGED objectVars

\* A client gets the implementation through the plugin (INTERFACE_AGGREGATE) and
\* lets go of it, as the last one perhaps.
Hold ==
    /\ P!HostAnswers /\ state = "activated"
    /\ held' = TRUE
    /\ UNCHANGED <<pluginVars, observerVars, configured>>

LetGo ==
    /\ held /\ held' = FALSE
    /\ IF implementation THEN UNCHANGED <<observerVars, configured>> ELSE Destruct
    /\ UNCHANGED pluginVars

ClientCalls ==
    /\ held \/ (~P!OutOfProcess /\ state = "activated")
    /\ L!Register(Client) \/ L!Unregister(Client)
    /\ UNCHANGED <<pluginVars, configured, held>>

Next ==
    \/ (P!Activate \/ P!Deactivate \/ P!ReportForeign) /\ UNCHANGED objectVars
    \/ Initialize
    \/ Deinitialize
    \/ \E id \in P!ConnectionIds : Crash(id) \/ ReportClosed(id) \/ RunJob(id)
    \/ Callback
    \/ Hold \/ LetGo \/ ClientCalls
    \/ \E t \in Threads : Arrive(t) \/ Handle(t)

Spec == Init /\ [][Next]_vars

\* As in the parts: nobody has to activate, hold or crash anything.
Fairness ==
    /\ SF_vars(Initialize)
    /\ SF_vars(Deinitialize)
    /\ WF_vars(Callback)
    /\ \A id \in P!ConnectionIds : SF_vars(ReportClosed(id)) /\ WF_vars(RunJob(id))
    /\ \A t \in Threads : WF_vars(Handle(t))

FairSpec == Spec /\ Fairness

-----------------------------------------------------------------------------
\* No event is raised on a plugin that has let go of its service: the observer is
\* unregistered first, an event that is past its snapshot is waited for by the
\* destructor, and where a client keeps the object, the end of its process comes
\* before the release of the service.  The exception is an object that a client
\* holds in the Thunder process: no destructor waits and no process ends.
NoLateEvents ==
    [][delivered'[Own] # delivered[Own] => service \/ (held /\ ~P!OutOfProcess)]_vars

\* A plugin that is deactivated is on no list, and its observer, which is about to
\* be destroyed with it, is referenced by nobody, whatever failed or crashed on the
\* way: it leaves no object behind and no thread in one, but for an object in the
\* Thunder process that a client still holds.  An object out of process is gone
\* with its host, held or not.
NothingOutlives ==
    (state = "deactivated" /\ act = "idle") =>
        /\ ~L!Listed(Own)
        /\ alive \/ configured \/ held => alive /\ held /\ ~P!OutOfProcess
        /\ ~alive => Quiet /\ refs[Own] = 1

\* An active plugin whose host answers is told of every event: it is on the list of
\* an implementation that gets events.
ActiveHears ==
    (state = "activated" /\ P!HostAnswers) =>
        alive /\ configured /\ L!Listed(Own)

\* With one dispatch thread, every observer hears the events in the order in which
\* the bus raised them, each at most once, over all activations and crashes.
HeardInOrder ==
    Cardinality(Threads) = 1 =>
        \A o \in {Own, Client} : \A i, j \in DOMAIN delivered[o] :
            i < j => delivered[o][i] < delivered[o][j]

\* An event that arrives while the plugin is active is raised on it, unless the
\* plugin leaves or its host dies, and whatever clients do with the same object.
EventReachesPlugin ==
    \A e \in L!Events :
        (state = "activated" /\ \E t \in Threads : pc[t] = "snapshot" /\ event[t] = e)
            ~> (\/ \E i \in DOMAIN delivered[Own] : delivered[Own][i] = e
                \/ state # "activated" \/ ~alive)

\* Deinitialize returns, although the destructor it calls waits for the event
\* handlers, and these for the plugin's callback.
DeinitializeReturns == (state = "deactivation") ~> (state = "deactivated")

=============================================================================
