--------------------------- MODULE ImplLifecycle ---------------------------
(***************************************************************************)
(* The life of a RemoteControlImplementation object and of its connection  *)
(* to the IARM bus: constructor, Configure, InitializeIARM (with the retry *)
(* loop of Utils::IARM::init), DeinitializeIARM, destructor, and, beside   *)
(* them, the dispatch threads of the bus entering remoteEventHandler.      *)
(*                                                                         *)
(* The bus and the other users of it in the same process are external; the *)
(* model has what src/ relies on: Init and Connect that may fail or say    *)
(* that they were done already, a handler table, and IsConnected.  The     *)
(* BOOLEAN constants say which of its freedoms a run gives to the bus.     *)
(*                                                                         *)
(* An event handler body (iarmEventHandler and below) is one step here; it *)
(* is taken apart in ObserverList.                                         *)
(***************************************************************************)
EXTENDS Naturals, FiniteSets

CONSTANTS
    Objects,          \* RemoteControlImplementation objects (slots, reused)
    None,             \* the null pointer
    Threads,          \* dispatch threads of the IARM bus
    Retries,          \* retries of Utils::IARM::init (20 in the code)
    MaxEntries,       \* bound: entries of the table for one event
    ConnectMayFail,   \* IARM_Bus_Init and IARM_Bus_Connect may fail
    CheckMayFail,     \* IARM_Bus_IsConnected may fail on a connected bus
    RegisterMayFail,  \* IARM_Bus_RegisterEventHandler may fail
    TeardownMayFail,  \* IARM_Bus_RemoveEventHandler, _Disconnect, _Term may
    RemoveWaits,      \* RemoveEventHandler waits for the handler to return
    Overlap,          \* an object may be made while another still exists
    Shared            \* another plugin of the process uses the bus as well

ASSUME ObjectsAssumption == None \notin Objects

ASSUME RetriesAssumption == Retries \in Nat

ASSUME MaxEntriesAssumption == MaxEntries \in Nat

ASSUME SwitchesAssumption ==
    {ConnectMayFail, CheckMayFail, RegisterMayFail, TeardownMayFail,
     RemoveWaits, Overlap, Shared} \subseteq BOOLEAN

VARIABLES
    instance,            \* _instance
    pc,                  \* pc[o]: how far object o is in its life
    alreadyConnected,    \* the sample InitializeIARM takes first
    retryCount,          \* of Utils::IARM::init
    hasOwnProcess,       \* _hasOwnProcess
    handlersRegistered,  \* _handlersRegistered
    left,                \* handlers DeinitializeIARM has still to remove
    service,             \* service[o]: _service is set and referenced
    inited, connected,   \* the bus, as seen by this process
    handlers,            \* handlers[e]: entries of the bus's table for event e
    stuck,               \* history: stuck[e] of them could not be removed
    peer,                \* the other user: "absent", "user" or "owner"
    raced,               \* history: it has made a decision of an object stale
    tpc,                 \* tpc[t]: where dispatch thread t is
    captured,            \* captured[t]: the local variable `instance`
    dispatched           \* dispatched[t]: the event thread t was called for

joinVars == <<alreadyConnected, retryCount, hasOwnProcess>>
regVars == <<handlersRegistered, left>>
busVars == <<inited, connected>>
tableVars == <<handlers, stuck>>
threadVars == <<tpc, captured, dispatched>>
peerVars == <<peer, raced>>
others == <<peerVars, threadVars>>

vars == <<instance, pc, joinVars, regVars, service, busVars, tableVars, others>>

\* The five events, numbered in the order InitializeIARM registers them:
\* RCU_STATUS, FIRMWARE_UPDATE_PROGRESS, VALIDATION_STATUS,
\* CONFIGURATION_COMPLETE, RF4CE_PAIRING_WINDOW_TIMEOUT.
NumHandlers == 5
HandlerEvents == 1 .. NumHandlers

Configuring == {"sample", "check_first", "bus_init", "bus_connect",
                "bus_check", "register", "verify"}
RollingBack == {"rb_remove", "rb_drain", "rb_disconnect", "rb_term"}
Destroying  == {"remove", "drain", "disconnect", "term", "release"}
Resting     == {"none", "constructed", "configured", "failed"}

TypeOK ==
    /\ instance \in Objects \cup {None}
    /\ pc \in [Objects -> Configuring \cup RollingBack \cup Destroying \cup Resting]
    /\ {alreadyConnected, hasOwnProcess, service} \subseteq [Objects -> BOOLEAN]
    /\ retryCount \in [Objects -> 0 .. Retries]
    /\ {handlersRegistered, left} \subseteq [Objects -> 0 .. NumHandlers]
    /\ {inited, connected} \subseteq BOOLEAN
    /\ {handlers, stuck} \subseteq [HandlerEvents -> Nat]
    /\ peer \in {"absent", "user", "owner"}
    /\ raced \in BOOLEAN
    /\ tpc \in [Threads -> {"idle", "entered", "captured"}]
    /\ captured \in [Threads -> Objects \cup {None}]
    /\ dispatched \in [Threads -> HandlerEvents]

No == [o \in Objects |-> FALSE]

Init ==
    /\ instance = None
    /\ pc = [o \in Objects |-> "none"]
    /\ alreadyConnected = No
    /\ hasOwnProcess = No
    /\ service = No
    /\ retryCount = [o \in Objects |-> 0]
    /\ handlersRegistered = [o \in Objects |-> 0]
    /\ left = [o \in Objects |-> 0]
    /\ inited = FALSE
    /\ connected = FALSE
    /\ handlers = [e \in HandlerEvents |-> 0]
    /\ stuck = [e \in HandlerEvents |-> 0]
    /\ peer = "absent"
    /\ raced = FALSE
    /\ tpc = [t \in Threads |-> "idle"]
    /\ captured = [t \in Threads |-> None]
    /\ dispatched = [t \in Threads |-> 1]

Exists(o) == pc[o] # "none"

\* Object o goes on from one label to another.
At(o, label) == pc[o] = label
Goto(o, label) == pc' = [pc EXCEPT ![o] = label]

-----------------------------------------------------------------------------
\* The bus, as src/ uses it.

\* Utils::IARM::isConnected: a connected bus may fail to confirm it.
IsConnected(result) ==
    IF connected /\ CheckMayFail THEN result \in BOOLEAN ELSE result = connected

\* IARM_Bus_Init and IARM_Bus_Connect return SUCCESS and take effect, or
\* INVALID_STATE and change nothing (the caller goes on), or an error.
BusInit(ok) ==
    \/ ok /\ inited' = TRUE
    \/ ~ok /\ ConnectMayFail /\ ~inited /\ inited' = inited

BusConnect(ok) ==
    \/ ok /\ connected' = inited
    \/ ~ok /\ ConnectMayFail /\ ~connected /\ connected' = connected

-----------------------------------------------------------------------------
\* Constructor and Configure.

\* Bound: no new object once failed removals have left MaxEntries entries.
Construct(o) ==
    /\ At(o, "none") /\ Goto(o, "constructed")
    /\ \A e \in HandlerEvents : handlers[e] < MaxEntries
    /\ Overlap \/ \A other \in Objects : ~Exists(other)
    /\ instance' = o
    /\ alreadyConnected' = [alreadyConnected EXCEPT ![o] = FALSE]
    /\ hasOwnProcess' = [hasOwnProcess EXCEPT ![o] = FALSE]
    /\ handlersRegistered' = [handlersRegistered EXCEPT ![o] = 0]
    /\ service' = [service EXCEPT ![o] = FALSE]
    /\ UNCHANGED <<retryCount, left, busVars, tableVars, others>>

Configure(o) ==
    /\ At(o, "constructed") /\ Goto(o, "sample")
    /\ service' = [service EXCEPT ![o] = TRUE]
    /\ UNCHANGED <<instance, joinVars, regVars, busVars, tableVars, others>>

SampleConnected(o) ==
    /\ At(o, "sample") /\ Goto(o, "check_first")
    /\ \E yes \in BOOLEAN :
          IsConnected(yes) /\ alreadyConnected' = [alreadyConnected EXCEPT ![o] = yes]
    /\ UNCHANGED <<instance, retryCount, hasOwnProcess, regVars, service,
                   busVars, tableVars, others>>

Joined(o, own) ==
    /\ Goto(o, "register")
    /\ hasOwnProcess' = [hasOwnProcess EXCEPT ![o] = own]
    /\ UNCHANGED <<retryCount, service>>

\* Faulty variant of InitSucceeded: isConnected is sampled after init().
InitSucceededSampledAfter(o) == Joined(o, ~connected)

\* Faulty variant of InitSucceeded: the sample is not looked at.
InitSucceededOwns(o) == Joined(o, TRUE)

\* Utils::IARM::init returned true: InitializeIARM goes on to the handlers.
InitSucceeded(o) == Joined(o, ~alreadyConnected[o])

Attempt(o, count) ==
    /\ Goto(o, "bus_init")
    /\ retryCount' = [retryCount EXCEPT ![o] = count]
    /\ UNCHANGED <<hasOwnProcess, service>>

\* Faulty variant of AttemptFailed: the retries are not counted.
AttemptFailedUncounted(o) == Attempt(o, retryCount[o])

\* An attempt of Utils::IARM::init failed: the next one, or, after the last,
\* InitializeIARM and Configure return with an error and nothing is undone
\* but the reference to the service.
AttemptFailed(o) ==
    \/ retryCount[o] < Retries /\ Attempt(o, retryCount[o] + 1)
    \/ /\ retryCount[o] = Retries
       /\ Goto(o, "failed")
       /\ hasOwnProcess' = [hasOwnProcess EXCEPT ![o] = FALSE]
       /\ service' = [service EXCEPT ![o] = FALSE]
       /\ UNCHANGED retryCount

\* On to the next call of Utils::IARM::init.
GoOn(o, label) == Goto(o, label) /\ UNCHANGED <<retryCount, hasOwnProcess, service>>

\* The first test of Utils::IARM::init.
CheckFirst(o) ==
    /\ At(o, "check_first")
    /\ \/ IsConnected(TRUE) /\ InitSucceeded(o)
       \/ IsConnected(FALSE) /\ Attempt(o, 0)
    /\ UNCHANGED <<instance, alreadyConnected, regVars, busVars, tableVars, others>>

TryInit(o) ==
    /\ At(o, "bus_init")
    /\ \/ BusInit(TRUE) /\ GoOn(o, "bus_connect")
       \/ BusInit(FALSE) /\ AttemptFailed(o)
    /\ UNCHANGED <<instance, alreadyConnected, regVars, connected, tableVars, others>>

TryConnect(o) ==
    /\ At(o, "bus_connect")
    /\ \/ BusConnect(TRUE) /\ GoOn(o, "bus_check")
       \/ BusConnect(FALSE) /\ AttemptFailed(o)
    /\ UNCHANGED <<instance, alreadyConnected, regVars, inited, tableVars, others>>

CheckConnected(o) ==
    /\ At(o, "bus_check")
    /\ \/ IsConnected(TRUE) /\ InitSucceeded(o)
       \/ IsConnected(FALSE) /\ AttemptFailed(o)
    /\ UNCHANGED <<instance, alreadyConnected, regVars, busVars, tableVars, others>>

\* One RC_REGISTER; after the fifth InitializeIARM has succeeded.
RegisterHandler(o) ==
    LET e == handlersRegistered[o] + 1 IN
    /\ At(o, "register") /\ Goto(o, IF e = NumHandlers THEN "verify" ELSE "register")
    /\ handlers' = [handlers EXCEPT ![e] = @ + 1]
    /\ handlersRegistered' = [handlersRegistered EXCEPT ![o] = e]
    /\ UNCHANGED <<instance, joinVars, left, service, busVars, stuck, others>>

\* Faulty variant of BeginDeinitialize: all handlers go, registered or not.
BeginDeinitializeAll(o, withHandlers, without) ==
    left' = [left EXCEPT ![o] = NumHandlers] /\ Goto(o, withHandlers)

\* DeinitializeIARM is called: with handlers to remove, or straight to the bus.
BeginDeinitialize(o, withHandlers, without) ==
    /\ left' = [left EXCEPT ![o] = handlersRegistered[o]]
    /\ Goto(o, IF handlersRegistered[o] > 0 THEN withHandlers ELSE without)

\* Faulty variant of RegisterHandlerFails: returns without the rollback.
RegisterHandlerFailsNoRollback(o) ==
    /\ RegisterMayFail
    /\ At(o, "register") /\ Goto(o, "failed")
    /\ service' = [service EXCEPT ![o] = FALSE]
    /\ UNCHANGED <<instance, joinVars, regVars, busVars, tableVars, others>>

\* RC_REGISTER fails: roll back.
RegisterHandlerFails(o) ==
    /\ RegisterMayFail
    /\ At(o, "register") /\ BeginDeinitialize(o, "rb_remove", "rb_disconnect")
    /\ UNCHANGED <<instance, joinVars, handlersRegistered, service, busVars,
                   tableVars, others>>

\* The last test of Configure.
Verify(o) ==
    /\ At(o, "verify")
    /\ \/ IsConnected(TRUE) /\ Goto(o, "configured") /\ UNCHANGED left
       \/ IsConnected(FALSE) /\ BeginDeinitialize(o, "rb_remove", "rb_disconnect")
    /\ UNCHANGED <<instance, joinVars, handlersRegistered, service, busVars,
                   tableVars, others>>

-----------------------------------------------------------------------------
\* DeinitializeIARM, called to roll back a Configure or from the destructor.
\* Every result of the bus is only logged.

\* Handlers go in the reverse order of their registration.
RemoveHandler(o, here, drain) ==
    /\ At(o, here) /\ Goto(o, drain)
    /\ \/ handlers' = [handlers EXCEPT ![left[o]] = @ - 1] /\ UNCHANGED stuck
       \/ /\ TeardownMayFail
          /\ stuck' = [stuck EXCEPT ![left[o]] = @ + 1]
          /\ UNCHANGED handlers
    /\ UNCHANGED <<instance, joinVars, regVars, service, busVars, others>>

\* RemoveEventHandler returns, with RemoveWaits only when nobody runs the
\* handler it took out of the table.
HandlerRemoved(o, here, again, next) ==
    /\ At(o, here) /\ Goto(o, IF left[o] > 1 THEN again ELSE next)
    /\ (RemoveWaits /\ handlers[left[o]] = 0) =>
          \A t \in Threads : tpc[t] = "idle" \/ dispatched[t] # left[o]
    /\ left' = [left EXCEPT ![o] = @ - 1]
    /\ handlersRegistered' =
          [handlersRegistered EXCEPT ![o] = IF left[o] > 1 THEN @ ELSE 0]
    /\ UNCHANGED <<instance, joinVars, service, busVars, tableVars, others>>

Disconnect(o, here, next) ==
    /\ At(o, here) /\ Goto(o, next)
    /\ \/ connected' = (connected /\ ~hasOwnProcess[o])
       \/ TeardownMayFail /\ UNCHANGED connected
    /\ UNCHANGED <<instance, joinVars, regVars, service, inited, tableVars, others>>

LeaveBus(o, here, next) ==
    /\ At(o, here) /\ Goto(o, next)
    /\ \/ inited' = (inited /\ ~hasOwnProcess[o])
       \/ TeardownMayFail /\ UNCHANGED inited
    /\ hasOwnProcess' = [hasOwnProcess EXCEPT ![o] = FALSE]
    /\ UNCHANGED <<instance, alreadyConnected, retryCount, regVars, connected,
                   tableVars, others>>

\* Faulty variant of Term: Configure returns without releasing the service.
TermKeepsService(o, here, next) == LeaveBus(o, here, next) /\ UNCHANGED service

\* IARM_Bus_Term, the reset of _hasOwnProcess, and the return of
\* DeinitializeIARM: to Configure, which drops the service, or the destructor.
Term(o, here, next) ==
    /\ LeaveBus(o, here, next)
    /\ service' = [service EXCEPT ![o] = (next # "failed") /\ @]

Rollback(o) ==
    \/ RemoveHandler(o, "rb_remove", "rb_drain")
    \/ HandlerRemoved(o, "rb_drain", "rb_remove", "rb_disconnect")
    \/ Disconnect(o, "rb_disconnect", "rb_term")
    \/ Term(o, "rb_term", "failed")

BeginDestructor(o) ==
    /\ pc[o] \in {"constructed", "configured", "failed"}
    /\ UNCHANGED <<joinVars, handlersRegistered, service, busVars, tableVars, others>>

\* Faulty variant of Destroy: the destructor does not call DeinitializeIARM.
DestroyKeepsHandlers(o) ==
    /\ BeginDestructor(o)
    /\ instance' = None
    /\ Goto(o, "release") /\ UNCHANGED left

\* Faulty variant of Destroy: _instance is not cleared.
DestroyKeepsInstance(o) ==
    /\ BeginDestructor(o)
    /\ BeginDeinitialize(o, "remove", "disconnect")
    /\ UNCHANGED instance

\* The last reference is released: the destructor begins.
Destroy(o) ==
    /\ BeginDestructor(o)
    /\ instance' = None
    /\ BeginDeinitialize(o, "remove", "disconnect")

\* The observers (see ObserverList) and the service are released; the object
\* is gone.
ReleaseAll(o) ==
    /\ At(o, "release") /\ Goto(o, "none")
    /\ service' = [service EXCEPT ![o] = FALSE]
    /\ UNCHANGED <<instance, joinVars, regVars, busVars, tableVars, others>>

Destructor(o) ==
    \/ RemoveHandler(o, "remove", "drain")
    \/ HandlerRemoved(o, "drain", "remove", "disconnect")
    \/ Disconnect(o, "disconnect", "term")
    \/ Term(o, "term", "release")
    \/ ReleaseAll(o)

-----------------------------------------------------------------------------
\* The dispatch threads of the bus.

ThreadOnly ==
    UNCHANGED <<instance, pc, joinVars, regVars, service, busVars, tableVars, peerVars>>

\* The bus calls remoteEventHandler for an event in its table.
Enter(t, e) ==
    /\ tpc[t] = "idle"
    /\ connected
    /\ handlers[e] > 0
    /\ tpc' = [tpc EXCEPT ![t] = "entered"]
    /\ dispatched' = [dispatched EXCEPT ![t] = e]
    /\ ThreadOnly /\ UNCHANGED captured

\* _instance is copied under _instanceLock; without one the event is ignored.
CopyInstance(t) ==
    /\ tpc[t] = "entered"
    /\ tpc' = [tpc EXCEPT ![t] = IF instance = None THEN "idle" ELSE "captured"]
    /\ captured' = [captured EXCEPT ![t] = instance]
    /\ ThreadOnly /\ UNCHANGED dispatched

\* Faulty variant of Capture: the destructor holds _instanceLock throughout.
CaptureLocked(t) == (\A o \in Objects : pc[o] \notin Destroying) /\ CopyInstance(t)

Capture(t) == CopyInstance(t)

\* instance->iarmEventHandler runs, unlocked, and returns.
RunHandler(t) ==
    /\ tpc[t] = "captured"
    /\ tpc' = [tpc EXCEPT ![t] = "idle"]
    /\ captured' = [captured EXCEPT ![t] = None]
    /\ ThreadOnly /\ UNCHANGED dispatched

-----------------------------------------------------------------------------
\* Another plugin of the same process, which uses Utils::IARM like this one and
\* comes and goes at any time.

\* Object o goes by what it knows of the connection, and that may change: by the
\* sample until init() is through, and by hasOwnProcess between Disconnect and Term.
Relying(o) ==
    \/ /\ pc[o] \in {"check_first", "bus_init", "bus_connect", "bus_check"}
       /\ alreadyConnected[o] = connected
    \/ pc[o] \in {"rb_term", "term"} /\ hasOwnProcess[o]

\* The other plugin joins or leaves, which changes the connection or does not.
PeerMoves ==
    /\ raced' = (raced \/ (connected' # connected /\ \E o \in Objects : Relying(o)))
    /\ UNCHANGED <<instance, pc, joinVars, regVars, service, tableVars, threadVars>>

PeerStart ==
    /\ Shared
    /\ peer = "absent"
    /\ peer' = IF connected THEN "user" ELSE "owner"
    /\ inited' = TRUE
    /\ connected' = TRUE
    /\ PeerMoves

PeerStop ==
    /\ peer # "absent"
    /\ peer' = "absent"
    /\ inited' = (inited /\ peer # "owner")
    /\ connected' = (connected /\ peer # "owner")
    /\ PeerMoves

-----------------------------------------------------------------------------
ConfigureStep(o) ==
    \/ SampleConnected(o) \/ CheckFirst(o)
    \/ TryInit(o) \/ TryConnect(o) \/ CheckConnected(o)
    \/ RegisterHandler(o) \/ RegisterHandlerFails(o) \/ Verify(o)
    \/ Rollback(o)

ThreadStep(t) == Capture(t) \/ RunHandler(t)

Next ==
    \/ \E o \in Objects :
          \/ Construct(o) \/ Configure(o) \/ ConfigureStep(o)
          \/ Destroy(o) \/ Destructor(o)
    \/ \E t \in Threads :
          \/ \E e \in HandlerEvents : Enter(t, e)
          \/ ThreadStep(t)
    \/ PeerStart
    \/ PeerStop

Spec == Init /\ [][Next]_vars

\* A thread that runs Configure, the destructor or the handler keeps running.
Fairness ==
    /\ \A o \in Objects : WF_vars(ConfigureStep(o)) /\ WF_vars(Destructor(o))
    /\ \A t \in Threads : WF_vars(ThreadStep(t))

FairSpec == Spec /\ Fairness

-----------------------------------------------------------------------------
\* Configure registers all of its handlers or none: a configured object has one
\* entry for each event, and when no object is configured or changing, a
\* registration that was rolled back or torn down has left nothing in the table,
\* in both cases but for the entries that the bus failed to remove.
AllOrNothing ==
    /\ \A o \in Objects : pc[o] = "configured" =>
          \A e \in HandlerEvents : handlers[e] = 1 + stuck[e]
    /\ (\A o \in Objects : pc[o] \in {"none", "constructed", "failed"}) =>
          handlers = stuck

\* remoteEventHandler never runs on an object that has been destroyed, although
\* it uses the pointer after it gave the lock back.  It takes a bus whose
\* RemoveEventHandler waits for the handler to return; the exception is an event
\* whose handler could not be removed, which the destructor does not wait for.
NoUseAfterDestroy ==
    \A t \in Threads :
        tpc[t] = "captured" => Exists(captured[t]) \/ stuck[dispatched[t]] > 0

\* The warning "cannot handle btremote IARM events without a
\* RemoteControlImplementation instance!" (RemoteControlImplementation.cpp:392)
\* tells the truth: _instance is null for want of an object.  The pointer to an
\* object that is configured, and stays so, is not cleared; but with overlapping
\* objects the destructor of the older one clears the pointer to the newer one.
WarningIsTrue ==
    [][\A o \in Objects :
          instance = o /\ pc[o] = "configured" /\ pc'[o] = "configured" =>
              instance' # None]_vars

\* The destructor clears _instance before anything is taken down, so the static
\* pointer never designates an object that is being destroyed or is gone, even
\* if every call to the bus fails.
InstanceNotDestroyed ==
    instance # None => pc[instance] \notin Destroying \cup {"none"}

\* When the last user is gone the process has let go of the bus: unless the other
\* plugin left it, as its owner, between the sample of an object and init(), which
\* then makes a connection that the object takes for the other's (:329-331).  (A
\* failed Utils::IARM::init does not let go either: see the run that lets Init and
\* Connect fail.)
BusReleased ==
    (~raced /\ peer = "absent" /\ \A o \in Objects : pc[o] \in {"none", "failed"}) =>
        ~inited /\ ~connected

\* A bus connection that another plugin made is not taken down by this one: unless
\* the other plugin made it between the sample of an object and init(), when both
\* take it for their own, or between Disconnect and Term (:375-376).
KeepsPeerConnection ==
    [][(~raced /\ peer = "owner" /\ peer' = "owner") =>
          (connected => connected') /\ (inited => inited')]_vars

\* The shell is referenced for as long as the object is configured, and a
\* failed Configure, or a destructor, has given its reference back.
ServiceHeld ==
    \A o \in Objects :
        /\ pc[o] = "configured" => service[o]
        /\ pc[o] \in {"none", "failed"} => ~service[o]

\* Configure returns: the retries are bounded and a rollback is not held up.
ConfigureReturns ==
    \A o \in Objects : (pc[o] \in Configuring) ~> (pc[o] \in {"configured", "failed"})

\* The destructor completes, waiting for handlers that are running included.
DestructorCompletes ==
    \A o \in Objects : (pc[o] \in Destroying) ~> (pc[o] = "none")

=============================================================================
