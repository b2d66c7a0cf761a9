--------------------------- MODULE PluginLifecycle ---------------------------
(***************************************************************************)
(* The RemoteControl plugin in the Thunder process: Initialize with its    *)
(* rollback, Deinitialize, and Deactivated, which the framework calls on a *)
(* communication thread when a remote connection closes, whoever owns it.  *)
(*                                                                         *)
(* The framework is external.  It runs Initialize and Deinitialize of one  *)
(* plugin one after the other (the "activator"), reports each closed       *)
(* connection once to whoever is registered at that time, and runs the     *)
(* jobs of its worker pool later, in any order.  The host process of the   *)
(* implementation may crash at any time, after which every call to it      *)
(* fails.                                                                  *)
(***************************************************************************)
EXTENDS Naturals, FiniteSets

CONSTANTS
    MaxConnections,    \* bound: the number of host processes started
    Modes,             \* the modes it may be built for: "Local", "Off"
    UnregisterWaits    \* IShell::Unregister waits for a callback that runs

ASSUME MaxConnectionsAssumption == MaxConnections \in Nat \ {0}

ASSUME ModesAssumption == Modes \subseteq {"Local", "Off"}

ASSUME UnregisterWaitsAssumption == UnregisterWaits \in BOOLEAN

ConnectionIds == 1 .. MaxConnections

\* A connection of some other plugin.
Foreign == MaxConnections + 1

VARIABLES
    state,           \* what the framework thinks the plugin is
    act,             \* where the activator is in Initialize or Deinitialize
    service,         \* _service is set
    connectionId,    \* _connectionId
    implementation,  \* _implementation is set
    configure,       \* _configure is set
    connListening,   \* _connectionNotification is registered with the shell
    registered,      \* _notification is registered with the implementation
    jsonrpc,         \* JRemoteControl::Register is in force
    shellRefs,       \* references to the shell held by plugin and callback
    connection,      \* local variable: the IRemoteConnection, or 0
    mode,            \* "Local": the implementation has a host process
    started,         \* host processes started so far
    host,            \* host[id]: "none", "running", "crashed", "terminated"
    reported,        \* connections whose end has been reported
    cb, cbId,        \* where Deactivated is, and the connection it is about
    jobs             \* FAILURE jobs in the worker pool, by connection

shellVars == <<service, connListening, shellRefs>>
implVars == <<implementation, configure, registered, jsonrpc>>
connVars == <<connectionId, connection>>
hostVars == <<mode, started, host>>
cbVars == <<reported, cb, cbId, jobs>>

vars == <<state, act, shellVars, implVars, connVars, hostVars, cbVars>>

RollingBack == {"rb_configure", "rb_release", "rb_terminate", "rb_id",
                "rb_unregister", "rb_service"}

Init ==
    /\ state = "deactivated"
    /\ act = "idle"
    /\ service = FALSE
    /\ connectionId = 0
    /\ implementation = FALSE
    /\ configure = FALSE
    /\ connListening = FALSE
    /\ registered = FALSE
    /\ jsonrpc = FALSE
    /\ shellRefs = 0
    /\ connection = 0
    /\ mode \in Modes
    /\ started = 0
    /\ host = [id \in ConnectionIds |-> "none"]
    /\ reported = {}
    /\ cb = "idle"
    /\ cbId = 0
    /\ jobs = {}

OutOfProcess == mode = "Local"

\* Whether a call to the implementation can be answered.
HostAnswers == OutOfProcess => connectionId # 0 /\ host[connectionId] = "running"

\* The activator goes on to the next call.
Go(from, to) == act = from /\ act' = to

-----------------------------------------------------------------------------
\* Initialize.

ReferenceShell ==
    /\ state = "deactivated" /\ state' = "activation"
    /\ Go("idle", "root")
    /\ service' = TRUE
    /\ shellRefs' = shellRefs + 1
    /\ UNCHANGED <<implVars, connVars, hostVars, cbVars>>

\* Faulty variant of Activate: the plugin does not listen to the shell.
ActivateDeaf == ReferenceShell /\ UNCHANGED connListening

\* The framework activates the plugin: the shell is referenced and listened to.
Activate == ReferenceShell /\ connListening' = TRUE

\* Root starts a host process; its identifier is not known to the plugin yet.
StartHost ==
    /\ OutOfProcess
    /\ Go("root", "rooted")
    /\ started < MaxConnections
    /\ started' = started + 1
    /\ host' = [host EXCEPT ![started + 1] = "running"]
    /\ UNCHANGED <<state, shellVars, implVars, connVars, mode, cbVars>>

\* Root returns the implementation and, out of process, its connection.
RootSucceeds ==
    /\ Go(IF OutOfProcess THEN "rooted" ELSE "root", "query")
    /\ implementation' = TRUE
    /\ connectionId' = IF OutOfProcess THEN started ELSE 0
    /\ UNCHANGED <<state, shellVars, configure, registered, jsonrpc, connection,
                   hostVars, cbVars>>

\* Root returns no implementation, because it could not be started or because
\* its host is dead already: nothing but the shell to give back.
RootFails ==
    /\ \/ Go("root", "rb_id")
       \/ Go("rooted", "rb_id") /\ host[started] = "crashed"
    /\ UNCHANGED <<state, shellVars, implVars, connVars, hostVars, cbVars>>

QueryInterface ==
    /\ \/ HostAnswers /\ Go("query", "configure") /\ configure' = TRUE
       \/ Go("query", "rb_configure") /\ configure' = FALSE
    /\ UNCHANGED <<state, shellVars, implementation, registered, jsonrpc,
                   connVars, hostVars, cbVars>>

\* Configure is called; what follows a failure is the parameter.
CallConfigure(rollback) ==
    /\ (HostAnswers /\ Go("configure", "register")) \/ Go("configure", rollback)
    /\ UNCHANGED <<state, shellVars, implVars, connVars, hostVars, cbVars>>

\* Faulty variant of ConfigureImplementation: a failure skips half the rollback.
ConfigureImplementationLeaks == CallConfigure("rb_id")

ConfigureImplementation == CallConfigure("rb_configure")

RegisterNotification ==
    /\ \/ HostAnswers /\ Go("register", "json") /\ registered' = TRUE
       \/ Go("register", "rb_configure") /\ registered' = FALSE
    /\ UNCHANGED <<state, shellVars, implementation, configure, jsonrpc,
                   connVars, hostVars, cbVars>>

\* JRemoteControl::Register; Initialize returns the empty message.
Activated ==
    /\ Go("json", "idle")
    /\ jsonrpc' = TRUE
    /\ state' = "activated"
    /\ UNCHANGED <<shellVars, implementation, configure, registered, connVars,
                   hostVars, cbVars>>

-----------------------------------------------------------------------------
\* Teardown steps shared by the rollback of Initialize and Deinitialize.

ReleaseConfigure(here, next) ==
    /\ Go(here, next)
    /\ configure' = FALSE
    /\ UNCHANGED <<state, shellVars, implementation, registered, jsonrpc,
                   connVars, hostVars, cbVars>>

\* RemoteConnection(_connectionId) finds a connection that is not closed yet,
\* then the implementation is released, the plugin's only reference to it.
ReleaseImplementation(here, next) ==
    /\ Go(here, next)
    /\ connection' = IF connectionId # 0 /\ connectionId \notin reported
                     THEN connectionId ELSE 0
    /\ implementation' = FALSE
    /\ registered' = FALSE
    /\ UNCHANGED <<state, shellVars, configure, jsonrpc, connectionId, hostVars,
                   cbVars>>

\* connection->Terminate() and Release().
Terminate(here, next) ==
    /\ Go(here, next)
    /\ host' = IF connection # 0 /\ host[connection] = "running"
               THEN [host EXCEPT ![connection] = "terminated"] ELSE host
    /\ connection' = 0
    /\ UNCHANGED <<state, shellVars, implVars, connectionId, mode, started,
                   cbVars>>

\* Faulty variant of StopListening: the plugin goes on listening.
GoOnListening(here, next) ==
    /\ Go(here, next)
    /\ UNCHANGED <<state, shellVars, implVars, connVars, hostVars, cbVars>>

\* _service->Unregister(&_connectionNotification).
StopListening(here, next) ==
    /\ Go(here, next)
    /\ UnregisterWaits => cb = "idle"
    /\ connListening' = FALSE
    /\ UNCHANGED <<state, service, shellRefs, implVars, connVars, hostVars,
                   cbVars>>

\* _service->Release(), _service = nullptr, and the return to the framework.
ReleaseService(here) ==
    /\ Go(here, "idle")
    /\ service' = FALSE
    /\ connectionId' = 0
    /\ shellRefs' = shellRefs - 1
    /\ state' = "deactivated"
    /\ UNCHANGED <<connListening, implVars, connection, hostVars, cbVars>>

\* The rollback forgets the connection before it stops listening.
ForgetConnection ==
    /\ Go("rb_id", "rb_unregister")
    /\ connectionId' = 0
    /\ UNCHANGED <<state, shellVars, implVars, connection, hostVars, cbVars>>

Rollback ==
    \/ ReleaseConfigure("rb_configure", "rb_release")
    \/ ReleaseImplementation("rb_release", "rb_terminate")
    \/ Terminate("rb_terminate", "rb_id")
    \/ ForgetConnection
    \/ StopListening("rb_unregister", "rb_service")
    \/ ReleaseService("rb_service")

-----------------------------------------------------------------------------
\* Deinitialize, for a user or for a FAILURE job.

\* Faulty variant of BeginDeinitialize: teardown begins while still listening.
BeginDeinitializeListening == state' = "deactivation" /\ act' = "de_observer"

BeginDeinitialize == state' = "deactivation" /\ act' = "de_unregister"

Deactivate ==
    /\ state = "activated"
    /\ BeginDeinitialize
    /\ UNCHANGED <<shellVars, implVars, connVars, hostVars, cbVars>>

\* The call to a dead implementation is without effect, and harmless.
UnregisterNotification ==
    /\ Go("de_observer", "de_json")
    /\ registered' = (registered /\ ~HostAnswers)
    /\ UNCHANGED <<state, shellVars, implementation, configure, jsonrpc,
                   connVars, hostVars, cbVars>>

UnregisterJson ==
    /\ Go("de_json", "de_configure")
    /\ jsonrpc' = FALSE
    /\ UNCHANGED <<state, shellVars, implementation, configure, registered,
                   connVars, hostVars, cbVars>>

Deinitialize ==
    \/ StopListening("de_unregister", "de_observer")
    \/ UnregisterNotification
    \/ UnregisterJson
    \/ ReleaseConfigure("de_configure", "de_release")
    \/ ReleaseImplementation("de_release", "de_terminate")
    \/ Terminate("de_terminate", "de_service")
    \/ ReleaseService("de_service")

-----------------------------------------------------------------------------
\* The host process and the framework's report of its end.

Crash(id) ==
    /\ host[id] = "running"
    /\ host' = [host EXCEPT ![id] = "crashed"]
    /\ UNCHANGED <<state, act, shellVars, implVars, connVars, mode, started,
                   cbVars>>

\* The connection of a host that ended is closed: the plugin is called if it
\* listens, and nobody will tell it later if it does not.
ReportClosed(id) ==
    /\ host[id] \in {"crashed", "terminated"}
    /\ id \notin reported
    /\ cb = "idle"
    /\ reported' = reported \cup {id}
    /\ IF connListening THEN cb' = "entered" /\ cbId' = id
                        ELSE UNCHANGED <<cb, cbId>>
    /\ UNCHANGED <<state, act, shellVars, implVars, connVars, hostVars, jobs>>

\* Deactivated goes on from one access of a member to the next.
CallbackStep ==
    UNCHANGED <<state, act, service, connListening, implVars, connVars,
                hostVars, reported>>

\* The connection of another plugin closes.
ReportForeign ==
    /\ connListening
    /\ cb = "idle"
    /\ cb' = "entered"
    /\ cbId' = Foreign
    /\ CallbackStep /\ UNCHANGED <<shellRefs, jobs>>

\* Deactivated(connection): the two tests, the reference for the time of the
\* call, the job, and the release.  Each reads the members afresh.
TestConnection ==
    /\ cb = "entered"
    /\ cb' = IF cbId = connectionId THEN "matched" ELSE "idle"
    /\ CallbackStep /\ UNCHANGED <<shellRefs, cbId, jobs>>

TestService ==
    /\ cb = "matched"
    /\ cb' = IF service THEN "checked" ELSE "idle"
    /\ CallbackStep /\ UNCHANGED <<shellRefs, cbId, jobs>>

ReferenceService ==
    /\ cb = "checked" /\ cb' = "referenced"
    /\ shellRefs' = shellRefs + 1
    /\ CallbackStep /\ UNCHANGED <<cbId, jobs>>

AddJob ==
    /\ cb = "referenced" /\ cb' = "submitted"
    /\ jobs' = jobs \cup {cbId}
    /\ CallbackStep /\ UNCHANGED <<shellRefs, cbId>>

\* Faulty variant of SubmitJob: the plugin is deactivated on the spot, and waits
\* for its turn with the callback still running.
SubmitJobInPlace == act = "idle" /\ AddJob

SubmitJob == AddJob

ReturnFromDeactivated ==
    /\ cb = "submitted" /\ cb' = "idle"
    /\ shellRefs' = shellRefs - 1
    /\ CallbackStep /\ UNCHANGED <<cbId, jobs>>

Callback ==
    TestConnection \/ TestService \/ ReferenceService \/ SubmitJob
        \/ ReturnFromDeactivated

\* The worker pool runs a FAILURE job, whatever the activator is at: the shell
\* deactivates an active plugin and does nothing otherwise.
RunJob(id) ==
    /\ id \in jobs
    /\ jobs' = jobs \ {id}
    /\ IF state = "activated" THEN BeginDeinitialize
                              ELSE UNCHANGED <<state, act>>
    /\ UNCHANGED <<shellVars, implVars, connVars, hostVars, reported, cb, cbId>>

-----------------------------------------------------------------------------
Initialize ==
    \/ StartHost \/ RootSucceeds \/ RootFails \/ QueryInterface
    \/ ConfigureImplementation \/ RegisterNotification \/ Activated
    \/ Rollback

Next ==
    \/ Activate
    \/ Initialize
    \/ Deactivate
    \/ Deinitialize
    \/ \E id \in ConnectionIds : Crash(id) \/ ReportClosed(id) \/ RunJob(id)
    \/ ReportForeign
    \/ Callback

Spec == Init /\ [][Next]_vars

\* The activator, the communication thread and the worker pool keep working;
\* nobody has to activate or deactivate, and no host has to crash.  The shell's
\* lock is fair: an activator that waits for the callback, and a report that
\* those of other plugins pre-empt, get their turn.
Fairness ==
    /\ SF_vars(Initialize)
    /\ SF_vars(Deinitialize)
    /\ WF_vars(Callback)
    /\ \A id \in ConnectionIds : SF_vars(ReportClosed(id)) /\ WF_vars(RunJob(id))

FairSpec == Spec /\ Fairness

-----------------------------------------------------------------------------
\* Whenever the plugin is deactivated, by Deinitialize or by the rollback of a
\* failed Initialize, from whichever of its steps, everything it had acquired
\* has been given back and no host of its runs on; the four assertions at the
\* top of Initialize (RemoteControl.cpp:46-49) hold for the next activation.
DeactivatedIsClean ==
    (state = "deactivated" /\ act = "idle") =>
        /\ ~service /\ ~implementation /\ ~configure /\ connectionId = 0
        /\ ~connListening /\ ~registered /\ ~jsonrpc
        /\ cb = "idle" => shellRefs = 0
        /\ \A id \in ConnectionIds : host[id] # "running"

\* Deactivated does not touch the shell after Deinitialize let go of it, though
\* it tests the members and uses them without a lock: the activator stops
\* listening before it releases, and that waits for the callback.
CallbackHasService ==
    cb \in {"checked", "referenced", "submitted"} => service

\* The host that Deinitialize terminates itself is not taken for a failure: a
\* job is submitted for a crash, or, the one exception, out of a rollback.
OnlyRollbackIsMistaken ==
    [][\A id \in jobs' \ jobs :
          \/ host[id] = "crashed"
          \/ act \in RollingBack]_vars

\* What the framework still has to do about the end of host id.
Unsettled(id) ==
    \/ id \notin reported
    \/ cb \in {"entered", "matched", "checked", "referenced"} /\ cbId = id
    \/ id \in jobs

\* A crash of the host of an active plugin takes the plugin down, at whatever
\* step of Initialize or afterwards the host died, unless its job was run in the
\* short time between Root and the end of Initialize, in which a job is in vain.
CrashIsHandled ==
    (/\ state = "activated" /\ connectionId # 0
     /\ host[connectionId] = "crashed" /\ Unsettled(connectionId))
        ~> (state # "activated")

\* Initialize and Deinitialize return, waiting for a callback included.
ActivatorReturns == (act # "idle") ~> (act = "idle")

=============================================================================
