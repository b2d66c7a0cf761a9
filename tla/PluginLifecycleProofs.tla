----------------------- MODULE PluginLifecycleProofs -----------------------
(***************************************************************************)
(* PluginLifecycle for any number of host processes and in either mode:    *)
(* what Deactivated, which takes no lock, may rely on, what is left of an  *)
(* activation, and which ends of a host are taken for a failure.           *)
(***************************************************************************)
EXTENDS PluginLifecycle, TLAPS

\* Where the activator has stopped listening and not let go of the shell yet.
Stopped ==
    {"rb_service", "de_observer", "de_json", "de_configure", "de_release",
     "de_terminate", "de_service"}

\* A callback runs only while the plugin listens, the plugin listens only while
\* it has the shell, and the teardown stops listening first.
IInv ==
    /\ service \in BOOLEAN
    /\ connListening \in BOOLEAN
    /\ cb # "idle" => connListening = TRUE
    /\ connListening = TRUE => service = TRUE
    /\ act \in Stopped => connListening = FALSE

-----------------------------------------------------------------------------
\* Steps that leave alone what the invariant is about, or only move the
\* activator among the labels at which it listens.
LEMMA Harmless ==
    ASSUME IInv, UNCHANGED <<service, connListening>>,
           cb' # "idle" => connListening = TRUE,
           act' \in Stopped => act \in Stopped
    PROVE  IInv'
BY DEF IInv

\* IShell::Unregister returns when no callback runs.
LEMMA StopListeningIInv ==
    ASSUME IInv, UnregisterWaits = TRUE, NEW here, NEW next,
           StopListening(here, next)
    PROVE  IInv'
BY DEF IInv, StopListening, cbVars, Go, shellVars

\* The shell is let go of after that.
LEMMA ReleaseServiceIInv ==
    ASSUME IInv, NEW here \in Stopped, ReleaseService(here)
    PROVE  IInv'
<1>1. connListening = FALSE /\ connListening' = FALSE /\ cb = "idle" /\ cb' = "idle"
    BY DEF IInv, ReleaseService, cbVars, Go, shellVars
<1>2. service' = FALSE /\ act' = "idle"
    BY DEF ReleaseService, Go, shellVars
<1> QED
    BY <1>1, <1>2 DEF IInv, Stopped

LEMMA InitializeIInv ==
    ASSUME IInv, UnregisterWaits = TRUE, Initialize
    PROVE  IInv'
<1>1. CASE StartHost
    BY <1>1, Harmless
    DEF StartHost, cbVars, IInv, Stopped, Go, shellVars
<1>2. CASE RootSucceeds
    BY <1>2, Harmless
    DEF RootSucceeds, cbVars, IInv, Stopped, Go, shellVars
<1>3. CASE RootFails
    BY <1>3, Harmless
    DEF RootFails, cbVars, IInv, Stopped, Go, shellVars
<1>4. CASE QueryInterface
    BY <1>4, Harmless
    DEF QueryInterface, cbVars, IInv, Stopped, Go, shellVars
<1>5. CASE ConfigureImplementation
    BY <1>5, Harmless
    DEF ConfigureImplementation, cbVars, IInv, Stopped, CallConfigure, Go, shellVars
<1>6. CASE RegisterNotification
    BY <1>6, Harmless
    DEF RegisterNotification, cbVars, IInv, Stopped, Go, shellVars
<1>7. CASE Activated
    BY <1>7, Harmless
    DEF Activated, cbVars, IInv, Stopped, Go, shellVars
<1>8. CASE ReleaseConfigure("rb_configure", "rb_release")
    BY <1>8, Harmless
    DEF ReleaseConfigure, cbVars, IInv, Stopped, Go, shellVars
<1>9. CASE ReleaseImplementation("rb_release", "rb_terminate")
    BY <1>9, Harmless
    DEF ReleaseImplementation, cbVars, IInv, Stopped, Go, shellVars
<1>10. CASE Terminate("rb_terminate", "rb_id")
    BY <1>10, Harmless DEF Terminate, cbVars, IInv, Stopped, Go, shellVars
<1>11. CASE ForgetConnection
    BY <1>11, Harmless DEF ForgetConnection, cbVars, IInv, Stopped, Go, shellVars
<1>12. CASE StopListening("rb_unregister", "rb_service")
    BY <1>12, StopListeningIInv
<1>13. CASE ReleaseService("rb_service")
    BY <1>13, ReleaseServiceIInv DEF Stopped
<1> QED
    BY <1>1, <1>2, <1>3, <1>4, <1>5, <1>6, <1>7, <1>8, <1>9, <1>10, <1>11,
       <1>12, <1>13 DEF Initialize, Rollback

LEMMA DeinitializeIInv ==
    ASSUME IInv, UnregisterWaits = TRUE, Deinitialize
    PROVE  IInv'
<1>1. CASE StopListening("de_unregister", "de_observer")
    BY <1>1, StopListeningIInv
<1>2. CASE UnregisterNotification
    BY <1>2, Harmless
    DEF UnregisterNotification, cbVars, IInv, Stopped, Go, shellVars
<1>3. CASE UnregisterJson
    BY <1>3, Harmless
    DEF UnregisterJson, cbVars, IInv, Stopped, Go, shellVars
<1>4. CASE ReleaseConfigure("de_configure", "de_release")
    BY <1>4, Harmless
    DEF ReleaseConfigure, cbVars, IInv, Stopped, Go, shellVars
<1>5. CASE ReleaseImplementation("de_release", "de_terminate")
    BY <1>5, Harmless
    DEF ReleaseImplementation, cbVars, IInv, Stopped, Go, shellVars
<1>6. CASE Terminate("de_terminate", "de_service")
    BY <1>6, Harmless
    DEF Terminate, cbVars, IInv, Stopped, Go, shellVars
<1>7. CASE ReleaseService("de_service")
    BY <1>7, ReleaseServiceIInv DEF Stopped
<1> QED
    BY <1>1, <1>2, <1>3, <1>4, <1>5, <1>6, <1>7 DEF Deinitialize

\* A callback starts only when the plugin is registered with the shell.
LEMMA CallbackIInv ==
    ASSUME IInv,
           \/ \E id \in ConnectionIds : ReportClosed(id)
           \/ ReportForeign
           \/ Callback
    PROVE  IInv'
<1>1. ASSUME NEW id \in ConnectionIds, ReportClosed(id) PROVE IInv'
    BY <1>1, Harmless DEF ReportClosed, IInv, shellVars
<1>2. CASE ReportForeign
    BY <1>2, Harmless DEF ReportForeign, IInv, CallbackStep, shellVars
<1>3. CASE Callback
  <2>1. cb # "idle" /\ UNCHANGED <<act, service, connListening>>
      BY <1>3 DEF Callback, TestConnection, TestService, ReferenceService,
                  SubmitJob, AddJob, ReturnFromDeactivated, CallbackStep
  <2> QED
      BY <2>1, Harmless DEF IInv
<1> QED
    BY <1>1, <1>2, <1>3

-----------------------------------------------------------------------------
\* The invariant holds as long as IShell::Unregister waits for the callback.
LEMMA Induction == ASSUME UnregisterWaits = TRUE PROVE Spec => []IInv
<1>1. Init => IInv
    BY DEF Init, IInv, Stopped
<1>2. IInv /\ [Next]_vars => IInv'
  <2> SUFFICES ASSUME IInv, [Next]_vars PROVE IInv'
      OBVIOUS
  <2>1. CASE Activate
      BY <2>1 DEF Activate, cbVars, IInv, Stopped, ReferenceShell, Go, shellVars
  <2>2. CASE Initialize
      BY <2>2, InitializeIInv
  <2>3. CASE Deactivate
      BY <2>3, Harmless
      DEF Deactivate, BeginDeinitialize, cbVars, IInv, Stopped, shellVars
  <2>4. CASE Deinitialize
      BY <2>4, DeinitializeIInv
  <2>5. ASSUME NEW id \in ConnectionIds, Crash(id) PROVE IInv'
      BY <2>5, Harmless DEF Crash, cbVars, IInv, shellVars
  <2>6. ASSUME NEW id \in ConnectionIds, RunJob(id) PROVE IInv'
      BY <2>6, Harmless DEF RunJob, BeginDeinitialize, IInv, Stopped, shellVars
  <2>7. CASE \/ \E id \in ConnectionIds : ReportClosed(id)
             \/ ReportForeign
             \/ Callback
      BY <2>7, CallbackIInv
  <2>8. CASE UNCHANGED vars
      BY <2>8, Harmless DEF vars, cbVars, IInv, shellVars
  <2> QED
      BY <2>1, <2>2, <2>3, <2>4, <2>5, <2>6, <2>7, <2>8 DEF Next
<1> QED
    BY <1>1, <1>2, PTL DEF Spec

\* Deactivated uses _service without a lock, and it is there whenever it does:
\* whatever the number of crashes and activations, and at whatever step of
\* Initialize or Deinitialize the framework calls.
THEOREM CallbackSafe ==
    ASSUME UnregisterWaits = TRUE PROVE Spec => []CallbackHasService
<1>1. IInv => CallbackHasService
    BY DEF IInv, CallbackHasService
<1> QED
    BY <1>1, Induction, PTL

-----------------------------------------------------------------------------
\* What is left of an activation when: by the label of the activator, the members
\* that are null again or were not set yet.  Between activations nothing is left.
Over == state = "deactivated"

Labels ==
    /\ Over => act = "idle"
    /\ state = "activated" => act = "idle"
    /\ service <=> ~Over
    /\ state \in {"deactivated", "activation", "activated", "deactivation"}
    /\ act = "idle" => state \in {"deactivated", "activated"}
    /\ act \in {"root", "rooted", "query", "configure", "register", "json"}
                 \cup RollingBack
          => state = "activation"

Members ==
    /\ Over \/ act \in Stopped => ~connListening
    /\ Over \/ act \in {"root", "rooted", "rb_terminate", "rb_id", "rb_unregister",
                        "rb_service", "de_terminate", "de_service"}
          => ~implementation /\ ~registered
    /\ act \in {"query", "configure", "register"} => ~registered
    /\ Over \/ act \in {"root", "rooted", "query", "rb_release", "rb_terminate",
                        "rb_id", "rb_unregister", "rb_service", "de_release",
                        "de_terminate", "de_service"}
          => ~configure
    /\ jsonrpc => \/ state = "activated"
                  \/ act \in {"de_unregister", "de_observer", "de_json"}
    /\ Over \/ act \in {"root", "rooted", "rb_unregister", "rb_service"}
          => connectionId = 0

Counted ==
    shellRefs = (IF service THEN 1 ELSE 0)
                   + (IF cb \in {"referenced", "submitted"} THEN 1 ELSE 0)

\* At most the host started last runs.  The plugin is about to know it or does,
\* and from the release of the implementation on the activator has it in hand.
Hosts ==
    /\ started \in 0 .. MaxConnections
    /\ DOMAIN host = ConnectionIds
    /\ \A id \in ConnectionIds : id > started => host[id] = "none"
    /\ reported \subseteq 1 .. started
    /\ \A id \in reported : host[id] # "running"
    /\ \A id \in ConnectionIds : host[id] = "running" =>
          /\ id = started
          /\ mode = "Local"
          /\ act = "rooted" \/ connectionId = id
          /\ act \notin {"root", "rb_id", "rb_unregister", "rb_service", "de_service"}
          /\ act \in {"rb_terminate", "de_terminate"} => connection = id

CInv == Labels /\ Members /\ Counted /\ Hosts

LEMMA InitializeCInv == ASSUME CInv, Initialize PROVE CInv'
<1> USE MaxConnectionsAssumption, ModesAssumption
    DEF CInv, Over, Labels, Members, Counted, Hosts, Stopped, RollingBack, Go,
        ConnectionIds, shellVars, implVars, connVars, hostVars, cbVars,
        OutOfProcess
<1>1. CASE StartHost
    BY <1>1 DEF StartHost
<1>2. CASE RootSucceeds
    BY <1>2 DEF RootSucceeds
<1>3. CASE RootFails
    BY <1>3 DEF RootFails
<1>4. CASE QueryInterface
    BY <1>4 DEF QueryInterface
<1>5. CASE ConfigureImplementation
    BY <1>5 DEF ConfigureImplementation, CallConfigure
<1>6. CASE RegisterNotification
    BY <1>6 DEF RegisterNotification
<1>7. CASE Activated
    BY <1>7 DEF Activated
<1>8. CASE ReleaseConfigure("rb_configure", "rb_release")
    BY <1>8 DEF ReleaseConfigure
<1>9. CASE ReleaseImplementation("rb_release", "rb_terminate")
    BY <1>9 DEF ReleaseImplementation
<1>10. CASE Terminate("rb_terminate", "rb_id")
    BY <1>10 DEF Terminate
<1>11. CASE ForgetConnection
    BY <1>11 DEF ForgetConnection
<1>12. CASE StopListening("rb_unregister", "rb_service")
    BY <1>12 DEF StopListening
<1>13. CASE ReleaseService("rb_service")
    BY <1>13 DEF ReleaseService
<1> QED
    BY <1>1, <1>2, <1>3, <1>4, <1>5, <1>6, <1>7, <1>8, <1>9, <1>10, <1>11, <1>12,
       <1>13
    DEF Initialize, Rollback

LEMMA DeinitializeCInv == ASSUME CInv, Deinitialize PROVE CInv'
<1> USE MaxConnectionsAssumption
    DEF CInv, Over, Labels, Members, Counted, Hosts, Stopped, RollingBack, Go,
        ConnectionIds, shellVars, implVars, connVars, hostVars, cbVars,
        OutOfProcess
<1>1. CASE StopListening("de_unregister", "de_observer")
    BY <1>1 DEF StopListening
<1>2. CASE UnregisterNotification
    BY <1>2 DEF UnregisterNotification
<1>3. CASE UnregisterJson
    BY <1>3 DEF UnregisterJson
<1>4. CASE ReleaseConfigure("de_configure", "de_release")
    BY <1>4 DEF ReleaseConfigure
<1>5. CASE ReleaseImplementation("de_release", "de_terminate")
    BY <1>5 DEF ReleaseImplementation
<1>6. CASE Terminate("de_terminate", "de_service")
    BY <1>6 DEF Terminate
<1>7. CASE ReleaseService("de_service")
    BY <1>7 DEF ReleaseService
<1> QED
    BY <1>1, <1>2, <1>3, <1>4, <1>5, <1>6, <1>7 DEF Deinitialize

LEMMA CleanInduction == Spec => []CInv
<1>1. Init => CInv
    BY MaxConnectionsAssumption
    DEF Init, CInv, Over, Labels, Members, Counted, Hosts, Stopped, RollingBack,
        ConnectionIds
<1>2. CInv /\ [Next]_vars => CInv'
  <2> SUFFICES ASSUME CInv, [Next]_vars PROVE CInv'
      OBVIOUS
  <2> USE MaxConnectionsAssumption
      DEF CInv, Over, Labels, Members, Counted, Hosts, Stopped, RollingBack,
          ConnectionIds, shellVars, implVars, connVars, hostVars, cbVars
  <2>1. CASE Activate
      BY <2>1 DEF Activate, ReferenceShell, Go
  <2>2. CASE Initialize
      BY <2>2, InitializeCInv
  <2>3. CASE Deactivate
      BY <2>3 DEF Deactivate, BeginDeinitialize
  <2>4. CASE Deinitialize
      BY <2>4, DeinitializeCInv
  <2>5. ASSUME NEW id \in ConnectionIds, Crash(id) PROVE CInv'
      BY <2>5 DEF Crash
  <2>6. ASSUME NEW id \in ConnectionIds, ReportClosed(id) PROVE CInv'
      BY <2>6 DEF ReportClosed
  <2>7. ASSUME NEW id \in ConnectionIds, RunJob(id) PROVE CInv'
      BY <2>7 DEF RunJob, BeginDeinitialize
  <2>8. CASE ReportForeign
      BY <2>8 DEF ReportForeign, CallbackStep
  <2>9. CASE Callback
    <3>1. CASE TestConnection
        BY <3>1 DEF TestConnection, CallbackStep
    <3>2. CASE TestService
        BY <3>2 DEF TestService, CallbackStep
    <3>3. CASE ReferenceService
        BY <3>3 DEF ReferenceService, CallbackStep
    <3>4. CASE SubmitJob
        BY <3>4 DEF SubmitJob, AddJob, CallbackStep
    <3>5. CASE ReturnFromDeactivated
        BY <3>5 DEF ReturnFromDeactivated, CallbackStep
    <3> QED
        BY <2>9, <3>1, <3>2, <3>3, <3>4, <3>5 DEF Callback
  <2>10. CASE UNCHANGED vars
      BY <2>10 DEF vars
  <2> QED
      BY <2>1, <2>2, <2>3, <2>4, <2>5, <2>6, <2>7, <2>8, <2>9, <2>10 DEF Next
<1> QED
    BY <1>1, <1>2, PTL DEF Spec

\* However an activation ends, by Deinitialize or by the rollback of a failed
\* Initialize, and whenever its host crashes, nothing of it is left: the four
\* assertions at the top of Initialize hold for the next one.
THEOREM NothingIsLeft == Spec => []DeactivatedIsClean
<1>1. CInv => DeactivatedIsClean
    BY MaxConnectionsAssumption
    DEF CInv, Over, Labels, Members, Counted, Hosts, ConnectionIds,
        DeactivatedIsClean
<1> QED
    BY <1>1, CleanInduction, PTL

-----------------------------------------------------------------------------
\* The host that the activator terminates is the one the plugin knows, and from
\* then on it is known only until the activator forgets it.
Known ==
    /\ connectionId \in ConnectionIds \cup {0}
    /\ connection # 0 =>
          connection = connectionId /\ act \in {"rb_terminate", "de_terminate"}
    /\ act = "rooted" => started # 0 /\ host[started] # "terminated"
    /\ connectionId # 0 /\ host[connectionId] = "terminated"
          => act \in {"rb_id", "de_service"}

\* Deactivated is called for hosts that ended.  Past its first test a terminated one
\* is in a rollback that still listens.
Called ==
    /\ cb # "idle" => cbId \in ConnectionIds \cup {Foreign}
    /\ cb # "idle" /\ cbId \in ConnectionIds =>
          host[cbId] \in {"crashed", "terminated"}
    /\ cb \in {"matched", "checked", "referenced"} =>
          /\ cbId \in ConnectionIds
          /\ host[cbId] = "terminated" => act \in {"rb_id", "rb_unregister"}

MInv == Known /\ Called

\* The activator goes on: the hosts and the callback stay as they are.
LEMMA GoMInv ==
    ASSUME CInv, IInv, MInv, UNCHANGED <<connVars, hostVars, cbVars>>,
           act \notin {"rb_id", "de_service", "rb_unregister", "rb_terminate",
                       "de_terminate"},
           act' # "rooted"
    PROVE  MInv'
BY DEF MInv, Known, Called, connVars, hostVars, cbVars

LEMMA InitializeMInv ==
    ASSUME CInv, IInv, MInv, UnregisterWaits = TRUE, Initialize
    PROVE  MInv'
<1> USE MaxConnectionsAssumption, ModesAssumption
    DEF Go, ConnectionIds, shellVars, implVars, connVars, hostVars, cbVars,
        OutOfProcess
<1>1. CASE StartHost
    BY <1>1 DEF StartHost, MInv, Known, Called, CInv, Hosts, Members
<1>2. CASE RootSucceeds
    BY <1>2 DEF RootSucceeds, MInv, Known, Called, CInv, Hosts, Members
<1>3. CASE RootFails
    BY <1>3, GoMInv DEF RootFails
<1>4. CASE \/ QueryInterface \/ ConfigureImplementation
           \/ RegisterNotification \/ Activated
    BY <1>4, GoMInv
    DEF QueryInterface, ConfigureImplementation, CallConfigure,
        RegisterNotification, Activated
<1>5. CASE ReleaseConfigure("rb_configure", "rb_release")
    BY <1>5, GoMInv DEF ReleaseConfigure
<1>6. CASE ReleaseImplementation("rb_release", "rb_terminate")
    BY <1>6 DEF ReleaseImplementation, MInv, Known, Called
<1>7. CASE Terminate("rb_terminate", "rb_id")
    BY <1>7 DEF Terminate, MInv, Known, Called, CInv, Hosts
<1>8. CASE ForgetConnection
    BY <1>8 DEF ForgetConnection, MInv, Known, Called
<1>9. CASE StopListening("rb_unregister", "rb_service")
    BY <1>9 DEF StopListening, MInv, Known, Called
<1>10. CASE ReleaseService("rb_service")
    BY <1>10 DEF ReleaseService, MInv, Known, Called
<1> QED
    BY <1>1, <1>2, <1>3, <1>4, <1>5, <1>6, <1>7, <1>8, <1>9, <1>10
    DEF Initialize, Rollback

LEMMA DeinitializeMInv ==
    ASSUME CInv, IInv, MInv, UnregisterWaits = TRUE, Deinitialize
    PROVE  MInv'
<1> USE DEF Go, ConnectionIds, shellVars, implVars, connVars, hostVars, cbVars
<1>1. CASE StopListening("de_unregister", "de_observer")
    BY <1>1, GoMInv DEF StopListening
<1>2. CASE UnregisterNotification \/ UnregisterJson
    BY <1>2, GoMInv DEF UnregisterNotification, UnregisterJson
<1>3. CASE ReleaseConfigure("de_configure", "de_release")
    BY <1>3, GoMInv DEF ReleaseConfigure
<1>4. CASE ReleaseImplementation("de_release", "de_terminate")
    BY <1>4 DEF ReleaseImplementation, MInv, Known, Called
<1>5. CASE Terminate("de_terminate", "de_service")
    BY <1>5 DEF Terminate, MInv, Known, Called, CInv, Hosts, IInv, Stopped
<1>6. CASE ReleaseService("de_service")
    BY <1>6 DEF ReleaseService, MInv, Known, Called
<1> QED
    BY <1>1, <1>2, <1>3, <1>4, <1>5, <1>6 DEF Deinitialize

LEMMA CallbackMInv ==
    ASSUME IInv, MInv, Callback
    PROVE  MInv'
<1> USE MaxConnectionsAssumption DEF ConnectionIds, Foreign
<1>1. UNCHANGED <<act, connVars, hostVars>>
    BY DEF Callback, TestConnection, TestService, ReferenceService, SubmitJob,
           AddJob, ReturnFromDeactivated, CallbackStep
<1>2. Known'
    BY <1>1 DEF MInv, Known, connVars, hostVars
<1>3. CASE TestConnection
  <2>1. cb = "entered" => act \notin Stopped
      BY DEF IInv
  <2> QED
      BY <1>1, <1>2, <1>3, <2>1
      DEF TestConnection, MInv, Known, Called, connVars, hostVars, Stopped
<1>4. CASE TestService \/ ReferenceService \/ SubmitJob \/ ReturnFromDeactivated
    BY <1>1, <1>2, <1>4
    DEF TestService, ReferenceService, SubmitJob, AddJob, ReturnFromDeactivated,
        MInv, Called, connVars, hostVars
<1> QED
    BY <1>3, <1>4 DEF Callback

\* The host that the plugin terminates itself is not taken for a failure, unless in
\* a rollback, which terminates it before it stops listening.
THEOREM OnlyRollbackMistakes ==
    ASSUME UnregisterWaits = TRUE PROVE Spec => OnlyRollbackIsMistaken
<1>1. Init => MInv
    BY DEF Init, MInv, Known, Called
<1>2. MInv /\ IInv /\ CInv /\ [Next]_vars => MInv'
  <2> SUFFICES ASSUME MInv, IInv, CInv, [Next]_vars PROVE MInv'
      OBVIOUS
  <2> USE MaxConnectionsAssumption
      DEF ConnectionIds, shellVars, implVars, connVars, hostVars, cbVars
  <2>1. CASE Activate
      BY <2>1, GoMInv DEF Activate, ReferenceShell, Go
  <2>2. CASE Initialize
      BY <2>2, InitializeMInv
  <2>3. CASE Deactivate
      BY <2>3, GoMInv DEF Deactivate, BeginDeinitialize, CInv, Labels
  <2>4. CASE Deinitialize
      BY <2>4, DeinitializeMInv
  <2>5. ASSUME NEW id \in ConnectionIds, Crash(id) PROVE MInv'
      BY <2>5 DEF Crash, MInv, Known, Called, CInv, Hosts
  <2>6. ASSUME NEW id \in ConnectionIds, ReportClosed(id) PROVE MInv'
      BY <2>6 DEF ReportClosed, MInv, Known, Called
  <2>7. ASSUME NEW id \in ConnectionIds, RunJob(id) PROVE MInv'
      BY <2>7 DEF RunJob, BeginDeinitialize, MInv, Known, Called, CInv, Labels
  <2>8. CASE ReportForeign
      BY <2>8 DEF ReportForeign, CallbackStep, Foreign, MInv, Known, Called
  <2>9. CASE Callback
      BY <2>9, CallbackMInv
  <2>10. CASE UNCHANGED vars
      BY <2>10 DEF vars, MInv, Known, Called
  <2> QED
      BY <2>1, <2>2, <2>3, <2>4, <2>5, <2>6, <2>7, <2>8, <2>9, <2>10 DEF Next
<1>3. MInv /\ [Next]_vars =>
         [\A id \in jobs' \ jobs :
             \/ host[id] = "crashed"
             \/ act \in RollingBack]_vars
  <2> SUFFICES ASSUME MInv, [Next]_vars, NEW id \in jobs' \ jobs
               PROVE  host[id] = "crashed" \/ act \in RollingBack
      OBVIOUS
  <2>1. SubmitJob
    <3> USE DEF cbVars
    <3>1. CASE Activate \/ Deactivate \/ ReportForeign \/ UNCHANGED vars
        BY <3>1 DEF Activate, ReferenceShell, Deactivate, ReportForeign, vars
    <3>2. ~Initialize
        BY DEF Initialize, StartHost, RootSucceeds, RootFails, QueryInterface,
               ConfigureImplementation, CallConfigure, RegisterNotification,
               Activated, Rollback, ReleaseConfigure, ReleaseImplementation,
               Terminate, ForgetConnection, StopListening, ReleaseService
    <3>3. ~Deinitialize
        BY DEF Deinitialize, StopListening, UnregisterNotification, UnregisterJson,
               ReleaseConfigure, ReleaseImplementation, Terminate, ReleaseService
    <3>4. ASSUME NEW i \in ConnectionIds, Crash(i) \/ ReportClosed(i) \/ RunJob(i)
          PROVE  FALSE
        BY <3>4 DEF Crash, ReportClosed, RunJob
    <3>5. CASE Callback
        BY <3>5 DEF Callback, TestConnection, TestService, ReferenceService,
                    ReturnFromDeactivated
    <3> QED
        BY <3>1, <3>2, <3>3, <3>4, <3>5 DEF Next
  <2>2. id = cbId /\ cb = "referenced"
      BY <2>1 DEF SubmitJob, AddJob
  <2> QED
      BY <2>2 DEF MInv, Called, RollingBack
<1> QED
    BY <1>1, <1>2, <1>3, Induction, CleanInduction, PTL
    DEF Spec, OnlyRollbackIsMistaken

=============================================================================
