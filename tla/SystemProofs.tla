---------------------------- MODULE SystemProofs ----------------------------
(***************************************************************************)
(* System for any number of host processes, of dispatch threads and of     *)
(* events, in either mode.  Its steps are steps of its two parts, so what  *)
(* is proved of each of these holds of the whole; what the parts do not    *)
(* know of each other, where the object is when the plugin is at which     *)
(* label, is an invariant of its own.                                      *)
(***************************************************************************)
EXTENDS System, SequenceTheorems, FiniteSetTheorems, TLAPS

PP == INSTANCE PluginLifecycleProofs

LP == INSTANCE ObserverListProofs WITH Observers <- {Own, Client}

-----------------------------------------------------------------------------
\* The parts.

\* Seen from the Thunder process, the system is the plugin on its own: whatever
\* object, clients and bus do, they do nothing to the plugin that its
\* specification does not provide for.
THEOREM SystemIsPlugin == Spec => P!Spec
<1>1. Init => P!Init
    BY DEF Init
<1>2. [Next]_vars => [P!Next]_(P!vars)
  <2> SUFFICES ASSUME Next PROVE [P!Next]_(P!vars)
      BY DEF vars, pluginVars, P!vars, P!shellVars, P!implVars, P!connVars,
             P!hostVars, P!cbVars
  <2>1. CASE Initialize
      BY <2>1
      DEF Initialize, RootSucceeds, ConfigureImplementation, RegisterNotification,
          ReleaseImplementation, Terminate, P!Next, P!Initialize, P!Rollback
  <2>2. CASE Deinitialize
      BY <2>2
      DEF Deinitialize, UnregisterNotification, ReleaseImplementation, Terminate,
          P!Next, P!Deinitialize
  <2>3. CASE \E id \in P!ConnectionIds : Crash(id) \/ ReportClosed(id) \/ RunJob(id)
      BY <2>3 DEF Crash, ReportClosed, RunJob, P!Next
  <2>4. CASE Callback \/ P!Activate \/ P!Deactivate \/ P!ReportForeign
      BY <2>4 DEF Callback, P!Next
  <2>5. CASE Hold \/ LetGo \/ ClientCalls \/ \E t \in Threads : Arrive(t) \/ Handle(t)
      BY <2>5
      DEF Hold, LetGo, ClientCalls, Arrive, Handle, pluginVars, P!vars, P!shellVars,
          P!implVars, P!connVars, P!hostVars, P!cbVars
  <2> QED
      BY <2>1, <2>2, <2>3, <2>4, <2>5 DEF Next
<1> QED
    BY <1>1, <1>2, PTL DEF Spec, P!Spec

\* Seen from the bus and from the observers, it is the list with its threads: the
\* plugin, its crashes and its rollbacks use the list as its clients do.
THEOREM SystemIsObserverList == Spec => L!Spec
<1>1. Init => L!Init
    BY DEF Init
<1>2. [Next]_vars => [L!Next]_(L!vars)
  <2> SUFFICES ASSUME Next PROVE [L!Next]_(L!vars)
      BY DEF vars, objectVars, observerVars, L!vars, L!listVars, L!threadVars
  <2> USE DEF objectVars, observerVars, L!vars, L!listVars, L!threadVars
  <2>1. HostDies \/ Destruct => L!Next
      BY DEF HostDies, Destruct, ReleaseAll, L!Next
  <2>2. CASE Initialize
      BY <2>1, <2>2
      DEF Initialize, RootSucceeds, ConfigureImplementation, RegisterNotification,
          ReleaseImplementation, Terminate, L!Next
  <2>3. CASE Deinitialize
      BY <2>1, <2>3
      DEF Deinitialize, UnregisterNotification, ReleaseImplementation, Terminate,
          L!Next
  <2>4. CASE \E id \in P!ConnectionIds : Crash(id) \/ ReportClosed(id) \/ RunJob(id)
      BY <2>1, <2>4 DEF Crash, ReportClosed, RunJob
  <2>5. CASE \/ Callback
             \/ (P!Activate \/ P!Deactivate \/ P!ReportForeign) /\ UNCHANGED objectVars
      BY <2>5 DEF Callback
  <2>6. CASE Hold \/ LetGo \/ ClientCalls
      BY <2>1, <2>6 DEF Hold, LetGo, ClientCalls, L!Next
  <2>7. CASE \E t \in Threads : Arrive(t) \/ Handle(t)
      BY <2>7 DEF Arrive, Handle, L!Next
  <2> QED
      BY <2>2, <2>3, <2>4, <2>5, <2>6, <2>7 DEF Next
<1> QED
    BY <1>1, <1>2, PTL DEF Spec, L!Spec

\* The proofs of the parts are about instances of their modules of their own, whose
\* definitions are the same.
LEMMA SamePlugin == P!Spec => PP!Spec
BY DEF P!ConnectionIds, PP!ConnectionIds, P!Foreign, PP!Foreign, P!shellVars,
       PP!shellVars, P!implVars, PP!implVars, P!connVars, PP!connVars,
       P!hostVars, PP!hostVars, P!cbVars, PP!cbVars, P!vars, PP!vars, P!Init,
       PP!Init, P!OutOfProcess, PP!OutOfProcess, P!HostAnswers, PP!HostAnswers,
       P!Go, PP!Go, P!ReferenceShell, PP!ReferenceShell, P!Activate,
       PP!Activate, P!StartHost, PP!StartHost, P!RootSucceeds, PP!RootSucceeds,
       P!RootFails, PP!RootFails, P!QueryInterface, PP!QueryInterface,
       P!CallConfigure, PP!CallConfigure, P!ConfigureImplementation,
       PP!ConfigureImplementation, P!RegisterNotification,
       PP!RegisterNotification, P!Activated, PP!Activated, P!ReleaseConfigure,
       PP!ReleaseConfigure, P!ReleaseImplementation, PP!ReleaseImplementation,
       P!Terminate, PP!Terminate, P!StopListening, PP!StopListening,
       P!ReleaseService, PP!ReleaseService, P!ForgetConnection,
       PP!ForgetConnection, P!Rollback, PP!Rollback, P!BeginDeinitialize,
       PP!BeginDeinitialize, P!Deactivate, PP!Deactivate,
       P!UnregisterNotification, PP!UnregisterNotification, P!UnregisterJson,
       PP!UnregisterJson, P!Deinitialize, PP!Deinitialize, P!Crash, PP!Crash,
       P!ReportClosed, PP!ReportClosed, P!CallbackStep, PP!CallbackStep,
       P!ReportForeign, PP!ReportForeign, P!TestConnection, PP!TestConnection,
       P!TestService, PP!TestService, P!ReferenceService, PP!ReferenceService,
       P!AddJob, PP!AddJob, P!SubmitJob, PP!SubmitJob, P!ReturnFromDeactivated,
       PP!ReturnFromDeactivated, P!Callback, PP!Callback, P!RunJob, PP!RunJob,
       P!Initialize, PP!Initialize, P!Next, PP!Next, P!Spec, PP!Spec

LEMMA SameList == L!Spec => LP!Spec
BY DEF L!Callback, LP!Callback, L!listVars, LP!listVars, L!threadVars,
       LP!threadVars, L!vars, LP!vars, L!Idle, LP!Idle, L!Init, LP!Init,
       L!Listed, LP!Listed, L!One, LP!One, L!Add, LP!Add, L!Register,
       LP!Register, L!Erase, LP!Erase, L!Unregister, LP!Unregister,
       L!ReleaseOwn, LP!ReleaseOwn, L!Destroy, LP!Destroy, L!Construct,
       LP!Construct, L!Crash, LP!Crash, L!Handled, LP!Handled, L!Raise,
       LP!Raise, L!Arrive, LP!Arrive, L!Drop, LP!Drop, L!Copy, LP!Copy,
       L!TakeSnapshot, LP!TakeSnapshot, L!Notify, LP!Notify, L!BeginRelease,
       LP!BeginRelease, L!EndNotify, LP!EndNotify, L!ReleaseOne, LP!ReleaseOne,
       L!Leave, LP!Leave, L!Return, LP!Return, L!Handle, LP!Handle, L!Next,
       LP!Next, L!Spec, LP!Spec, L!Contains, LP!Contains, L!RemoveAt,
       LP!RemoveAt

LEMMA PluginInvariant == Spec => []PP!CInv
BY SystemIsPlugin, SamePlugin, PP!CleanInduction, PluginAssumption, PTL

LEMMA ListInvariant == Spec => []LP!IInv
BY SystemIsObserverList, SameList, LP!Induction, ObserverListAssumption, PTL
   DEF IsFiniteSet, LP!IsFiniteSet

-----------------------------------------------------------------------------
\* Where the object is when the plugin is at which label.

\* What an implementation that answers has done for the plugin at each label.
Answering ==
    P!HostAnswers =>
        /\ implementation => alive
        /\ act \in {"register", "json"} \/ state = "activated" => configured
        /\ act = "json" \/ state = "activated" => L!Listed(Own)

\* The object is in the host started last, which runs, or in the plugin's own
\* process, where the plugin or a client holds it.
Located ==
    /\ connectionId \in P!ConnectionIds \cup {0}
    /\ act = "rooted" => started # 0
    /\ alive => IF mode = "Local"
                THEN act # "rooted" /\ started # 0 /\ host[started] = "running"
                ELSE implementation \/ held
    /\ act \in {"query", "configure", "register", "json"} \/ state = "activated"
          => implementation

\* Nothing happens in an object that is not there.
Vacant == ~alive => Quiet /\ notifications = <<>> /\ ~configured /\ ~held

\* In its own process the plugin always gets to take its observer off the list.
Unlisted ==
    mode # "Local" /\ L!Listed(Own)
        => state = "activated" \/ act \in {"json", "de_unregister", "de_observer"}

SInv ==
    /\ configured \in BOOLEAN /\ held \in BOOLEAN
    /\ owner[Own] = TRUE
    /\ Vacant /\ Located /\ Answering /\ Unlisted

\* What the invariants of the parts say of each other's neighbours.
LEMMA PluginFacts ==
    ASSUME PP!CInv
    PROVE  /\ state \in {"deactivated", "activation", "activated", "deactivation"}
           /\ act = "idle" <=> state \in {"deactivated", "activated"}
           /\ service <=> state # "deactivated"
           /\ act \in {"root", "rooted", "query", "configure", "register", "json"}
                        \cup P!RollingBack
                 => state = "activation"
           /\ state = "deactivated"
                 \/ act \in {"root", "rooted", "rb_terminate", "rb_id",
                             "rb_unregister", "rb_service", "de_terminate",
                             "de_service"}
                 => ~implementation
           /\ started \in 0 .. MaxConnections
           /\ \A id \in P!ConnectionIds : host[id] = "running" =>
                 /\ id = started
                 /\ mode = "Local"
                 /\ act = "rooted" \/ connectionId = id
                 /\ state # "deactivated"
                 /\ act \notin {"root", "rb_id", "rb_unregister", "rb_service",
                                "de_service"}
                 /\ act \in {"rb_terminate", "de_terminate"} => connection = id
           /\ DOMAIN host = P!ConnectionIds
BY DEF PP!CInv, PP!Labels, PP!Members, PP!Hosts, PP!Over, PP!Stopped,
       PP!RollingBack, P!RollingBack, PP!ConnectionIds, P!ConnectionIds

LEMMA ListFacts ==
    ASSUME LP!IInv
    PROVE  /\ notifications \in Seq({Own, Client})
           /\ alive \in BOOLEAN
           /\ \E S : pc \in [Threads -> S]
BY DEF LP!IInv, LP!Shape

\* The steps of the plugin that do not concern the object.
LEMMA PluginAloneSInv ==
    ASSUME PP!CInv, SInv, UNCHANGED objectVars,
           \/ P!Activate \/ P!Deactivate \/ P!ReportForeign \/ P!Callback
           \/ P!StartHost \/ P!RootFails \/ P!QueryInterface \/ P!Activated
           \/ P!ReleaseConfigure("rb_configure", "rb_release")
           \/ P!ReleaseConfigure("de_configure", "de_release")
           \/ P!ForgetConnection
           \/ P!StopListening("rb_unregister", "rb_service")
           \/ P!StopListening("de_unregister", "de_observer")
           \/ P!ReleaseService("rb_service") \/ P!ReleaseService("de_service")
           \/ P!UnregisterJson
           \/ \E id \in P!ConnectionIds : P!ReportClosed(id) \/ P!RunJob(id)
    PROVE  SInv'
<1> USE PluginFacts, PluginAssumption
    DEF SInv, Vacant, Located, Answering, Unlisted, Quiet, objectVars, observerVars,
        L!Listed, P!shellVars, P!implVars, P!connVars, P!hostVars, P!cbVars,
        P!Go, P!HostAnswers, P!OutOfProcess, P!RollingBack, P!ConnectionIds
<1>1. CASE P!Activate \/ P!Deactivate \/ P!ReportForeign \/ P!Callback
    BY <1>1
    DEF P!Activate, P!ReferenceShell, P!Deactivate, P!BeginDeinitialize,
        P!ReportForeign, P!Callback, P!TestConnection, P!TestService,
        P!ReferenceService, P!SubmitJob, P!AddJob, P!ReturnFromDeactivated,
        P!CallbackStep
<1>2. CASE P!StartHost
    BY <1>2 DEF P!StartHost
<1>3. CASE P!RootFails \/ P!QueryInterface \/ P!Activated
    BY <1>3 DEF P!RootFails, P!QueryInterface, P!Activated
<1>4. CASE \/ P!ReleaseConfigure("rb_configure", "rb_release")
           \/ P!ReleaseConfigure("de_configure", "de_release")
           \/ P!ForgetConnection \/ P!UnregisterJson
    BY <1>4 DEF P!ReleaseConfigure, P!ForgetConnection, P!UnregisterJson
<1>5. CASE \/ P!StopListening("rb_unregister", "rb_service")
           \/ P!StopListening("de_unregister", "de_observer")
           \/ P!ReleaseService("rb_service") \/ P!ReleaseService("de_service")
    BY <1>5 DEF P!StopListening, P!ReleaseService
<1>6. ASSUME NEW id \in P!ConnectionIds, P!ReportClosed(id) \/ P!RunJob(id)
      PROVE  SInv'
    BY <1>6 DEF P!ReportClosed, P!RunJob, P!BeginDeinitialize
<1> QED
    BY <1>1, <1>2, <1>3, <1>4, <1>5, <1>6

LEMMA NobodyListed == ~L!Contains(<<>>, Own)
BY DEF L!Contains

\* The process of the object ends, or the plugin's last reference goes.
LEMMA EndsSInv ==
    ASSUME PP!CInv, LP!IInv, SInv,
           \/ Terminate("rb_terminate", "rb_id")
           \/ Terminate("de_terminate", "de_service")
           \/ ReleaseImplementation("rb_release", "rb_terminate")
           \/ ReleaseImplementation("de_release", "de_terminate")
           \/ LetGo
           \/ \E id \in P!ConnectionIds : Crash(id)
    PROVE  SInv'
<1> USE NobodyListed, PluginFacts, ListFacts, PluginAssumption
    DEF SInv, Vacant, Located, Answering, Unlisted, Quiet, objectVars, observerVars,
        pluginVars, L!listVars, L!threadVars, L!Idle, L!Listed, P!shellVars,
        P!implVars, P!connVars, P!hostVars, P!cbVars, P!Go, P!HostAnswers,
        P!OutOfProcess, P!RollingBack, P!ConnectionIds
<1>1. ASSUME NEW here \in {"rb_terminate", "de_terminate"},
             NEW next \in {"rb_id", "de_service"}, Terminate(here, next)
      PROVE  SInv'
  <2>1. /\ act = here /\ act' = next /\ implementation = FALSE
        /\ UNCHANGED <<state, implementation, connectionId, mode, started>>
      BY <1>1 DEF Terminate, P!Terminate
  <2>2. CASE host' # host
      BY <1>1, <2>1, <2>2 DEF Terminate, HostDies, L!Crash
  <2>3. CASE host' = host
      BY <1>1, <2>1, <2>3 DEF Terminate
  <2> QED
      BY <2>2, <2>3
<1>2. ASSUME NEW here \in {"rb_release", "de_release"},
             NEW next \in {"rb_terminate", "de_terminate"},
             ReleaseImplementation(here, next)
      PROVE  SInv'
  <2>1. /\ act = here /\ act' = next /\ implementation' = FALSE
        /\ UNCHANGED <<state, connectionId, mode, started, host>>
      BY <1>2 DEF ReleaseImplementation, P!ReleaseImplementation
  <2>2. CASE alive /\ ~held
      BY <1>2, <2>1, <2>2 DEF ReleaseImplementation, Destruct, ReleaseAll, L!Destroy
  <2>3. CASE ~(alive /\ ~held)
      BY <1>2, <2>1, <2>3 DEF ReleaseImplementation
  <2> QED
      BY <2>2, <2>3
<1>3. CASE LetGo
    BY <1>3 DEF LetGo, Destruct, ReleaseAll, L!Destroy
<1>4. ASSUME NEW id \in P!ConnectionIds, Crash(id) PROVE SInv'
    BY <1>4 DEF Crash, P!Crash, HostDies, L!Crash
<1> QED
    BY <1>1, <1>2, <1>3, <1>4

LEMMA OwnIsListed ==
    ASSUME LP!IInv, L!Register(Own)
    PROVE  L!Listed(Own)'
<1>1. notifications \in Seq({Own, Client}) /\ notifications' = Append(notifications, Own)
    BY ListFacts DEF L!Register, L!Add
<1>2. /\ Len(notifications') = Len(notifications) + 1
      /\ notifications'[Len(notifications) + 1] = Own
      /\ Len(notifications) \in Nat
    BY <1>1, AppendProperties, LenProperties
<1> QED
    BY <1>2 DEF L!Listed, L!Contains

LEMMA OwnStays ==
    ASSUME LP!IInv, L!Register(Client) \/ L!Unregister(Client)
    PROVE  L!Listed(Own)' <=> L!Listed(Own)
<1>1. LP!Register(Client) \/ LP!Unregister(Client)
    BY DEF L!Contains, LP!Contains, L!Listed, LP!Listed, L!Register, LP!Register,
           L!Add, LP!Add, L!Unregister, LP!Unregister, L!Erase, LP!Erase,
           L!RemoveAt, LP!RemoveAt, L!threadVars, LP!threadVars
<1>2. LP!Listed(Own)' <=> LP!Listed(Own)
    BY <1>1, LP!OthersStay, ObserversAssumption, ObserverListAssumption
    DEF IsFiniteSet, LP!IsFiniteSet
<1> QED
    BY <1>2 DEF L!Listed, LP!Listed, L!Contains, LP!Contains

LEMMA OwnIsOff ==
    ASSUME LP!IInv, L!Unregister(Own)
    PROVE  ~L!Listed(Own)'
<1>1. LP!Unregister(Own)
    BY DEF L!Contains, LP!Contains, L!Unregister, LP!Unregister, L!Erase, LP!Erase,
           L!RemoveAt, LP!RemoveAt, L!threadVars, LP!threadVars
<1>2. ~LP!Listed(Own)'
    BY <1>1, LP!UnregisteredIsOff, ObserverListAssumption
    DEF IsFiniteSet, LP!IsFiniteSet
<1> QED
    BY <1>2 DEF L!Listed, LP!Listed, L!Contains, LP!Contains

\* Where the answer is lost, what Configure did depends on the object being there.
LEMMA ConfigureIsKnown ==
    ASSUME LP!IInv, ConfigureImplementation
    PROVE  /\ act = "configure"
           /\ UNCHANGED <<state, implementation, connectionId, mode, started, host,
                          observerVars, held>>
           /\ \/ /\ act' = "register" /\ P!HostAnswers
                 /\ configured' = TRUE \/ configured' = alive
              \/ /\ act' = "rb_configure"
                 /\ \/ configured' = FALSE
                    \/ configured' = TRUE /\ alive = TRUE
<1>1. alive = TRUE \/ alive = FALSE
    BY ListFacts
<1>2. CASE act' = "register"
    BY <1>2
    DEF ConfigureImplementation, P!ConfigureImplementation, P!CallConfigure, P!Go,
        P!shellVars, P!implVars, P!connVars, P!hostVars, P!cbVars
<1>3. CASE act' = "rb_configure"
  <2>1. configured' = FALSE \/ configured' = alive
      BY <1>3 DEF ConfigureImplementation
  <2> QED
      BY <1>1, <1>3, <2>1
      DEF ConfigureImplementation, P!ConfigureImplementation, P!CallConfigure, P!Go,
          P!shellVars, P!implVars, P!connVars, P!hostVars, P!cbVars
<1> QED
    BY <1>2, <1>3
    DEF ConfigureImplementation, P!ConfigureImplementation, P!CallConfigure, P!Go

\* The calls of Initialize and Deinitialize, and those of a client.
LEMMA CallsSInv ==
    ASSUME PP!CInv, LP!IInv, SInv,
           \/ RootSucceeds \/ ConfigureImplementation \/ RegisterNotification
           \/ UnregisterNotification \/ Hold \/ ClientCalls
    PROVE  SInv'
<1> USE PluginFacts, ListFacts, PluginAssumption
    DEF SInv, Vacant, Located, Answering, Unlisted, Quiet, objectVars, observerVars,
        pluginVars, L!listVars, L!threadVars, L!Listed, P!shellVars,
        P!implVars, P!connVars, P!hostVars, P!cbVars, P!Go, P!HostAnswers,
        P!OutOfProcess, P!RollingBack, P!ConnectionIds
<1>1. CASE RootSucceeds
    BY <1>1 DEF RootSucceeds, P!RootSucceeds, L!Construct
<1>2. CASE ConfigureImplementation
  <2>1. /\ act = "configure"
        /\ UNCHANGED <<state, implementation, connectionId, mode, started, host,
                       observerVars, held>>
      BY <1>2, ConfigureIsKnown
  <2>2. CASE act' = "register"
    <3>1. P!HostAnswers /\ alive = TRUE
        BY <1>2, <2>1, <2>2, ConfigureIsKnown
    <3>2. configured' = TRUE
        BY <1>2, <2>2, <3>1, ConfigureIsKnown
    <3> QED
        BY <2>1, <2>2, <3>1, <3>2
  <2>3. CASE act' = "rb_configure" /\ configured' = FALSE
      BY <2>1, <2>3
  <2>4. CASE act' = "rb_configure" /\ configured' = TRUE /\ alive = TRUE
      BY <2>1, <2>4
  <2> QED
      BY <1>2, <2>2, <2>3, <2>4, ConfigureIsKnown
<1>3. CASE RegisterNotification
  <2>1. CASE L!Register(Own)
    <3>1. L!Listed(Own)'
        BY <2>1, OwnIsListed
    <3> QED
        BY <1>3, <2>1, <3>1
        DEF RegisterNotification, P!RegisterNotification, L!Register, L!Add
  <2>2. CASE registered' = FALSE /\ UNCHANGED observerVars
      BY <1>3, <2>2 DEF RegisterNotification, P!RegisterNotification
  <2> QED
      BY <1>3, <2>1, <2>2 DEF RegisterNotification, P!RegisterNotification
<1>4. CASE UnregisterNotification
  <2>1. CASE L!Unregister(Own)
    <3>1. ~L!Listed(Own)'
        BY <2>1, OwnIsOff
    <3> QED
        BY <1>4, <2>1, <3>1
        DEF UnregisterNotification, P!UnregisterNotification, L!Unregister, L!Erase
  <2>2. CASE ~(P!HostAnswers /\ L!Listed(Own)) /\ UNCHANGED observerVars
      BY <1>4, <2>2 DEF UnregisterNotification, P!UnregisterNotification
  <2> QED
      BY <1>4, <2>1, <2>2 DEF UnregisterNotification
<1>5. CASE Hold
    BY <1>5 DEF Hold
<1>6. CASE ClientCalls
  <2>1. L!Listed(Own)' <=> L!Listed(Own)
      BY <1>6, OwnStays DEF ClientCalls
  <2>2. alive /\ UNCHANGED <<alive, owner, pc>>
      BY <1>6 DEF ClientCalls, L!Register, L!Add, L!Unregister, L!Erase
  <2> QED
      BY <1>6, <2>1, <2>2 DEF ClientCalls
<1> QED
    BY <1>1, <1>2, <1>3, <1>4, <1>5, <1>6

\* The bus.
LEMMA BusSInv ==
    ASSUME LP!IInv, SInv, NEW t \in Threads, Arrive(t) \/ Handle(t)
    PROVE  SInv'
<1>1. UNCHANGED <<pluginVars, notifications, owner, alive, configured, held>>
    BY DEF Arrive, L!Arrive, L!Raise, Handle, L!Handle, L!TakeSnapshot, L!Copy,
           L!Notify, L!EndNotify, L!BeginRelease, L!ReleaseOne, L!Return, L!Leave,
           L!listVars
<1>2. alive
    BY ListFacts
    DEF Arrive, L!Arrive, L!Raise, Handle, L!Handle, L!TakeSnapshot, L!Copy,
        L!Notify, L!EndNotify, L!BeginRelease, L!ReleaseOne, L!Return, L!Leave,
        SInv, Vacant, Quiet
<1> QED
    BY <1>1, <1>2
    DEF SInv, Vacant, Located, Answering, Unlisted, pluginVars, L!Listed, P!HostAnswers,
        P!OutOfProcess

LEMMA SystemInduction == Spec => []SInv
<1>1. Init => SInv
    BY PluginAssumption, NobodyListed
    DEF Init, SInv, Vacant, Located, Answering, Unlisted, Quiet, P!Init, L!Init, L!Idle,
        L!Listed, P!HostAnswers, P!OutOfProcess, P!ConnectionIds
<1>2. PP!CInv /\ LP!IInv /\ SInv /\ [Next]_vars => SInv'
  <2> SUFFICES ASSUME PP!CInv, LP!IInv, SInv, [Next]_vars PROVE SInv'
      OBVIOUS
  <2>1. CASE (P!Activate \/ P!Deactivate \/ P!ReportForeign) /\ UNCHANGED objectVars
      BY <2>1, PluginAloneSInv
  <2>2. CASE Initialize
      BY <2>2, PluginAloneSInv, CallsSInv, EndsSInv DEF Initialize
  <2>3. CASE Deinitialize
      BY <2>3, PluginAloneSInv, CallsSInv, EndsSInv DEF Deinitialize
  <2>4. ASSUME NEW id \in P!ConnectionIds, Crash(id) \/ ReportClosed(id) \/ RunJob(id)
        PROVE  SInv'
      BY <2>4, PluginAloneSInv, EndsSInv DEF ReportClosed, RunJob
  <2>5. CASE Callback
      BY <2>5, PluginAloneSInv DEF Callback
  <2>6. CASE Hold \/ LetGo \/ ClientCalls
      BY <2>6, CallsSInv, EndsSInv
  <2>7. ASSUME NEW t \in Threads, Arrive(t) \/ Handle(t) PROVE SInv'
      BY <2>7, BusSInv
  <2>8. CASE UNCHANGED vars
      BY <2>8
      DEF vars, pluginVars, objectVars, observerVars, SInv, Vacant, Located,
          Answering, Unlisted, Quiet, L!Listed, P!HostAnswers, P!OutOfProcess
  <2> QED
      BY <2>1, <2>2, <2>3, <2>4, <2>5, <2>6, <2>7, <2>8 DEF Next
<1> QED
    BY <1>1, <1>2, PluginInvariant, ListInvariant, PTL DEF Spec

-----------------------------------------------------------------------------
\* What the whole promises.

\* Where there is an object, there is a plugin in service, or a client that holds the
\* object in the Thunder process.
LEMMA ObjectHasService ==
    ASSUME PP!CInv, SInv, alive
    PROVE  (service /\ state # "deactivated") \/ (held /\ ~P!OutOfProcess)
<1>1. CASE mode = "Local"
  <2>1. started \in P!ConnectionIds /\ host[started] = "running"
      BY <1>1, PluginFacts, PluginAssumption DEF SInv, Located, P!ConnectionIds
  <2> QED
      BY <2>1, PluginFacts
<1>2. CASE mode # "Local"
    BY <1>2, PluginFacts DEF SInv, Located, P!OutOfProcess
<1> QED
    BY <1>1, <1>2

\* A deactivated plugin is on no list, and leaves no object behind, no thread in one,
\* and no reference to its observer but its own, whatever failed or crashed and,
\* out of process, whatever a client holds: _notification may be destroyed with the
\* plugin.  In the Thunder process an object that a client holds is what is left.
THEOREM NothingSurvives == Spec => []NothingOutlives
<1>1. PP!CInv /\ LP!IInv /\ SInv => NothingOutlives
  <2> SUFFICES ASSUME PP!CInv, LP!IInv, SInv, state = "deactivated", act = "idle"
               PROVE  /\ ~L!Listed(Own)
                      /\ alive \/ configured \/ held => alive /\ held /\ ~P!OutOfProcess
                      /\ ~alive => Quiet /\ refs[Own] = 1
      BY DEF NothingOutlives
  <2>1. alive => held /\ ~P!OutOfProcess
      BY ObjectHasService
  <2>2. ~alive => Quiet /\ notifications = <<>> /\ ~configured /\ ~held
      BY DEF SInv, Vacant
  <2>3. ~L!Listed(Own)
    <3>1. CASE alive
        BY <2>1, <3>1 DEF SInv, Unlisted, P!OutOfProcess
    <3>2. CASE ~alive
        BY <2>2, <3>2 DEF L!Listed, L!Contains
    <3> QED
        BY <3>1, <3>2
  <2>4. ~alive => refs[Own] = 1
    <3>1. ~LP!Listed(Own)
        BY <2>3 DEF L!Listed, L!Contains, LP!Listed, LP!Contains
    <3>2. ~alive => refs[Own] = IF owner[Own] THEN 1 ELSE 0
        BY <2>2, <3>1, LP!Unused, ObserverListAssumption
        DEF Quiet, IsFiniteSet, LP!IsFiniteSet
    <3> QED
        BY <3>2 DEF SInv
  <2> QED
      BY <2>1, <2>2, <2>3, <2>4
<1> QED
    BY <1>1, PluginInvariant, ListInvariant, SystemInduction, PTL

\* An active plugin whose host answers hears of events: its observer is on the list
\* of an object that is there and connected to the bus.
THEOREM ActivePluginHears == Spec => []ActiveHears
<1>1. SInv => ActiveHears
    BY DEF SInv, Located, Answering, Unlisted, ActiveHears
<1> QED
    BY <1>1, SystemInduction, PTL

\* Events are heard by one who is in the handler of an object.
LEMMA HeardInObject ==
    ASSUME LP!IInv, SInv, [Next]_vars, delivered' # delivered
    PROVE  alive
<1> USE DEF objectVars, observerVars
<1>1. CASE Initialize \/ Deinitialize
    BY <1>1
    DEF Initialize, Deinitialize, RootSucceeds, ConfigureImplementation,
        RegisterNotification, UnregisterNotification, ReleaseImplementation,
        Terminate, HostDies, Destruct, ReleaseAll, L!Crash, L!Destroy, L!Construct,
        L!Register, L!Add, L!Unregister, L!Erase
<1>2. ASSUME NEW id \in P!ConnectionIds, Crash(id) \/ ReportClosed(id) \/ RunJob(id)
      PROVE  FALSE
    BY <1>2 DEF Crash, ReportClosed, RunJob, HostDies, L!Crash
<1>3. CASE \/ Callback
           \/ (P!Activate \/ P!Deactivate \/ P!ReportForeign) /\ UNCHANGED objectVars
    BY <1>3 DEF Callback
<1>4. CASE Hold \/ LetGo \/ ClientCalls
    BY <1>4
    DEF Hold, LetGo, ClientCalls, Destruct, ReleaseAll, L!Destroy, L!Register,
        L!Add, L!Unregister, L!Erase
<1>5. ASSUME NEW t \in Threads, Arrive(t) \/ Handle(t) PROVE alive
  <2>1. pc[t] # "idle" \/ alive
      BY <1>5
      DEF Arrive, L!Arrive, L!Raise, Handle, L!Handle, L!TakeSnapshot, L!Copy,
          L!Notify, L!EndNotify, L!BeginRelease, L!ReleaseOne, L!Return, L!Leave
  <2> QED
      BY <2>1 DEF SInv, Vacant, Quiet
<1>6. CASE UNCHANGED vars
    BY <1>6 DEF vars
<1> QED
    BY <1>1, <1>2, <1>3, <1>4, <1>5, <1>6 DEF Next

\* No event is raised on a plugin that has let go of its service, even if, out of
\* process, a client holds the object when the plugin releases it: the host is gone by
\* then.  Of an object held in the Thunder process this is not claimed.
THEOREM EventsHaveService == Spec => NoLateEvents
<1>1. PP!CInv /\ LP!IInv /\ SInv /\ [Next]_vars
         => [delivered'[Own] # delivered[Own]
                => service \/ (held /\ ~P!OutOfProcess)]_vars
    BY HeardInObject, ObjectHasService
<1> QED
    BY <1>1, PluginInvariant, ListInvariant, SystemInduction, PTL
    DEF Spec, NoLateEvents

\* With one dispatch thread everybody hears the events in the order of the bus,
\* over all activations and crashes.
THEOREM SystemKeepsOrder == Spec => []HeardInOrder
<1>1. CASE Cardinality(Threads) = 1
  <2>1. PICK t : Threads = {t}
      BY <1>1, FS_Singleton, ObserverListAssumption
  <2>2. Spec => []LP!InOrder
      BY <2>1, SystemIsObserverList, SameList, LP!OneThreadKeepsOrder,
         ObserverListAssumption, PTL
      DEF IsFiniteSet, LP!IsFiniteSet
  <2>3. LP!IInv /\ LP!InOrder => HeardInOrder
    <3> SUFFICES ASSUME LP!IInv, LP!InOrder PROVE HeardInOrder
        OBVIOUS
    <3>1. \A o \in {Own, Client} : delivered[o] \in Seq(Nat)
        BY DEF LP!IInv, LP!Shape
    <3>2. \A o \in {Own, Client} : DOMAIN delivered[o] = 1 .. Len(delivered[o])
        BY <3>1
    <3> QED
        BY <3>2 DEF LP!InOrder, LP!Ascending, HeardInOrder
  <2> QED
      BY <2>2, <2>3, ListInvariant, PTL
<1>2. CASE Cardinality(Threads) # 1
  <2>1. HeardInOrder
      BY <1>2 DEF HeardInOrder
  <2> QED
      BY <2>1, PTL
<1> QED
    BY <1>1, <1>2

=============================================================================
