------------------------ MODULE ImplLifecycleProofs ------------------------
(***************************************************************************)
(* ImplLifecycle for any number of objects and of dispatch threads and any *)
(* number of retries.  What holds of the static pointer and of the shell   *)
(* with every freedom of the bus, when any call to it may fail and objects *)
(* may overlap; and, with fewer freedoms, whose the connection is and what *)
(* the bus's handler table holds.                                          *)
(***************************************************************************)
EXTENDS ImplLifecycle, FiniteSetTheorems, TLAPS

Labels == Configuring \cup RollingBack \cup Destroying \cup Resting

\* Where an object must not be while _instance designates it.
Dead == Destroying \cup {"none"}

IInv ==
    /\ pc \in [Objects -> Labels]
    /\ instance \in Objects \cup {None}
    /\ InstanceNotDestroyed

-----------------------------------------------------------------------------
\* An object moves, and the pointer stays: harmless if the object goes on
\* living, or was being destroyed already.
LEMMA Move ==
    ASSUME IInv, NEW o \in Objects, NEW label \in Labels,
           Goto(o, label), UNCHANGED instance,
           label \in Dead => pc[o] \in Destroying
    PROVE  IInv'
BY ObjectsAssumption DEF IInv, InstanceNotDestroyed, Goto, Dead

\* The same without the label's name.
LEMMA Lives ==
    ASSUME IInv, NEW o \in Objects, UNCHANGED instance,
           \E label \in Labels \ Dead : Goto(o, label)
    PROVE  IInv'
BY Move

LEMMA ConfiguringIInv ==
    ASSUME IInv, NEW o \in Objects,
           \/ Configure(o) \/ SampleConnected(o) \/ CheckFirst(o)
           \/ TryInit(o) \/ TryConnect(o) \/ CheckConnected(o)
           \/ RegisterHandler(o) \/ RegisterHandlerFails(o) \/ Verify(o)
    PROVE  IInv'
<1> DEFINE Alive == Labels \ Dead
<1>1. {"sample", "check_first", "bus_init", "bus_connect", "bus_check",
       "register", "verify", "configured", "failed", "rb_remove",
       "rb_disconnect"} \subseteq Alive
    BY DEF Labels, Dead, Configuring, RollingBack, Destroying, Resting
<1> HIDE DEF Alive
<1>2. UNCHANGED instance
    BY DEF Configure, SampleConnected, CheckFirst, TryInit, TryConnect,
           CheckConnected, RegisterHandler, RegisterHandlerFails, Verify
<1>3. \E label \in Alive : Goto(o, label)
  <2>1. CASE Configure(o) \/ SampleConnected(o)
      BY <1>1, <2>1 DEF Configure, SampleConnected
  <2>2. CASE CheckFirst(o)
      BY <1>1, <2>2 DEF CheckFirst, InitSucceeded, Joined, Attempt
  <2>3. CASE TryInit(o) \/ TryConnect(o) \/ CheckConnected(o)
      BY <1>1, <2>3 DEF TryInit, TryConnect, CheckConnected, InitSucceeded,
                        AttemptFailed, Joined, Attempt, GoOn
  <2>4. CASE RegisterHandler(o)
      BY <1>1, <2>4 DEF RegisterHandler
  <2>5. CASE RegisterHandlerFails(o) \/ Verify(o)
      BY <1>1, <2>5 DEF RegisterHandlerFails, Verify, BeginDeinitialize
  <2> QED
      BY <2>1, <2>2, <2>3, <2>4, <2>5
<1> QED
    BY <1>2, <1>3, Lives DEF Alive

LEMMA RollbackIInv ==
    ASSUME IInv, NEW o \in Objects, Rollback(o)
    PROVE  IInv'
<1> DEFINE Alive == Labels \ Dead
<1>1. {"rb_remove", "rb_drain", "rb_disconnect", "rb_term", "failed"} \subseteq Alive
    BY DEF Labels, Dead, Configuring, RollingBack, Destroying, Resting
<1> HIDE DEF Alive
<1>2. UNCHANGED instance
    BY DEF Rollback, RemoveHandler, HandlerRemoved, Disconnect, Term, LeaveBus
<1>3. \E label \in Alive : Goto(o, label)
    BY <1>1 DEF Rollback, RemoveHandler, HandlerRemoved, Disconnect, Term, LeaveBus
<1> QED
    BY <1>2, <1>3, Lives DEF Alive

\* The destructor clears the pointer before its first step.
LEMMA DestroyIInv ==
    ASSUME IInv, NEW o \in Objects, Destroy(o)
    PROVE  IInv'
<1>1. instance' = None
    BY DEF Destroy
<1>2. pc' \in [Objects -> Labels]
    BY DEF Destroy, BeginDeinitialize, Goto, IInv, Labels, Destroying
<1> QED
    BY <1>1, <1>2 DEF IInv, InstanceNotDestroyed

LEMMA DestructorIInv ==
    ASSUME IInv, NEW o \in Objects, Destructor(o)
    PROVE  IInv'
<1>1. pc[o] \in Destroying /\ UNCHANGED instance
    BY DEF Destructor, RemoveHandler, HandlerRemoved, Disconnect, Term, LeaveBus,
           ReleaseAll, At, Destroying
<1>2. \E label \in Labels : Goto(o, label)
  <2>1. {"remove", "drain", "disconnect", "term", "release", "none"} \subseteq Labels
      BY DEF Labels, Destroying, Resting
  <2> HIDE DEF Labels
  <2> QED
      BY <2>1
      DEF Destructor, RemoveHandler, HandlerRemoved, Disconnect, Term, LeaveBus,
                  ReleaseAll
<1> QED
    BY <1>1, <1>2, Move

LEMMA Induction == Spec => []IInv
<1>1. Init => IInv
    BY DEF Init, IInv, InstanceNotDestroyed, Labels, Resting
<1>2. IInv /\ [Next]_vars => IInv'
  <2> SUFFICES ASSUME IInv, [Next]_vars PROVE IInv'
      OBVIOUS
  <2>1. ASSUME NEW o \in Objects, Construct(o) PROVE IInv'
    <3>1. instance' = o /\ pc' = [pc EXCEPT ![o] = "constructed"]
        BY <2>1 DEF Construct, Goto
    <3>2. "constructed" \in Labels \ Dead
        BY DEF Labels, Dead, Resting, Destroying
    <3> QED
        BY <3>1, <3>2 DEF IInv, InstanceNotDestroyed, Dead
  <2>2. ASSUME NEW o \in Objects, Configure(o) \/ ConfigureStep(o) PROVE IInv'
      BY <2>2, ConfiguringIInv, RollbackIInv DEF ConfigureStep
  <2>3. ASSUME NEW o \in Objects, Destroy(o) \/ Destructor(o) PROVE IInv'
      BY <2>3, DestroyIInv, DestructorIInv
  <2>4. CASE UNCHANGED <<instance, pc>>
      BY <2>4 DEF IInv, InstanceNotDestroyed
  <2>5. ASSUME NEW t \in Threads,
               (\E e \in HandlerEvents : Enter(t, e)) \/ ThreadStep(t)
        PROVE  IInv'
      BY <2>5, <2>4
      DEF Enter, ThreadStep, Capture, CopyInstance, RunHandler, ThreadOnly
  <2>6. CASE PeerStart \/ PeerStop \/ UNCHANGED vars
      BY <2>6, <2>4 DEF PeerStart, PeerStop, PeerMoves, vars
  <2> QED
      BY <2>1, <2>2, <2>3, <2>5, <2>6 DEF Next
<1> QED
    BY <1>1, <1>2, PTL DEF Spec

\* remoteEventHandler never picks up an object whose destructor has begun, even
\* when every call to the bus fails and objects overlap.
THEOREM InstanceSafe == Spec => []InstanceNotDestroyed
<1>1. IInv => InstanceNotDestroyed
    BY DEF IInv
<1> QED
    BY <1>1, Induction, PTL

-----------------------------------------------------------------------------
\* The reference to the shell: Configure takes it first, and whoever ends a
\* Configure without success, or an object, gives it back.
SInv ==
    /\ DOMAIN pc = Objects
    /\ DOMAIN service = Objects
    /\ \A o \in Objects :
          /\ pc[o] \in Configuring \cup RollingBack \cup {"configured"} => service[o]
          /\ pc[o] \in {"none", "failed"} => ~service[o]

LEMMA ServiceConfiguring ==
    ASSUME SInv, NEW o \in Objects, ConfigureStep(o)
    PROVE  SInv'
<1> USE DEF SInv, Configuring, RollingBack, Goto, At
<1>1. CASE SampleConnected(o) \/ RegisterHandler(o) \/ RegisterHandlerFails(o)
    BY <1>1 DEF SampleConnected, RegisterHandler, RegisterHandlerFails,
                BeginDeinitialize
<1>2. CASE CheckFirst(o)
    BY <1>2 DEF CheckFirst, InitSucceeded, Joined, Attempt
<1>3. CASE TryInit(o)
    BY <1>3 DEF TryInit, AttemptFailed, Attempt, GoOn
<1>4. CASE TryConnect(o)
    BY <1>4 DEF TryConnect, AttemptFailed, Attempt, GoOn
<1>5. CASE CheckConnected(o)
    BY <1>5 DEF CheckConnected, InitSucceeded, Joined, AttemptFailed, Attempt
<1>6. CASE Verify(o)
    BY <1>6 DEF Verify, BeginDeinitialize
<1>7. CASE Rollback(o)
    BY <1>7 DEF Rollback, RemoveHandler, HandlerRemoved, Disconnect, Term, LeaveBus
<1> QED
    BY <1>1, <1>2, <1>3, <1>4, <1>5, <1>6, <1>7 DEF ConfigureStep

LEMMA ServiceInduction == Spec => []SInv
<1>1. Init => SInv
    BY DEF Init, No, SInv, Configuring, RollingBack
<1>2. SInv /\ [Next]_vars => SInv'
  <2> SUFFICES ASSUME SInv, [Next]_vars PROVE SInv'
      OBVIOUS
  <2>1. ASSUME NEW o \in Objects, Construct(o) \/ Configure(o) PROVE SInv'
      BY <2>1 DEF Construct, Configure, SInv, Configuring, RollingBack, Goto, At
  <2>2. ASSUME NEW o \in Objects, ConfigureStep(o) PROVE SInv'
      BY <2>2, ServiceConfiguring
  <2>3. ASSUME NEW o \in Objects, Destroy(o) PROVE SInv'
      BY <2>3 DEF Destroy, BeginDestructor, BeginDeinitialize, SInv, Configuring,
                  RollingBack, Goto
  <2>4. ASSUME NEW o \in Objects, Destructor(o) PROVE SInv'
      BY <2>4 DEF Destructor, RemoveHandler, HandlerRemoved, Disconnect, Term,
                  LeaveBus, ReleaseAll, SInv, Configuring, RollingBack, Goto, At
  <2>5. CASE UNCHANGED <<pc, service>>
      BY <2>5 DEF SInv
  <2>6. ASSUME NEW t \in Threads,
               (\E e \in HandlerEvents : Enter(t, e)) \/ ThreadStep(t)
        PROVE  SInv'
      BY <2>6, <2>5 DEF Enter, ThreadStep, Capture, CopyInstance, RunHandler,
                        ThreadOnly
  <2>7. CASE PeerStart \/ PeerStop \/ UNCHANGED vars
      BY <2>7, <2>5 DEF PeerStart, PeerStop, PeerMoves, vars
  <2> QED
      BY <2>1, <2>2, <2>3, <2>4, <2>6, <2>7 DEF Next
<1> QED
    BY <1>1, <1>2, PTL DEF Spec

\* The shell is referenced for as long as an object is configured, and never by
\* one that failed or is gone, whatever fails and however objects overlap.
THEOREM ServiceIsHeld == Spec => []ServiceHeld
<1>1. SInv => ServiceHeld
    BY DEF SInv, ServiceHeld
<1> QED
    BY <1>1, ServiceInduction, PTL

-----------------------------------------------------------------------------
\* Whose the connection to the bus is.  For this, objects do not overlap and the
\* bus does not deny a connection there is.

Alone == \A o, p \in Objects : Exists(o) /\ Exists(p) => o = p

\* Where an object may have a connection of its own, and where it still has it.
Keeping == {"register", "verify", "configured", "rb_remove", "rb_drain",
            "rb_disconnect", "remove", "drain", "disconnect"}
Owning == Keeping \cup {"rb_term", "term"}

Joining == {"bus_init", "bus_connect", "bus_check"}

BusTypes ==
    /\ pc \in [Objects -> Labels]
    /\ hasOwnProcess \in [Objects -> BOOLEAN]
    /\ alreadyConnected \in [Objects -> BOOLEAN]
    /\ inited \in BOOLEAN /\ connected \in BOOLEAN
    /\ peer \in {"absent", "user", "owner"}

\* A connection has one owner, and the sample is right until it is used.
OneOwner ==
    /\ \A o \in Objects :
          /\ hasOwnProcess[o] => pc[o] \in Owning /\ peer # "owner"
          /\ hasOwnProcess[o] /\ pc[o] \in Keeping => connected
          /\ pc[o] = "check_first" => alreadyConnected[o] = connected
          /\ pc[o] \in Joining => ~alreadyConnected[o] /\ peer # "owner"
    /\ peer = "owner" => connected

BInv == BusTypes /\ Alone /\ OneOwner

\* A step of the one object there is.
LEMMA LoneStep ==
    ASSUME BInv, NEW o \in Objects, Exists(o), BusTypes', UNCHANGED peer,
           \A p \in Objects \ {o} :
              /\ pc'[p] = pc[p] /\ hasOwnProcess'[p] = hasOwnProcess[p]
              /\ alreadyConnected'[p] = alreadyConnected[p],
           hasOwnProcess'[o] => pc'[o] \in Owning /\ peer # "owner",
           hasOwnProcess'[o] /\ pc'[o] \in Keeping => connected',
           pc'[o] = "check_first" => alreadyConnected'[o] = connected',
           pc'[o] \in Joining => ~alreadyConnected'[o] /\ peer # "owner",
           peer = "owner" => connected'
    PROVE  BInv'
<1>1. \A p \in Objects \ {o} : ~Exists(p) /\ ~Exists(p)' /\ ~hasOwnProcess'[p]
    BY DEF BInv, Alone, Exists, OneOwner, Owning, Keeping
<1>2. Alone'
    BY <1>1 DEF Alone
<1>3. OneOwner'
    BY <1>1 DEF OneOwner, Exists, Joining
<1> QED
    BY <1>2, <1>3 DEF BInv

\* The labels an object comes to, and how its own variables follow.
LEMMA JoiningBInv ==
    ASSUME BInv, CheckMayFail = FALSE, NEW o \in Objects,
           \/ SampleConnected(o) \/ CheckFirst(o)
           \/ TryInit(o) \/ TryConnect(o) \/ CheckConnected(o)
    PROVE  BInv'
<1> USE DEF Goto, At, others, peerVars, busVars, regVars, tableVars
<1>1. Exists(o) /\ UNCHANGED peer
    BY DEF SampleConnected, CheckFirst, TryInit, TryConnect, CheckConnected, Exists
<1>2. CASE SampleConnected(o)
  <2>1. alreadyConnected' = [alreadyConnected EXCEPT ![o] = connected]
      BY <1>2 DEF SampleConnected, IsConnected, BInv, BusTypes
  <2> QED
      BY <1>1, <1>2, <2>1, LoneStep
      DEF SampleConnected, joinVars, BInv, BusTypes, Labels, Configuring, OneOwner,
          Joining, Owning, Keeping
<1>3. CASE CheckFirst(o)
  <2>1. \/ connected /\ Joined(o, ~alreadyConnected[o])
        \/ ~connected /\ Attempt(o, 0)
      BY <1>3 DEF CheckFirst, IsConnected, InitSucceeded
  <2>2. pc[o] = "check_first" /\ UNCHANGED <<alreadyConnected, inited, connected>>
      BY <1>3 DEF CheckFirst
  <2> QED
      BY <1>1, <2>1, <2>2, LoneStep
      DEF Joined, Attempt, BInv, BusTypes, Labels, Configuring, OneOwner, Joining,
          Owning, Keeping
<1>4. CASE TryInit(o) \/ TryConnect(o) \/ CheckConnected(o)
  <2>1. /\ pc[o] \in Joining /\ UNCHANGED alreadyConnected
        /\ inited' \in BOOLEAN /\ connected' \in BOOLEAN
        /\ ~hasOwnProcess[o] /\ ~alreadyConnected[o] /\ peer # "owner"
      BY <1>4 DEF TryInit, TryConnect, CheckConnected, Joining, BusInit, BusConnect,
                  BInv, BusTypes, OneOwner, Owning, Keeping
  <2>2. \/ connected' /\ Joined(o, TRUE)
        \/ \E label \in {"bus_init", "bus_connect", "bus_check", "failed"} :
              /\ Goto(o, label)
              /\ \/ UNCHANGED hasOwnProcess
                 \/ hasOwnProcess' = [hasOwnProcess EXCEPT ![o] = FALSE]
    <3>1. CASE TryInit(o) \/ TryConnect(o)
        BY <3>1 DEF TryInit, TryConnect, AttemptFailed, Attempt, GoOn
    <3>2. CASE CheckConnected(o)
      <4>1. \/ connected /\ Joined(o, ~alreadyConnected[o])
            \/ AttemptFailed(o)
          BY <3>2 DEF CheckConnected, IsConnected, InitSucceeded
      <4>2. connected' = connected /\ alreadyConnected[o] = FALSE
          BY <2>1, <3>2 DEF CheckConnected, BInv, BusTypes
      <4>3. CASE connected /\ Joined(o, ~alreadyConnected[o])
          BY <4>2, <4>3 DEF Joined
      <4>4. CASE AttemptFailed(o)
          BY <4>4 DEF AttemptFailed, Attempt
      <4> QED
          BY <4>1, <4>3, <4>4
    <3> QED
        BY <1>4, <3>1, <3>2
  <2>3. CASE connected' /\ Joined(o, TRUE)
      BY <1>1, <2>1, <2>3, LoneStep
      DEF Joined, BInv, BusTypes, Labels, Configuring, OneOwner, Joining, Owning,
          Keeping
  <2>4. ASSUME NEW label \in {"bus_init", "bus_connect", "bus_check", "failed"},
               Goto(o, label),
               \/ UNCHANGED hasOwnProcess
               \/ hasOwnProcess' = [hasOwnProcess EXCEPT ![o] = FALSE]
        PROVE  BInv'
    <3>1. label \in Labels /\ label \notin Owning /\ label # "check_first"
        BY DEF Labels, Configuring, Resting, Owning, Keeping
    <3>2. BusTypes' /\ ~hasOwnProcess'[o] /\ pc'[o] = label
        BY <1>1, <2>1, <2>4, <3>1 DEF BInv, BusTypes
    <3> QED
        BY <1>1, <2>1, <2>4, <3>1, <3>2, LoneStep DEF BInv, BusTypes
  <2> QED
      BY <2>2, <2>3, <2>4
<1> QED
    BY <1>2, <1>3, <1>4

\* Steps that do not touch the connection: labels go on within Keeping, or to it.
LEMMA KeepingBInv ==
    ASSUME BInv, NEW o \in Objects, Exists(o),
           UNCHANGED <<joinVars, busVars, peer>>,
           NEW label \in Labels, Goto(o, label),
           label \notin Joining, label # "check_first",
           hasOwnProcess[o] => label \in Keeping /\ pc[o] \in Keeping
    PROVE  BInv'
<1>1. BusTypes'
    BY DEF BInv, BusTypes, Goto, joinVars, busVars
<1>2. /\ pc'[o] = label
      /\ \A p \in Objects \ {o} : pc'[p] = pc[p]
    BY DEF BInv, BusTypes, Goto
<1> QED
    BY <1>1, <1>2, LoneStep DEF BInv, OneOwner, Owning, joinVars, busVars

\* What the steps that do not call Init, Connect, Disconnect or Term have in common.
LEMMA HandlerSteps ==
    ASSUME NEW o \in Objects,
           \/ Configure(o) \/ RegisterHandler(o) \/ RegisterHandlerFails(o)
           \/ Verify(o) \/ Destroy(o) \/ ReleaseAll(o)
           \/ RemoveHandler(o, "rb_remove", "rb_drain")
           \/ RemoveHandler(o, "remove", "drain")
           \/ HandlerRemoved(o, "rb_drain", "rb_remove", "rb_disconnect")
           \/ HandlerRemoved(o, "drain", "remove", "disconnect")
    PROVE  /\ Exists(o) /\ UNCHANGED <<joinVars, busVars, peer>>
           /\ pc[o] \in Keeping \cup {"constructed", "failed", "release"}
           /\ \E label \in Keeping \cup {"sample", "none"} :
                 /\ Goto(o, label)
                 /\ label \notin Keeping => pc[o] \in {"constructed", "release"}
<1>1. UNCHANGED <<joinVars, busVars, peer>>
    BY DEF Configure, RegisterHandler, RegisterHandlerFails, Verify, Destroy,
           BeginDestructor, ReleaseAll, RemoveHandler, HandlerRemoved, others,
           peerVars
<1>2. /\ Exists(o)
      /\ pc[o] \in Keeping \cup {"constructed", "failed", "release"}
    BY DEF Configure, RegisterHandler, RegisterHandlerFails, Verify, Destroy,
           BeginDestructor, ReleaseAll, RemoveHandler, HandlerRemoved, At, Keeping,
           Exists
<1>3. \E label \in Keeping \cup {"sample", "none"} :
         /\ Goto(o, label)
         /\ label \notin Keeping => pc[o] \in {"constructed", "release"}
  <2>1. CASE Configure(o) \/ ReleaseAll(o)
      BY <2>1 DEF Configure, ReleaseAll, At
  <2>2. CASE RegisterHandler(o)
      BY <2>2 DEF RegisterHandler, Keeping
  <2>3. CASE RegisterHandlerFails(o) \/ Verify(o) \/ Destroy(o)
    <3>1. \/ BeginDeinitialize(o, "rb_remove", "rb_disconnect")
          \/ BeginDeinitialize(o, "remove", "disconnect")
          \/ Goto(o, "configured")
        BY <2>3 DEF RegisterHandlerFails, Verify, Destroy
    <3> QED
        BY <3>1 DEF BeginDeinitialize, Keeping
  <2>4. ASSUME NEW here, NEW there \in {"rb_drain", "drain"},
               RemoveHandler(o, here, there)
        PROVE  \E label \in Keeping : Goto(o, label)
      BY <2>4 DEF RemoveHandler, Keeping
  <2>5. ASSUME NEW here, NEW again \in {"rb_remove", "remove"},
               NEW next \in {"rb_disconnect", "disconnect"},
               HandlerRemoved(o, here, again, next)
        PROVE  \E label \in Keeping : Goto(o, label)
      BY <2>5 DEF HandlerRemoved, Keeping
  <2> QED
      BY <2>1, <2>2, <2>3, <2>4, <2>5
<1> QED
    BY <1>1, <1>2, <1>3

LEMMA HandlersBInv ==
    ASSUME BInv, NEW o \in Objects,
           \/ Configure(o) \/ RegisterHandler(o) \/ RegisterHandlerFails(o)
           \/ Verify(o) \/ Destroy(o) \/ ReleaseAll(o)
           \/ RemoveHandler(o, "rb_remove", "rb_drain")
           \/ RemoveHandler(o, "remove", "drain")
           \/ HandlerRemoved(o, "rb_drain", "rb_remove", "rb_disconnect")
           \/ HandlerRemoved(o, "drain", "remove", "disconnect")
    PROVE  BInv'
<1>1. pc[o] \in {"constructed", "failed", "release"} => ~hasOwnProcess[o]
    BY DEF BInv, OneOwner, Owning, Keeping
<1>2. \A label \in Keeping \cup {"sample", "none"} :
         label \in Labels /\ label \notin Joining /\ label # "check_first"
    BY DEF Labels, Configuring, RollingBack, Destroying, Resting, Keeping, Joining
<1> QED
    BY <1>1, <1>2, HandlerSteps, KeepingBInv

LEMMA LeavingBInv ==
    ASSUME BInv, NEW o \in Objects,
           \/ Disconnect(o, "rb_disconnect", "rb_term")
           \/ Disconnect(o, "disconnect", "term")
           \/ Term(o, "rb_term", "failed") \/ Term(o, "term", "release")
    PROVE  BInv'
<1> USE DEF Goto, At, others, peerVars, joinVars
<1>1. Exists(o) /\ UNCHANGED <<peer, alreadyConnected>>
    BY DEF Disconnect, Term, LeaveBus, Exists
<1>2. ASSUME NEW here, NEW next \in {"rb_term", "term"}, Disconnect(o, here, next)
      PROVE  BInv'
  <2>1. /\ pc' = [pc EXCEPT ![o] = next] /\ UNCHANGED <<hasOwnProcess, inited>>
        /\ connected' \in BOOLEAN
        /\ ~hasOwnProcess[o] => connected' = connected
      BY <1>2 DEF Disconnect, BInv, BusTypes
  <2>2. next \in Labels \cap Owning /\ next \notin Keeping \cup Joining
      BY DEF Labels, RollingBack, Destroying, Owning, Keeping, Joining
  <2> QED
      BY <1>1, <2>1, <2>2, LoneStep DEF BInv, BusTypes, OneOwner
<1>3. ASSUME NEW here, NEW next \in {"failed", "release"}, Term(o, here, next)
      PROVE  BInv'
  <2>1. /\ pc' = [pc EXCEPT ![o] = next] /\ UNCHANGED connected
        /\ hasOwnProcess' = [hasOwnProcess EXCEPT ![o] = FALSE]
        /\ inited' \in BOOLEAN
      BY <1>3 DEF Term, LeaveBus, BInv, BusTypes
  <2>2. next \in Labels /\ next \notin Joining
      BY DEF Labels, Destroying, Resting, Joining
  <2> QED
      BY <1>1, <2>1, <2>2, LoneStep DEF BInv, BusTypes, OneOwner
<1> QED
    BY <1>2, <1>3

LEMMA ConstructBInv ==
    ASSUME BInv, Overlap = FALSE, NEW o \in Objects, Construct(o)
    PROVE  BInv'
<1>1. /\ pc' = [pc EXCEPT ![o] = "constructed"]
      /\ hasOwnProcess' = [hasOwnProcess EXCEPT ![o] = FALSE]
      /\ alreadyConnected' = [alreadyConnected EXCEPT ![o] = FALSE]
      /\ UNCHANGED <<inited, connected, peer>>
      /\ \A p \in Objects : ~Exists(p)
    BY DEF Construct, Goto, busVars, others, peerVars
<1>2. BusTypes'
    BY <1>1 DEF BInv, BusTypes, Labels, Resting
<1>3. Alone'
    BY <1>1 DEF Alone, Exists, BInv, BusTypes
<1>4. OneOwner'
    BY <1>1 DEF BInv, BusTypes, OneOwner, Exists, Joining, Owning, Keeping
<1> QED
    BY <1>2, <1>3, <1>4 DEF BInv

\* The other plugin comes and goes, and no object had relied on what it changes.
LEMMA PeerBInv ==
    ASSUME BInv, ~raced', PeerStart \/ PeerStop
    PROVE  BInv'
<1>1. UNCHANGED <<pc, hasOwnProcess, alreadyConnected>>
    BY DEF PeerStart, PeerStop, PeerMoves, joinVars
<1>2. connected' # connected => \A o \in Objects : ~Relying(o)
    BY DEF PeerStart, PeerStop, PeerMoves
<1>3. BusTypes'
    BY <1>1 DEF PeerStart, PeerStop, BInv, BusTypes
<1>4. CASE connected' = connected
  <2>1. peer' # "owner" \/ ~connected
      BY DEF PeerStart, PeerStop
  <2>2. peer' = "owner" => connected'
      BY DEF PeerStart, PeerStop
  <2>3. peer' # "owner"
      BY <1>4, <2>1, <2>2
  <2>4. OneOwner'
      BY <1>1, <1>4, <2>3 DEF BInv, OneOwner
  <2> QED
      BY <1>1, <1>3, <2>4 DEF BInv, Alone, Exists
<1>5. CASE connected' # connected
  <2>1. \A o \in Objects : pc[o] \notin Joining \cup {"check_first"} /\ ~hasOwnProcess[o]
    <3> SUFFICES ASSUME NEW o \in Objects
                 PROVE  pc[o] \notin Joining \cup {"check_first"} /\ ~hasOwnProcess[o]
        OBVIOUS
    <3>1. ~Relying(o)
        BY <1>2, <1>5
    <3>2. peer = "owner" \/ ~connected
        BY <1>5 DEF PeerStart, PeerStop, BInv, BusTypes
    <3>3. pc[o] # "check_first"
        BY <3>1 DEF Relying, BInv, OneOwner
    <3>4. pc[o] \notin Joining
        BY <3>1, <3>2 DEF Relying, BInv, BusTypes, OneOwner, Joining
    <3>5. ~hasOwnProcess[o]
        BY <3>1, <3>2 DEF Relying, BInv, OneOwner, Owning
    <3> QED
        BY <3>3, <3>4, <3>5
  <2>2. OneOwner'
      BY <1>1, <2>1 DEF PeerStart, PeerStop, BInv, OneOwner
  <2> QED
      BY <1>1, <1>3, <2>2 DEF BInv, Alone, Exists
<1> QED
    BY <1>4, <1>5

\* The steps of an object, as both invariants divide them.
LEMMA ObjectSteps ==
    ASSUME NEW o \in Objects, ConfigureStep(o) \/ Destructor(o)
    PROVE  \/ SampleConnected(o) \/ CheckFirst(o)
           \/ TryInit(o) \/ TryConnect(o) \/ CheckConnected(o)
           \/ RegisterHandler(o) \/ RegisterHandlerFails(o)
           \/ Verify(o) \/ ReleaseAll(o)
           \/ RemoveHandler(o, "rb_remove", "rb_drain")
           \/ RemoveHandler(o, "remove", "drain")
           \/ HandlerRemoved(o, "rb_drain", "rb_remove", "rb_disconnect")
           \/ HandlerRemoved(o, "drain", "remove", "disconnect")
           \/ Disconnect(o, "rb_disconnect", "rb_term")
           \/ Disconnect(o, "disconnect", "term")
           \/ Term(o, "rb_term", "failed") \/ Term(o, "term", "release")
BY DEF ConfigureStep, Rollback, Destructor

\* What is no longer claimed once the other plugin has raced with an object stays so.
LEMMA RacedStays ==
    ASSUME raced, [Next]_vars
    PROVE  raced'
<1>1. CASE PeerStart \/ PeerStop
    BY <1>1 DEF PeerStart, PeerStop, PeerMoves
<1>2. CASE UNCHANGED peerVars
    BY <1>2 DEF peerVars
<1>3. ASSUME NEW o \in Objects, Construct(o) \/ Configure(o) \/ Destroy(o)
      PROVE  UNCHANGED peerVars
    BY <1>3 DEF Construct, Configure, Destroy, BeginDestructor, others, peerVars
<1>4. ASSUME NEW o \in Objects, ConfigureStep(o) \/ Destructor(o)
      PROVE  UNCHANGED peerVars
    BY <1>4, ObjectSteps
    DEF SampleConnected, CheckFirst, TryInit, TryConnect, CheckConnected,
        RegisterHandler, RegisterHandlerFails, Verify, ReleaseAll, RemoveHandler,
        HandlerRemoved, Disconnect, Term, LeaveBus, others, peerVars
<1>5. ASSUME NEW t \in Threads,
             (\E e \in HandlerEvents : Enter(t, e)) \/ ThreadStep(t)
      PROVE  UNCHANGED peerVars
    BY <1>5 DEF Enter, ThreadStep, Capture, CopyInstance, RunHandler, ThreadOnly
<1>6. CASE UNCHANGED vars
    BY <1>2, <1>6 DEF vars, others, peerVars
<1> QED
    BY <1>1, <1>2, <1>3, <1>4, <1>5, <1>6 DEF Next

LEMMA BusInduction ==
    ASSUME Overlap = FALSE, CheckMayFail = FALSE
    PROVE  Spec => [](raced \/ BInv)
<1>1. Init => BInv
  <2> SUFFICES ASSUME Init PROVE BInv
      OBVIOUS
  <2>1. BusTypes
      BY DEF Init, No, BusTypes, Labels, Resting
  <2>2. Alone
      BY DEF Init, Alone, Exists
  <2>3. OneOwner
      BY DEF Init, No, OneOwner, Joining
  <2> QED
      BY <2>1, <2>2, <2>3 DEF BInv
<1>2. BInv /\ ~raced' /\ [Next]_vars => BInv'
  <2> SUFFICES ASSUME BInv, ~raced', [Next]_vars PROVE BInv'
      OBVIOUS
  <2>1. ASSUME NEW o \in Objects, Construct(o) PROVE BInv'
      BY <2>1, ConstructBInv
  <2>2. ASSUME NEW o \in Objects, ConfigureStep(o) \/ Destructor(o) PROVE BInv'
      BY <2>2, ObjectSteps, JoiningBInv, HandlersBInv, LeavingBInv
  <2>3. ASSUME NEW o \in Objects, Configure(o) \/ Destroy(o) PROVE BInv'
      BY <2>3, HandlersBInv
  <2>4. CASE UNCHANGED <<pc, joinVars, busVars, peer>>
      BY <2>4 DEF BInv, BusTypes, Alone, Exists, OneOwner, joinVars, busVars
  <2>5. ASSUME NEW t \in Threads,
               (\E e \in HandlerEvents : Enter(t, e)) \/ ThreadStep(t)
        PROVE  BInv'
      BY <2>5, <2>4 DEF Enter, ThreadStep, Capture, CopyInstance, RunHandler,
                        ThreadOnly, peerVars
  <2>6. CASE PeerStart \/ PeerStop
      BY <2>6, PeerBInv
  <2>7. CASE UNCHANGED vars
      BY <2>7, <2>4 DEF vars, others, peerVars
  <2> QED
      BY <2>1, <2>2, <2>3, <2>5, <2>6, <2>7 DEF Next
<1>3. (raced \/ BInv) /\ [Next]_vars => (raced \/ BInv)'
    BY <1>2, RacedStays
<1> QED
    BY <1>1, <1>3, PTL DEF Spec

\* A connection that another plugin of the process made is not taken down by an
\* object, be it configured, rolled back or destroyed: unless the other plugin made
\* it while an object was between its sample and init(), or between Disconnect and
\* Term, which the code does not guard.
THEOREM PeerKeepsConnection ==
    ASSUME Overlap = FALSE, CheckMayFail = FALSE
    PROVE  Spec => KeepsPeerConnection
<1> DEFINE Keeps == (connected => connected') /\ (inited => inited')
<1>1. (raced \/ BInv) /\ [Next]_vars
         => [(~raced /\ peer = "owner" /\ peer' = "owner")
                => (connected => connected') /\ (inited => inited')]_vars
  <2> SUFFICES ASSUME BInv, [Next]_vars, peer = "owner", peer' = "owner"
               PROVE  Keeps
      OBVIOUS
  <2> USE DEF busVars
  <2>1. \A o \in Objects : pc[o] \notin Joining /\ ~hasOwnProcess[o]
      BY DEF BInv, OneOwner
  <2>2. inited \in BOOLEAN /\ connected \in BOOLEAN
      BY DEF BInv, BusTypes
  <2>3. ASSUME NEW o \in Objects, ConfigureStep(o) \/ Destructor(o)
        PROVE  Keeps
    <3>1. CASE TryInit(o) \/ TryConnect(o)
        BY <2>1, <3>1 DEF TryInit, TryConnect, Joining, At
    <3>2. CASE \/ Disconnect(o, "rb_disconnect", "rb_term")
               \/ Disconnect(o, "disconnect", "term")
        BY <2>1, <2>2, <3>2 DEF Disconnect
    <3>3. CASE Term(o, "rb_term", "failed") \/ Term(o, "term", "release")
        BY <2>1, <2>2, <3>3 DEF Term, LeaveBus
    <3> QED
        BY <2>3, <3>1, <3>2, <3>3, ObjectSteps
        DEF SampleConnected, CheckFirst, CheckConnected, RegisterHandler,
            RegisterHandlerFails, Verify, ReleaseAll, RemoveHandler, HandlerRemoved
  <2>4. ASSUME NEW o \in Objects, Construct(o) \/ Configure(o) \/ Destroy(o)
        PROVE  Keeps
      BY <2>4 DEF Construct, Configure, Destroy, BeginDestructor
  <2>5. ASSUME NEW t \in Threads,
               (\E e \in HandlerEvents : Enter(t, e)) \/ ThreadStep(t)
        PROVE  Keeps
      BY <2>5 DEF Enter, ThreadStep, Capture, CopyInstance, RunHandler, ThreadOnly
  <2>6. CASE PeerStart \/ PeerStop \/ UNCHANGED vars
      BY <2>6 DEF PeerStart, PeerStop, vars
  <2> QED
      BY <2>3, <2>4, <2>5, <2>6 DEF Next
<1> QED
    BY <1>1, BusInduction, PTL DEF Spec, KeepsPeerConnection

-----------------------------------------------------------------------------
\* If besides no call fails, the bus is in use only by somebody who will leave it.

RInv ==
    /\ inited \/ connected =>
          \/ peer = "owner"
          \/ \E o \in Objects : hasOwnProcess[o] \/ pc[o] \in Joining
    /\ \A o \in Objects :
          /\ pc[o] = "bus_connect" => inited
          /\ pc[o] = "bus_check" => connected
          /\ hasOwnProcess[o] /\ pc[o] \in {"rb_term", "term"} => ~connected

\* A step of the one object there is.
LEMMA LoneRelease ==
    ASSUME BInv, RInv, NEW o \in Objects, Exists(o), UNCHANGED peer,
           \A p \in Objects \ {o} :
              pc'[p] = pc[p] /\ hasOwnProcess'[p] = hasOwnProcess[p],
           inited' \/ connected' =>
              peer = "owner" \/ hasOwnProcess'[o] \/ pc'[o] \in Joining,
           pc'[o] = "bus_connect" => inited',
           pc'[o] = "bus_check" => connected',
           hasOwnProcess'[o] /\ pc'[o] \in {"rb_term", "term"} => ~connected'
    PROVE  RInv'
<1>1. \A p \in Objects \ {o} : ~hasOwnProcess'[p] /\ pc'[p] = "none"
    BY DEF BInv, Alone, Exists, OneOwner, Owning, Keeping
<1> QED
    BY <1>1 DEF RInv

\* Nobody else has the bus while an object is not joined.
LEMMA OnlyOwner ==
    ASSUME BInv, RInv, NEW o \in Objects, Exists(o), inited \/ connected
    PROVE  peer = "owner" \/ hasOwnProcess[o] \/ pc[o] \in Joining
BY DEF BInv, Alone, Exists, OneOwner, Owning, Keeping, Joining, RInv

LEMMA JoiningRInv ==
    ASSUME BInv, RInv, CheckMayFail = FALSE, ConnectMayFail = FALSE,
           NEW o \in Objects,
           \/ SampleConnected(o) \/ CheckFirst(o)
           \/ TryInit(o) \/ TryConnect(o) \/ CheckConnected(o)
    PROVE  RInv'
<1> USE DEF Goto, At, others, peerVars, busVars
<1>1. Exists(o) /\ UNCHANGED peer
    BY DEF SampleConnected, CheckFirst, TryInit, TryConnect, CheckConnected, Exists
<1>2. pc \in [Objects -> Labels] /\ hasOwnProcess \in [Objects -> BOOLEAN]
    BY DEF BInv, BusTypes
<1>3. CASE SampleConnected(o)
    BY <1>1, <1>2, <1>3, OnlyOwner, LoneRelease
    DEF SampleConnected, BInv, OneOwner, Owning, Keeping, Joining
<1>4. CASE CheckFirst(o)
  <2>1. \/ connected /\ Joined(o, ~alreadyConnected[o])
        \/ ~connected /\ Attempt(o, 0)
      BY <1>4 DEF CheckFirst, IsConnected, InitSucceeded
  <2>2. /\ pc[o] = "check_first" /\ UNCHANGED <<inited, connected>>
        /\ connected => alreadyConnected[o]
        /\ ~hasOwnProcess[o] /\ pc[o] \notin Joining
      BY <1>4 DEF CheckFirst, BInv, OneOwner, Owning, Keeping, Joining
  <2>3. CASE connected /\ Joined(o, ~alreadyConnected[o])
    <3>1. peer = "owner"
        BY <1>1, <2>2, <2>3, OnlyOwner
    <3> QED
        BY <1>1, <1>2, <2>2, <2>3, <3>1, LoneRelease DEF Joined, Joining
  <2>4. CASE Attempt(o, 0)
      BY <1>1, <1>2, <2>2, <2>4, LoneRelease DEF Attempt, Joining
  <2> QED
      BY <2>1, <2>3, <2>4
<1>5. CASE TryInit(o)
    BY <1>1, <1>2, <1>5, LoneRelease DEF TryInit, BusInit, GoOn, Joining
<1>6. CASE TryConnect(o)
    BY <1>1, <1>2, <1>6, LoneRelease DEF TryConnect, BusConnect, GoOn, Joining, RInv
<1>7. CASE CheckConnected(o)
  <2>1. ~alreadyConnected[o] /\ connected
      BY <1>7 DEF CheckConnected, BInv, OneOwner, Joining, RInv
  <2>2. Joined(o, TRUE)
      BY <1>7, <2>1 DEF CheckConnected, IsConnected, InitSucceeded, BInv, BusTypes
  <2> QED
      BY <1>1, <1>2, <2>2, LoneRelease DEF Joined
<1> QED
    BY <1>3, <1>4, <1>5, <1>6, <1>7

LEMMA HandlersRInv ==
    ASSUME BInv, RInv, NEW o \in Objects,
           \/ Configure(o) \/ RegisterHandler(o) \/ RegisterHandlerFails(o)
           \/ Verify(o) \/ Destroy(o) \/ ReleaseAll(o)
           \/ RemoveHandler(o, "rb_remove", "rb_drain")
           \/ RemoveHandler(o, "remove", "drain")
           \/ HandlerRemoved(o, "rb_drain", "rb_remove", "rb_disconnect")
           \/ HandlerRemoved(o, "drain", "remove", "disconnect")
    PROVE  RInv'
<1>1. PICK label \in Keeping \cup {"sample", "none"} : Goto(o, label)
    BY HandlerSteps
<1>2. /\ Exists(o) /\ pc[o] \notin Joining
      /\ UNCHANGED <<hasOwnProcess, inited, connected, peer>>
    BY HandlerSteps DEF Keeping, Joining, joinVars, busVars
<1>3. label \notin Joining \cup {"rb_term", "term"}
    BY DEF Keeping, Joining
<1>4. /\ pc'[o] = label /\ \A p \in Objects \ {o} : pc'[p] = pc[p]
    BY <1>1 DEF Goto, BInv, BusTypes
<1> QED
    BY <1>2, <1>3, <1>4, OnlyOwner, LoneRelease DEF Joining

LEMMA LeavingRInv ==
    ASSUME BInv, RInv, TeardownMayFail = FALSE, NEW o \in Objects,
           \/ Disconnect(o, "rb_disconnect", "rb_term")
           \/ Disconnect(o, "disconnect", "term")
           \/ Term(o, "rb_term", "failed") \/ Term(o, "term", "release")
    PROVE  RInv'
<1> USE DEF Goto, At, others, peerVars, joinVars
<1>1. Exists(o) /\ UNCHANGED peer /\ pc[o] \notin Joining
    BY DEF Disconnect, Term, LeaveBus, Exists, Joining
<1>2. pc \in [Objects -> Labels] /\ hasOwnProcess \in [Objects -> BOOLEAN]
    BY DEF BInv, BusTypes
<1>3. ASSUME NEW here, NEW next \in {"rb_term", "term"}, Disconnect(o, here, next)
      PROVE  RInv'
  <2>1. /\ pc' = [pc EXCEPT ![o] = next] /\ UNCHANGED <<hasOwnProcess, inited>>
        /\ connected' = (connected /\ ~hasOwnProcess[o])
        /\ next \notin Joining
      BY <1>3 DEF Disconnect, Joining
  <2> QED
      BY <1>1, <1>2, <2>1, OnlyOwner, LoneRelease DEF Joining
<1>4. ASSUME NEW here \in {"rb_term", "term"}, NEW next \in {"failed", "release"},
             Term(o, here, next)
      PROVE  RInv'
  <2>1. /\ pc' = [pc EXCEPT ![o] = next] /\ UNCHANGED connected
        /\ hasOwnProcess' = [hasOwnProcess EXCEPT ![o] = FALSE]
        /\ inited' = (inited /\ ~hasOwnProcess[o])
        /\ next \notin Joining \cup {"rb_term", "term"}
      BY <1>4 DEF Term, LeaveBus, Joining
  <2>2. hasOwnProcess[o] => ~connected
      BY <1>4 DEF Term, LeaveBus, RInv
  <2> QED
      BY <1>1, <1>2, <2>1, <2>2, OnlyOwner, LoneRelease DEF Joining
<1> QED
    BY <1>3, <1>4

LEMMA OutsideRInv ==
    ASSUME BInv, RInv, ~raced', PeerStart \/ PeerStop
    PROVE  RInv'
<1>1. UNCHANGED <<pc, hasOwnProcess>>
    BY DEF PeerStart, PeerStop, PeerMoves, joinVars
<1>2. connected' # connected => \A o \in Objects : ~Relying(o)
    BY DEF PeerStart, PeerStop, PeerMoves
<1>3. inited' \/ connected' =>
         \/ peer' = "owner"
         \/ \E o \in Objects : hasOwnProcess[o] \/ pc[o] \in Joining
    BY DEF PeerStart, PeerStop, RInv
<1>4. ASSUME NEW o \in Objects
      PROVE  /\ pc[o] = "bus_connect" => inited'
             /\ pc[o] = "bus_check" => connected'
             /\ hasOwnProcess[o] /\ pc[o] \in {"rb_term", "term"} => ~connected'
  <2>1. pc[o] \in Joining => peer # "owner"
      BY DEF BInv, OneOwner
  <2>2. (pc[o] = "bus_connect" => inited') /\ (pc[o] = "bus_check" => connected')
      BY <2>1 DEF PeerStart, PeerStop, RInv, Joining
  <2>3. hasOwnProcess[o] /\ pc[o] \in {"rb_term", "term"} => ~connected'
      BY <1>2 DEF Relying, RInv
  <2> QED
      BY <2>2, <2>3
<1> QED
    BY <1>1, <1>3, <1>4 DEF RInv, Joining

\* The bus is let go of: when the last user is gone, the process is neither on the
\* bus nor initialised for it, if the bus's calls to join and to leave do not fail.
\* A failed registration, and a handler that cannot be registered, are allowed; the
\* exception is another plugin that left, as the owner, while an object went by a
\* sample that this made stale.
THEOREM BusIsReleased ==
    ASSUME Overlap = FALSE, CheckMayFail = FALSE, ConnectMayFail = FALSE,
           TeardownMayFail = FALSE
    PROVE  Spec => []BusReleased
<1>1. Init => RInv
    BY DEF Init, No, RInv
<1>2. RInv /\ BInv /\ ~raced' /\ [Next]_vars => RInv'
  <2> SUFFICES ASSUME RInv, BInv, ~raced', [Next]_vars PROVE RInv'
      OBVIOUS
  <2>1. ASSUME NEW o \in Objects, Construct(o) PROVE RInv'
      BY <2>1
      DEF Construct, Goto, Exists, BInv, BusTypes, OneOwner, Owning, Keeping,
                  RInv, Joining, busVars, others, peerVars
  <2>2. ASSUME NEW o \in Objects, ConfigureStep(o) \/ Destructor(o) PROVE RInv'
      BY <2>2, ObjectSteps, JoiningRInv, HandlersRInv, LeavingRInv
  <2>3. ASSUME NEW o \in Objects, Configure(o) \/ Destroy(o) PROVE RInv'
      BY <2>3, HandlersRInv
  <2>4. CASE UNCHANGED <<pc, hasOwnProcess, busVars, peer>>
      BY <2>4 DEF RInv, busVars
  <2>5. ASSUME NEW t \in Threads,
               (\E e \in HandlerEvents : Enter(t, e)) \/ ThreadStep(t)
        PROVE  RInv'
      BY <2>5, <2>4 DEF Enter, ThreadStep, Capture, CopyInstance, RunHandler,
                        ThreadOnly, joinVars, peerVars
  <2>6. CASE PeerStart \/ PeerStop
      BY <2>6, OutsideRInv
  <2>7. CASE UNCHANGED vars
      BY <2>7, <2>4 DEF vars, joinVars, others, peerVars
  <2> QED
      BY <2>1, <2>2, <2>3, <2>5, <2>6, <2>7 DEF Next
<1>3. /\ raced \/ BInv
      /\ raced \/ RInv
      /\ [Next]_vars
      => (raced \/ RInv)'
    BY <1>2, RacedStays
<1>4. (raced \/ BInv) /\ (raced \/ RInv) => BusReleased
    BY DEF BInv, OneOwner, RInv, BusReleased, Owning, Keeping, Joining
<1> QED
    BY <1>1, <1>3, <1>4, BusInduction, PTL DEF Spec

-----------------------------------------------------------------------------
\* The bus's handler table, whatever the bus does and however many objects there
\* are at once: every entry is an object's or is stuck.  It takes this to know that
\* DeinitializeIARM never takes out an entry that is not there.

\* The type of pc.
USE DEF Labels

\* How many handlers of object o, from the first on, are registered.
Mine(o) ==
    CASE pc[o] = "register" -> handlersRegistered[o]
      [] pc[o] \in {"verify", "configured"} -> NumHandlers
      [] pc[o] \in {"rb_remove", "remove"} -> left[o]
      [] pc[o] \in {"rb_drain", "drain"} -> left[o] - 1
      [] OTHER -> 0

\* The same, and the one that is out of the table and may still be running.
Watched(o) == IF pc[o] \in {"rb_drain", "drain"} THEN left[o] ELSE Mine(o)

\* The two counters, by label.
Counters(o) ==
    /\ pc[o] \in {"constructed", "sample", "check_first", "bus_init", "bus_connect",
                  "bus_check", "failed", "rb_disconnect", "rb_term"}
          => handlersRegistered[o] = 0
    /\ pc[o] = "register" => handlersRegistered[o] < NumHandlers
    /\ pc[o] \in {"verify", "configured"} => handlersRegistered[o] = NumHandlers
    /\ pc[o] \in {"rb_remove", "rb_drain", "remove", "drain"} => left[o] > 0

\* The objects that have a handler for event e in the table: finitely many, since
\* each got there by a step of its own.
With(e) == {o \in Objects : e <= Mine(o)}

Table ==
    \A e \in HandlerEvents :
        /\ IsFiniteSet(With(e))
        /\ handlers[e] = stuck[e] + Cardinality(With(e))

TInv ==
    /\ TypeOK
    /\ \A o \in Objects : Counters(o)
    /\ Table

-----------------------------------------------------------------------------
\* A step of object o, which leaves the others, the threads and what is stuck.
Elsewhere(o) ==
    \A p \in Objects \ {o} :
        /\ pc'[p] = pc[p] /\ left'[p] = left[p]
        /\ handlersRegistered'[p] = handlersRegistered[p]

StepOf(o) ==
    /\ Exists(o) /\ Elsewhere(o)
    /\ UNCHANGED threadVars
    /\ \A e \in HandlerEvents : stuck'[e] >= stuck[e]
    /\ pc'[o] = "none" => Watched(o) = 0

\* A set counted by one element and the rest.
LEMMA CountByOne ==
    ASSUME NEW S, NEW o, IsFiniteSet(S \ {o})
    PROVE  /\ IsFiniteSet(S)
           /\ Cardinality(S \ {o}) \in Nat
           /\ Cardinality(S) = Cardinality(S \ {o}) + (IF o \in S THEN 1 ELSE 0)
<1>1. Cardinality(S \ {o}) \in Nat
    BY FS_CardinalityType
<1>2. CASE o \in S
  <2>1. S = (S \ {o}) \cup {o}
      BY <1>2
  <2>2. /\ IsFiniteSet((S \ {o}) \cup {o})
        /\ Cardinality((S \ {o}) \cup {o}) = Cardinality(S \ {o}) + 1
      BY FS_AddElement
  <2>3. IsFiniteSet(S) /\ Cardinality(S) = Cardinality(S \ {o}) + 1
      BY <2>1, <2>2, Zenon
  <2> QED
      BY <1>1, <1>2, <2>3
<1>3. CASE o \notin S
  <2>1. S = S \ {o}
      BY <1>3
  <2>2. IsFiniteSet(S) /\ Cardinality(S) = Cardinality(S \ {o})
      BY <2>1, Zenon
  <2> QED
      BY <1>1, <1>3, <2>2
<1> QED
    BY <1>2, <1>3

\* What a step of one object must do to the table: put into it what it adds to its
\* own, and take out of it, or leave stuck, what it takes from its own.
LEMMA TableStep ==
    ASSUME TInv, NEW o \in Objects, TypeOK', Elsewhere(o),
           \A e \in HandlerEvents :
              handlers'[e] - stuck'[e] - (IF e <= Mine(o)' THEN 1 ELSE 0)
                 = handlers[e] - stuck[e] - (IF e <= Mine(o) THEN 1 ELSE 0)
    PROVE  Table'
<1> SUFFICES ASSUME NEW e \in HandlerEvents
             PROVE  /\ IsFiniteSet(With(e)')
                    /\ handlers'[e] = stuck'[e] + Cardinality(With(e)')
    BY DEF Table
<1>1. \A p \in Objects \ {o} : Mine(p)' = Mine(p)
    BY DEF Elsewhere, Mine
<1>2. With(e)' \ {o} = With(e) \ {o}
    BY <1>1 DEF With
<1> DEFINE S == With(e)
           T == With(e)'
<1>3. (o \in S <=> e <= Mine(o)) /\ (o \in T <=> e <= Mine(o)')
    BY DEF With
<1>4. IsFiniteSet(S \ {o}) /\ T \ {o} = S \ {o}
    BY <1>2, FS_RemoveElement DEF TInv, Table
<1> HIDE DEF S, T
<1>5. IsFiniteSet(T \ {o}) /\ Cardinality(T \ {o}) = Cardinality(S \ {o})
    BY <1>4, Zenon
<1>6. /\ Cardinality(S \ {o}) \in Nat
      /\ Cardinality(S) = Cardinality(S \ {o}) + (IF o \in S THEN 1 ELSE 0)
    BY <1>4, CountByOne
<1>7. /\ IsFiniteSet(T)
      /\ Cardinality(T) = Cardinality(T \ {o}) + (IF o \in T THEN 1 ELSE 0)
    BY <1>5, CountByOne
<1>8. handlers[e] = stuck[e] + Cardinality(S)
    BY DEF S, TInv, Table
<1>9. /\ handlers[e] \in Nat /\ stuck[e] \in Nat
      /\ handlers'[e] \in Nat /\ stuck'[e] \in Nat
    BY DEF TInv, TypeOK
<1>10. handlers'[e] = stuck'[e] + Cardinality(T)
    BY <1>3, <1>5, <1>6, <1>7, <1>8, <1>9
<1> QED
    BY <1>7, <1>10 DEF T

\* All in one: a step that neither registers nor removes a handler.
LEMMA TableKept ==
    ASSUME TInv, NEW o \in Objects, TypeOK', Counters(o)', Elsewhere(o),
           UNCHANGED <<tableVars, threadVars>>,
           Exists(o), pc'[o] = "none" => Watched(o) = 0,
           Mine(o)' = Mine(o)
    PROVE  TInv' /\ StepOf(o)
<1>1. \A e \in HandlerEvents :
         handlers[e] \in Nat /\ stuck[e] \in Nat /\ handlers'[e] = handlers[e]
         /\ stuck'[e] = stuck[e]
    BY DEF TInv, TypeOK, tableVars
<1>2. Table'
    BY <1>1, TableStep
<1>3. \A p \in Objects : Counters(p)'
    BY DEF TInv, Counters, Elsewhere
<1> QED
    BY <1>1, <1>2, <1>3 DEF TInv, StepOf

\* The object's own entry is in the table.
LEMMA EntryIsThere ==
    ASSUME TInv, NEW o \in Objects, NEW e \in HandlerEvents, e <= Mine(o)
    PROVE  handlers[e] > stuck[e]
<1>1. o \in With(e) /\ IsFiniteSet(With(e))
    BY DEF With, TInv, Table
<1>2. Cardinality(With(e)) \in Nat /\ Cardinality(With(e)) # 0
    BY <1>1, FS_CardinalityType, FS_EmptySet
<1> QED
    BY <1>2 DEF TInv, Table, TypeOK

-----------------------------------------------------------------------------
\* The steps of the object.  The four kinds: those that leave the table and the
\* counters alone; one registration; the change to teardown; and one removal.

\* Labels at which an object has no handler registered.
Bare == {"constructed", "sample", "check_first", "bus_init", "bus_connect", "bus_check",
         "failed", "rb_disconnect", "rb_term", "disconnect", "term", "release"}

\* Steps between labels at which the object has no handler.
LEMMA BareStep ==
    ASSUME TInv, NEW o \in Objects, pc[o] \in Bare, TypeOK',
           UNCHANGED <<regVars, tableVars, threadVars>>,
           pc' = [pc EXCEPT ![o] = pc'[o]],
           \/ pc'[o] \in Bare \cup {"none"}
           \/ pc'[o] = "register" /\ handlersRegistered[o] = 0,
           pc'[o] \in {"constructed", "sample", "check_first", "bus_init", "bus_connect",
                       "bus_check", "failed", "rb_disconnect", "rb_term"}
              => handlersRegistered[o] = 0
    PROVE  TInv' /\ StepOf(o) /\ Watched(o) = 0
<1>1. Exists(o)
    BY DEF Exists, Bare
<1>2. Mine(o) = 0 /\ Mine(o)' = 0 /\ Watched(o) = 0
    BY DEF Mine, Watched, Bare, regVars
<1>3. Counters(o)'
    BY DEF Counters, Bare, regVars, NumHandlers
<1>4. Elsewhere(o)
    BY DEF Elsewhere, regVars, TInv, TypeOK
<1> QED
    BY <1>1, <1>2, <1>3, <1>4, TableKept

LEMMA ConfiguringTInv ==
    ASSUME TInv, NEW o \in Objects,
           \/ Configure(o) \/ SampleConnected(o) \/ CheckFirst(o)
           \/ TryInit(o) \/ TryConnect(o) \/ CheckConnected(o)
    PROVE  TInv' /\ StepOf(o) /\ Watched(o) = 0
<1>1. /\ UNCHANGED <<instance, regVars, tableVars, peerVars, threadVars>>
      /\ pc[o] \in Bare /\ handlersRegistered[o] = 0
    BY DEF Configure, SampleConnected, CheckFirst, TryInit, TryConnect,
           CheckConnected,
           At, Bare, others, TInv, Counters
<1>2. \E label \in (Configuring \cup {"failed"}) \ {"verify"} : Goto(o, label)
    BY DEF Configure, SampleConnected, CheckFirst, TryInit, TryConnect,
           CheckConnected,
           InitSucceeded, AttemptFailed, Joined, Attempt, GoOn, Configuring
<1>3. /\ pc' = [pc EXCEPT ![o] = pc'[o]]
      /\ pc'[o] \in Bare \cup {"register"}
      /\ pc' \in [Objects -> Labels]
    BY <1>2 DEF Goto, TInv, TypeOK, Bare, Configuring, Resting
<1>4. TypeOK'
  <2>1. /\ alreadyConnected' \in [Objects -> BOOLEAN]
        /\ hasOwnProcess' \in [Objects -> BOOLEAN]
        /\ service' \in [Objects -> BOOLEAN]
    <3>1. alreadyConnected' \in [Objects -> BOOLEAN]
        BY DEF Configure, SampleConnected, CheckFirst, TryInit, TryConnect,
               CheckConnected, joinVars, TInv, TypeOK
    <3>2. hasOwnProcess' \in [Objects -> BOOLEAN]
        BY DEF Configure, SampleConnected, CheckFirst, TryInit, TryConnect,
               CheckConnected, InitSucceeded, AttemptFailed, Joined, Attempt, GoOn,
               joinVars, TInv, TypeOK
    <3>3. service' \in [Objects -> BOOLEAN]
        BY DEF Configure, SampleConnected, CheckFirst, TryInit, TryConnect,
               CheckConnected, InitSucceeded, AttemptFailed, Joined, Attempt, GoOn,
               TInv, TypeOK
    <3> QED
        BY <3>1, <3>2, <3>3
  <2>2. retryCount' \in [Objects -> 0 .. Retries]
    <3>1. \/ UNCHANGED retryCount
          \/ retryCount' = [retryCount EXCEPT ![o] = 0]
          \/ /\ retryCount[o] < Retries
             /\ retryCount' = [retryCount EXCEPT ![o] = retryCount[o] + 1]
        BY DEF Configure, SampleConnected, CheckFirst, TryInit, TryConnect,
               CheckConnected, InitSucceeded, AttemptFailed, Joined, Attempt, GoOn,
               joinVars
    <3>2. retryCount \in [Objects -> 0 .. Retries]
        BY DEF TInv, TypeOK
    <3>3. retryCount[o] < Retries => retryCount[o] + 1 \in 0 .. Retries
        BY <3>2, RetriesAssumption
    <3>4. 0 \in 0 .. Retries
        BY RetriesAssumption
    <3> QED
        BY <3>1, <3>2, <3>3, <3>4
  <2>3. inited' \in BOOLEAN /\ connected' \in BOOLEAN
      BY DEF Configure, SampleConnected, CheckFirst, TryInit, TryConnect,
             CheckConnected,
             BusInit, BusConnect, busVars, TInv, TypeOK
  <2> QED
      BY <1>1, <1>3, <2>1, <2>2, <2>3
      DEF TInv, TypeOK, regVars, tableVars, threadVars, peerVars
<1> QED
    BY <1>1, <1>3, <1>4, BareStep

LEMMA LeavingTInv ==
    ASSUME TInv, NEW o \in Objects,
           \/ Disconnect(o, "rb_disconnect", "rb_term") \/ Term(o, "rb_term", "failed")
           \/ Disconnect(o, "disconnect", "term") \/ Term(o, "term", "release")
           \/ ReleaseAll(o)
    PROVE  TInv' /\ StepOf(o) /\ Watched(o) = 0
<1>1. /\ UNCHANGED <<instance, alreadyConnected, retryCount, regVars, tableVars, peerVars,
                     threadVars>>
      /\ pc[o] \in Bare
      /\ \E label \in {"rb_term", "failed", "term", "release", "none"} :
            /\ Goto(o, label)
            /\ label \in {"rb_term", "failed"} => handlersRegistered[o] = 0
    BY DEF Disconnect, Term, LeaveBus, ReleaseAll, At, Bare, others, joinVars, TInv,
           Counters
<1>2. /\ pc' = [pc EXCEPT ![o] = pc'[o]]
      /\ pc'[o] \in {"rb_term", "failed", "term", "release", "none"}
      /\ pc'[o] \in {"rb_term", "failed"} => handlersRegistered[o] = 0
      /\ pc' \in [Objects -> Labels]
    BY <1>1 DEF Goto, TInv, TypeOK, RollingBack, Destroying, Resting
<1>3. /\ hasOwnProcess' \in [Objects -> BOOLEAN] /\ service' \in [Objects -> BOOLEAN]
    BY DEF Disconnect, Term, LeaveBus, ReleaseAll, joinVars, TInv, TypeOK
<1>4. inited' \in BOOLEAN /\ connected' \in BOOLEAN
    BY DEF Disconnect, Term, LeaveBus, ReleaseAll, busVars, TInv, TypeOK
<1>5. TypeOK'
    BY <1>1, <1>2, <1>3, <1>4 DEF TInv, TypeOK, regVars, tableVars, threadVars, peerVars
<1> QED
    BY <1>1, <1>2, <1>5, BareStep DEF Bare

LEMMA RegisterHandlerTInv ==
    ASSUME TInv, NEW o \in Objects, RegisterHandler(o)
    PROVE  TInv' /\ StepOf(o) /\ Watched(o) <= Watched(o)'
<1> DEFINE e == handlersRegistered[o] + 1
           next == IF e = NumHandlers THEN "verify" ELSE "register"
<1>1. /\ pc[o] = "register" /\ pc' = [pc EXCEPT ![o] = next]
      /\ handlers' = [handlers EXCEPT ![e] = @ + 1]
      /\ handlersRegistered' = [handlersRegistered EXCEPT ![o] = e]
      /\ UNCHANGED <<instance, joinVars, left, service, busVars, stuck, peerVars, threadVars>>
    BY DEF RegisterHandler, At, Goto, others
<1>2. e \in HandlerEvents /\ handlersRegistered[o] \in Nat
    BY <1>1 DEF TInv, Counters, TypeOK, HandlerEvents, NumHandlers
<1>3. /\ pc'[o] = next /\ handlersRegistered'[o] = e
      /\ Elsewhere(o)
    BY <1>1 DEF TInv, TypeOK, Elsewhere
<1> HIDE DEF e
<1>4. /\ Mine(o) = e - 1 /\ Watched(o) = e - 1
      /\ Mine(o)' = e /\ Watched(o)' = e
    BY <1>1, <1>2, <1>3 DEF Mine, Watched, HandlerEvents, e
<1>5. Counters(o)'
    BY <1>2, <1>3 DEF Counters, HandlerEvents, NumHandlers
<1>6. TypeOK'
  <2>1. pc' \in [Objects -> Labels]
      BY <1>1 DEF TInv, TypeOK, Configuring
  <2>2. handlers' \in [HandlerEvents -> Nat] /\ stuck' \in [HandlerEvents -> Nat]
      BY <1>1, <1>2 DEF TInv, TypeOK
  <2>3. /\ handlersRegistered' \in [Objects -> 0 .. NumHandlers]
        /\ left' \in [Objects -> 0 .. NumHandlers]
      BY <1>1, <1>2 DEF TInv, TypeOK, HandlerEvents, NumHandlers
  <2> QED
      BY <1>1, <2>1, <2>2, <2>3 DEF TInv, TypeOK, joinVars, busVars, threadVars, peerVars
<1>7. \A f \in HandlerEvents :
         /\ stuck'[f] >= stuck[f]
         /\ handlers'[f] - stuck'[f] - (IF f <= Mine(o)' THEN 1 ELSE 0)
               = handlers[f] - stuck[f] - (IF f <= Mine(o) THEN 1 ELSE 0)
  <2> SUFFICES ASSUME NEW f \in HandlerEvents
               PROVE  /\ stuck'[f] >= stuck[f]
                      /\ handlers'[f] - stuck'[f] - (IF f <= Mine(o)' THEN 1 ELSE 0)
                            = handlers[f] - stuck[f] - (IF f <= Mine(o) THEN 1 ELSE 0)
      OBVIOUS
  <2>1. /\ handlers'[f] = IF f = e THEN handlers[f] + 1 ELSE handlers[f]
        /\ handlers[f] \in Nat /\ stuck[f] \in Nat
      BY <1>1, <1>2 DEF TInv, TypeOK
  <2> QED
      BY <1>1, <1>2, <1>4, <2>1 DEF HandlerEvents
<1>8. TInv'
    BY <1>3, <1>5, <1>6, <1>7, TableStep DEF TInv, Counters, Elsewhere
<1>9. StepOf(o)
    BY <1>1, <1>3, <1>7 DEF StepOf, Exists
<1> QED
    BY <1>2, <1>4, <1>8, <1>9 DEF HandlerEvents

\* Steps that only decide what comes next: what is registered stays registered.
LEMMA TurningTInv ==
    ASSUME TInv, NEW o \in Objects,
           RegisterHandlerFails(o) \/ Verify(o) \/ Destroy(o)
    PROVE  TInv' /\ StepOf(o) /\ Watched(o)' = Watched(o)
<1>1. UNCHANGED <<joinVars, handlersRegistered, service, busVars, tableVars, peerVars,
                  threadVars>>
    BY DEF RegisterHandlerFails, Verify, Destroy, BeginDestructor, others
<1>2. /\ handlersRegistered[o] \in 0 .. NumHandlers
      /\ pc[o] \in {"constructed", "failed"} => handlersRegistered[o] = 0
      /\ pc[o] = "register" => handlersRegistered[o] < NumHandlers
      /\ pc[o] \in {"verify", "configured"} => handlersRegistered[o] = NumHandlers
    BY DEF TInv, Counters, TypeOK
<1>3. ASSUME NEW a \in {"rb_remove", "remove"}, NEW b \in {"rb_disconnect", "disconnect"},
             BeginDeinitialize(o, a, b),
             a = "rb_remove" <=> b = "rb_disconnect",
             instance' \in Objects \cup {None},
             pc[o] \in {"constructed", "failed", "register", "verify", "configured"}
      PROVE  TInv' /\ StepOf(o) /\ Watched(o)' = Watched(o)
  <2>1. /\ pc'[o] = IF handlersRegistered[o] > 0 THEN a ELSE b
        /\ left'[o] = handlersRegistered[o]
        /\ Elsewhere(o)
      BY <1>1, <1>3 DEF BeginDeinitialize, Goto, Elsewhere, TInv, TypeOK
  <2>2. Mine(o) = handlersRegistered[o] /\ Watched(o) = handlersRegistered[o]
      BY <1>2, <1>3 DEF Mine, Watched
  <2>3. Mine(o)' = handlersRegistered[o] /\ Watched(o)' = handlersRegistered[o]
      BY <1>2, <1>3, <2>1 DEF Mine, Watched
  <2>4. Counters(o)'
      BY <1>1, <1>2, <1>3, <2>1 DEF Counters
  <2>5. TypeOK'
    <3>1. /\ left' \in [Objects -> 0 .. NumHandlers]
          /\ pc' \in [Objects -> Labels]
        BY <1>2, <1>3
        DEF BeginDeinitialize, Goto, TInv, TypeOK, RollingBack, Destroying
    <3> QED
        BY <1>1, <1>3, <3>1
        DEF TInv, TypeOK, joinVars, busVars, tableVars, threadVars, peerVars
  <2>6. Exists(o) /\ pc'[o] # "none"
      BY <1>3, <2>1 DEF Exists
  <2> QED
      BY <1>1, <2>1, <2>2, <2>3, <2>4, <2>5, <2>6, TableKept
<1>4. CASE RegisterHandlerFails(o)
    BY <1>3, <1>4 DEF RegisterHandlerFails, At, TInv, TypeOK
<1>5. CASE Destroy(o)
    BY <1>3, <1>5 DEF Destroy, BeginDestructor
<1>6. CASE Verify(o)
  <2>1. CASE Goto(o, "configured") /\ UNCHANGED left
    <3>1. /\ pc[o] = "verify" /\ pc'[o] = "configured" /\ Elsewhere(o)
          /\ UNCHANGED instance
        BY <1>1, <1>6, <2>1 DEF Verify, At, Goto, Elsewhere, TInv, TypeOK
    <3>2. TypeOK'
        BY <1>1, <2>1, <3>1
        DEF Goto, TInv, TypeOK, Resting, joinVars, busVars, tableVars, threadVars, peerVars
    <3>3. /\ Mine(o)' = Mine(o) /\ Watched(o)' = Watched(o)
          /\ Counters(o)' /\ Exists(o)
        BY <1>1, <1>2, <3>1 DEF Mine, Watched, Counters, Exists
    <3> QED
        BY <1>1, <3>1, <3>2, <3>3, TableKept
  <2>2. CASE BeginDeinitialize(o, "rb_remove", "rb_disconnect")
      BY <1>3, <1>6, <2>2 DEF Verify, At, TInv, TypeOK
  <2> QED
      BY <1>6, <2>1, <2>2 DEF Verify
<1> QED
    BY <1>4, <1>5, <1>6

\* The entry is out of the table, or stuck in it.
LEMMA RemoveHandlerTInv ==
    ASSUME TInv, NEW o \in Objects,
           RemoveHandler(o, "rb_remove", "rb_drain") \/ RemoveHandler(o, "remove", "drain")
    PROVE  TInv' /\ StepOf(o) /\ Watched(o)' = Watched(o)
<1> DEFINE k == left[o]
<1>1. /\ pc[o] \in {"rb_remove", "remove"}
      /\ \E label \in {"rb_drain", "drain"} : pc' = [pc EXCEPT ![o] = label]
      /\ UNCHANGED <<instance, joinVars, regVars, service, busVars, peerVars, threadVars>>
      /\ \/ handlers' = [handlers EXCEPT ![k] = @ - 1] /\ UNCHANGED stuck
         \/ stuck' = [stuck EXCEPT ![k] = @ + 1] /\ UNCHANGED handlers
    BY DEF RemoveHandler, At, Goto, others
<1>2. k \in HandlerEvents
    BY <1>1 DEF TInv, Counters, TypeOK, HandlerEvents, NumHandlers
<1>3. pc'[o] \in {"rb_drain", "drain"} /\ Elsewhere(o)
    BY <1>1 DEF TInv, TypeOK, Elsewhere, regVars
<1>4. /\ Mine(o) = k /\ Watched(o) = k
      /\ Mine(o)' = k - 1 /\ Watched(o)' = k
    BY <1>1, <1>3 DEF Mine, Watched, regVars
<1>5. Counters(o)'
    BY <1>1, <1>2, <1>3 DEF Counters, regVars, HandlerEvents
<1> HIDE DEF k
<1>6. \A e \in HandlerEvents :
         /\ stuck'[e] >= stuck[e] /\ stuck'[e] \in Nat /\ handlers'[e] \in Nat
         /\ handlers'[e] - stuck'[e] - (IF e <= Mine(o)' THEN 1 ELSE 0)
               = handlers[e] - stuck[e] - (IF e <= Mine(o) THEN 1 ELSE 0)
  <2> SUFFICES ASSUME NEW e \in HandlerEvents
               PROVE  /\ stuck'[e] >= stuck[e]
                      /\ stuck'[e] \in Nat /\ handlers'[e] \in Nat
                      /\ handlers'[e] - stuck'[e] - (IF e <= Mine(o)' THEN 1 ELSE 0)
                            = handlers[e] - stuck[e] - (IF e <= Mine(o) THEN 1 ELSE 0)
      OBVIOUS
  <2>1. /\ handlers[e] \in Nat /\ stuck[e] \in Nat
        /\ e = k => handlers[e] > stuck[e]
      BY <1>2, <1>4, EntryIsThere DEF TInv, TypeOK, HandlerEvents
  <2>2. \/ /\ handlers'[e] = IF e = k THEN handlers[e] - 1 ELSE handlers[e]
           /\ stuck'[e] = stuck[e]
        \/ /\ stuck'[e] = IF e = k THEN stuck[e] + 1 ELSE stuck[e]
           /\ handlers'[e] = handlers[e]
      BY <1>1, <1>2 DEF TInv, TypeOK
  <2> QED
      BY <1>2, <1>4, <2>1, <2>2 DEF HandlerEvents
<1>7. TypeOK'
  <2>1. handlers' \in [HandlerEvents -> Nat] /\ stuck' \in [HandlerEvents -> Nat]
      BY <1>1, <1>6 DEF TInv, TypeOK
  <2>2. pc' \in [Objects -> Labels]
      BY <1>1 DEF TInv, TypeOK, RollingBack, Destroying
  <2> QED
      BY <1>1, <2>1, <2>2 DEF TInv, TypeOK, joinVars, regVars, busVars, threadVars, peerVars
<1>8. TInv'
    BY <1>3, <1>5, <1>6, <1>7, TableStep DEF TInv, Counters, Elsewhere
<1>9. StepOf(o)
    BY <1>1, <1>3, <1>6 DEF StepOf, Exists
<1> QED
    BY <1>4, <1>8, <1>9

\* RemoveEventHandler returns: the object is done with that handler.
LEMMA HandlerRemovedTInv ==
    ASSUME TInv, NEW o \in Objects,
           \/ HandlerRemoved(o, "rb_drain", "rb_remove", "rb_disconnect")
           \/ HandlerRemoved(o, "drain", "remove", "disconnect")
    PROVE  TInv' /\ StepOf(o) /\ Watched(o) = left[o] /\ Watched(o)' = left[o] - 1
<1> DEFINE k == left[o]
<1>1. /\ pc[o] \in {"rb_drain", "drain"}
      /\ \E a \in {"rb_remove", "remove"}, b \in {"rb_disconnect", "disconnect"} :
            pc' = [pc EXCEPT ![o] = IF k > 1 THEN a ELSE b]
      /\ left' = [left EXCEPT ![o] = @ - 1]
      /\ handlersRegistered' = [handlersRegistered EXCEPT ![o] = IF k > 1 THEN @ ELSE 0]
      /\ UNCHANGED <<instance, joinVars, service, busVars, tableVars, peerVars, threadVars>>
    BY DEF HandlerRemoved, At, Goto, others
<1>2. k \in HandlerEvents
    BY <1>1 DEF TInv, Counters, TypeOK, HandlerEvents, NumHandlers
<1>3. /\ pc'[o] \in (IF k > 1 THEN {"rb_remove", "remove"}
                              ELSE {"rb_disconnect", "disconnect"})
      /\ left'[o] = k - 1
      /\ k = 1 => handlersRegistered'[o] = 0
      /\ Elsewhere(o)
    BY <1>1, <1>2 DEF TInv, TypeOK, Elsewhere, HandlerEvents
<1> HIDE DEF k
<1>4. /\ Mine(o) = k - 1 /\ Watched(o) = k
      /\ Mine(o)' = k - 1 /\ Watched(o)' = k - 1
    BY <1>1, <1>2, <1>3 DEF Mine, Watched, HandlerEvents, k
<1>5. Counters(o)'
    BY <1>2, <1>3 DEF Counters, HandlerEvents
<1>6. TypeOK'
  <2>1. /\ left' \in [Objects -> 0 .. NumHandlers]
        /\ handlersRegistered' \in [Objects -> 0 .. NumHandlers]
      BY <1>1, <1>2 DEF TInv, TypeOK, HandlerEvents, NumHandlers, k
  <2>2. pc' \in [Objects -> Labels]
      BY <1>1 DEF TInv, TypeOK, RollingBack, Destroying
  <2> QED
      BY <1>1, <2>1, <2>2 DEF TInv, TypeOK, joinVars, busVars, tableVars, threadVars, peerVars
<1>7. Exists(o) /\ pc'[o] # "none"
    BY <1>1, <1>3 DEF Exists
<1>8. TInv' /\ StepOf(o)
    BY <1>1, <1>3, <1>4, <1>5, <1>6, <1>7, TableKept
<1> QED
    BY <1>4, <1>8 DEF k

-----------------------------------------------------------------------------
\* A new object starts with nothing registered.
LEMMA ConstructTInv ==
    ASSUME TInv, NEW o \in Objects, Construct(o)
    PROVE  TInv'
<1>1. /\ pc[o] = "none" /\ pc' = [pc EXCEPT ![o] = "constructed"]
      /\ handlersRegistered' = [handlersRegistered EXCEPT ![o] = 0]
      /\ UNCHANGED <<left, tableVars, others, busVars, retryCount>>
    BY DEF Construct, At, Goto
<1>2. pc'[o] = "constructed" /\ handlersRegistered'[o] = 0 /\ Elsewhere(o)
    BY <1>1 DEF Elsewhere, TInv, TypeOK
<1>3. Mine(o) = 0 /\ Mine(o)' = 0
    BY <1>1, <1>2 DEF Mine
<1>4. TypeOK'
  <2>1. pc' \in [Objects -> Labels]
      BY <1>1 DEF TInv, TypeOK, Resting
  <2>2. /\ handlersRegistered' \in [Objects -> 0 .. NumHandlers]
        /\ left' \in [Objects -> 0 .. NumHandlers]
      BY <1>1 DEF TInv, TypeOK, NumHandlers
  <2>3. /\ alreadyConnected' \in [Objects -> BOOLEAN]
        /\ hasOwnProcess' \in [Objects -> BOOLEAN]
        /\ service' \in [Objects -> BOOLEAN]
        /\ instance' \in Objects \cup {None}
      BY DEF Construct, TInv, TypeOK
  <2> QED
      BY <1>1, <2>1, <2>2, <2>3
      DEF TInv, TypeOK, busVars, tableVars, others, threadVars, peerVars
<1>5. \A p \in Objects : Counters(p)'
    BY <1>2 DEF TInv, Counters, Elsewhere
<1>6. Table'
    BY <1>1, <1>2, <1>3, <1>4, TableStep DEF TInv, TypeOK, tableVars
<1> QED
    BY <1>4, <1>5, <1>6 DEF TInv

\* The table and the counters do not change.
LEMMA OutsideTInv ==
    ASSUME TInv, TypeOK', UNCHANGED <<pc, regVars, tableVars>>
    PROVE  /\ TInv'
           /\ \A o \in Objects : Mine(o)' = Mine(o) /\ Watched(o)' = Watched(o)
<1>1. \A o \in Objects : Mine(o)' = Mine(o) /\ Watched(o)' = Watched(o)
    BY DEF Mine, Watched, regVars
<1>2. \A e \in HandlerEvents : With(e)' = With(e)
    BY <1>1 DEF With
<1>3. Table'
    BY <1>2 DEF TInv, Table, tableVars
<1> QED
    BY <1>1, <1>3 DEF TInv, Counters, regVars

LEMMA ThreadTInv ==
    ASSUME TInv, NEW t \in Threads,
           (\E e \in HandlerEvents : Enter(t, e)) \/ ThreadStep(t)
    PROVE  TInv'
<1>1. UNCHANGED <<instance, pc, joinVars, regVars, service, busVars, tableVars, peerVars>>
    BY DEF Enter, ThreadStep, Capture, CopyInstance, RunHandler, ThreadOnly
<1>2. TypeOK'
  <2>1. tpc' \in [Threads -> {"idle", "entered", "captured"}]
      BY DEF Enter, ThreadStep, Capture, CopyInstance, RunHandler, TInv, TypeOK
  <2>2. dispatched' \in [Threads -> HandlerEvents]
      BY DEF Enter, ThreadStep, Capture, CopyInstance, RunHandler, TInv, TypeOK
  <2>3. captured' \in [Threads -> Objects \cup {None}]
      BY DEF Enter, ThreadStep, Capture, CopyInstance, RunHandler, TInv, TypeOK
  <2> QED
      BY <1>1, <2>1, <2>2, <2>3
      DEF TInv, TypeOK, joinVars, regVars, busVars, tableVars, peerVars
<1> QED
    BY <1>1, <1>2, OutsideTInv

LEMMA PeerTInv ==
    ASSUME TInv, PeerStart \/ PeerStop \/ UNCHANGED vars
    PROVE  TInv'
<1>1. UNCHANGED <<instance, pc, joinVars, regVars, service, tableVars, threadVars>>
    BY DEF PeerStart, PeerStop, PeerMoves, vars, others
<1>2. TypeOK'
  <2>1. /\ inited' \in BOOLEAN /\ connected' \in BOOLEAN
        /\ peer' \in {"absent", "user", "owner"} /\ raced' \in BOOLEAN
      BY DEF PeerStart, PeerStop, PeerMoves, vars, others, peerVars, busVars, TInv,
             TypeOK
  <2> QED
      BY <1>1, <2>1 DEF TInv, TypeOK, joinVars, regVars, tableVars, threadVars
<1> QED
    BY <1>1, <1>2, OutsideTInv

LEMMA TableInduction == Spec => []TInv
<1>1. Init => TInv
  <2> SUFFICES ASSUME Init PROVE TInv
      OBVIOUS
  <2>1. \A o \in Objects : Counters(o) /\ Mine(o) = 0
      BY DEF Init, Counters, Mine
  <2>2. Table
    <3>1. \A e \in HandlerEvents : With(e) = {}
        BY <2>1 DEF With, HandlerEvents
    <3> QED
        BY <3>1, FS_EmptySet DEF Init, Table
  <2>3. TypeOK
    <3>1. /\ pc \in [Objects -> Labels]
          /\ instance \in Objects \cup {None}
        BY DEF Init, Resting
    <3>2. {alreadyConnected, hasOwnProcess, service} \subseteq [Objects -> BOOLEAN]
        BY DEF Init, No
    <3>3. /\ retryCount \in [Objects -> 0 .. Retries]
          /\ {handlersRegistered, left} \subseteq [Objects -> 0 .. NumHandlers]
      <4>1. 0 \in 0 .. Retries /\ 0 \in 0 .. NumHandlers
          BY RetriesAssumption DEF NumHandlers
      <4>2. retryCount \in [Objects -> 0 .. Retries]
          BY <4>1 DEF Init
      <4>3. handlersRegistered \in [Objects -> 0 .. NumHandlers]
          BY <4>1 DEF Init
      <4>4. left \in [Objects -> 0 .. NumHandlers]
          BY <4>1 DEF Init
      <4> QED
          BY <4>2, <4>3, <4>4
    <3>4. /\ {inited, connected} \subseteq BOOLEAN
          /\ {handlers, stuck} \subseteq [HandlerEvents -> Nat]
          /\ peer \in {"absent", "user", "owner"} /\ raced \in BOOLEAN
      <4>1. handlers \in [HandlerEvents -> Nat]
          BY DEF Init
      <4>2. stuck \in [HandlerEvents -> Nat]
          BY DEF Init
      <4> QED
          BY <4>1, <4>2 DEF Init
    <3>5. /\ tpc \in [Threads -> {"idle", "entered", "captured"}]
          /\ captured \in [Threads -> Objects \cup {None}]
          /\ dispatched \in [Threads -> HandlerEvents]
        BY DEF Init, HandlerEvents, NumHandlers
    <3> QED
        BY <3>1, <3>2, <3>3, <3>4, <3>5 DEF TypeOK
  <2> QED
      BY <2>1, <2>2, <2>3 DEF TInv
<1>2. TInv /\ [Next]_vars => TInv'
  <2> SUFFICES ASSUME TInv, [Next]_vars PROVE TInv'
      OBVIOUS
  <2>1. ASSUME NEW o \in Objects,
               \/ Construct(o) \/ Configure(o) \/ ConfigureStep(o)
               \/ Destroy(o) \/ Destructor(o)
        PROVE  TInv'
      BY <2>1, ConstructTInv, ConfiguringTInv, RegisterHandlerTInv, TurningTInv,
         RemoveHandlerTInv, HandlerRemovedTInv, LeavingTInv
      DEF ConfigureStep, Rollback, Destructor
  <2>2. ASSUME NEW t \in Threads,
               (\E e \in HandlerEvents : Enter(t, e)) \/ ThreadStep(t)
        PROVE  TInv'
      BY <2>2, ThreadTInv
  <2>3. CASE PeerStart \/ PeerStop \/ UNCHANGED vars
      BY <2>3, PeerTInv
  <2> QED
      BY <2>1, <2>2, <2>3 DEF Next
<1> QED
    BY <1>1, <1>2, PTL DEF Spec

\* Type correctness, with every freedom of the bus and any number of objects at
\* once.  That no count of the handler table goes below zero is what it says of the
\* code: DeinitializeIARM removes what InitializeIARM registered, and once only.
THEOREM TypeCorrect == Spec => []TypeOK
<1>1. TInv => TypeOK
    BY DEF TInv
<1> QED
    BY <1>1, TableInduction, PTL

-----------------------------------------------------------------------------
\* The handlers, when objects do not overlap: a thread in the handler keeps the
\* destructor from passing it.  That is why no handler runs on a destroyed object.

\* One object at a time.
LEMMA OneAtATime ==
    ASSUME Overlap = FALSE
    PROVE  Spec => []Alone
<1>1. Init => Alone
    BY DEF Init, Alone, Exists
<1>2. Alone /\ TInv /\ [Next]_vars => Alone'
  <2> SUFFICES ASSUME Alone, TInv, [Next]_vars PROVE Alone'
      OBVIOUS
  <2>1. ASSUME NEW o \in Objects, Construct(o) PROVE Alone'
      BY <2>1 DEF Construct, Goto, Alone, Exists, TInv, TypeOK
  <2>2. ASSUME NEW o \in Objects,
               Configure(o) \/ ConfigureStep(o) \/ Destroy(o) \/ Destructor(o)
        PROVE  Alone'
    <3>1. StepOf(o)
        BY <2>2, ConfiguringTInv, RegisterHandlerTInv, TurningTInv,
           RemoveHandlerTInv, HandlerRemovedTInv, LeavingTInv
        DEF ConfigureStep, Rollback, Destructor
    <3> QED
        BY <3>1 DEF StepOf, Elsewhere, Alone, Exists
  <2>3. CASE UNCHANGED pc
      BY <2>3 DEF Alone, Exists
  <2> QED
      BY <2>1, <2>2, <2>3 DEF Next, Enter, ThreadStep, Capture, CopyInstance,
                              RunHandler, ThreadOnly, PeerStart, PeerStop, PeerMoves,
                              vars
<1> QED
    BY <1>1, <1>2, TableInduction, PTL DEF Spec

\* A thread in the handler is in one that the object is not done with, or in one
\* that could not be removed.
Watching ==
    \A t \in Threads : tpc[t] # "idle" =>
        \/ stuck[dispatched[t]] > 0
        \/ \E o \in Objects : dispatched[t] <= Watched(o)

HInv ==
    /\ Watching
    /\ \A t \in Threads : tpc[t] = "captured" => captured[t] # None
    /\ NoUseAfterDestroy

\* What a step of the one object must do to the threads.
LEMMA ObjectStep ==
    ASSUME TInv, TInv', Alone, HInv, NEW o \in Objects, StepOf(o),
           \A t \in Threads :
              tpc[t] # "idle" /\ dispatched[t] <= Watched(o)
                 => stuck'[dispatched[t]] > 0 \/ dispatched[t] <= Watched(o)'
    PROVE  HInv'
<1>1. ASSUME NEW p \in Objects \ {o}
      PROVE  ~Exists(p) /\ ~Exists(p)' /\ Watched(p) = 0 /\ Watched(p)' = 0
    BY <1>1 DEF Alone, StepOf, Elsewhere, Exists, Mine, Watched
<1>3. \A t \in Threads : dispatched[t] \in HandlerEvents
    BY DEF TInv, TypeOK
<1>4. \A e \in HandlerEvents : stuck[e] > 0 => stuck'[e] > 0
    BY DEF StepOf, TInv, TypeOK
<1>5. Watching'
  <2> SUFFICES ASSUME NEW t \in Threads, tpc[t] # "idle"
               PROVE  \/ stuck'[dispatched[t]] > 0
                      \/ \E p \in Objects : dispatched[t] <= Watched(p)'
      BY DEF Watching, StepOf, threadVars
  <2>1. \/ stuck[dispatched[t]] > 0
        \/ \E p \in Objects : dispatched[t] <= Watched(p)
      BY DEF HInv, Watching
  <2>2. \/ stuck[dispatched[t]] > 0
        \/ dispatched[t] <= Watched(o)
      BY <1>1, <1>3, <2>1 DEF HandlerEvents
  <2> QED
      BY <1>3, <1>4, <2>2
<1>6. NoUseAfterDestroy'
  <2> SUFFICES ASSUME NEW t \in Threads, tpc[t] = "captured"
               PROVE  Exists(captured[t])' \/ stuck'[dispatched[t]] > 0
      BY DEF NoUseAfterDestroy, StepOf, threadVars
  <2>1. CASE stuck[dispatched[t]] > 0
      BY <1>3, <1>4, <2>1
  <2>2. CASE ~(stuck[dispatched[t]] > 0)
    <3>1. Exists(captured[t]) /\ captured[t] \in Objects
        BY <2>2 DEF HInv, NoUseAfterDestroy, TInv, TypeOK
    <3>2. captured[t] = o
        BY <3>1 DEF Alone, StepOf
    <3>3. dispatched[t] <= Watched(o)
        BY <1>1, <1>3, <2>2 DEF HInv, Watching, HandlerEvents
    <3>4. pc'[o] # "none"
        BY <1>3, <3>3 DEF StepOf, HandlerEvents
    <3> QED
        BY <3>2, <3>4 DEF Exists, StepOf, threadVars
  <2> QED
      BY <2>1, <2>2
<1> QED
    BY <1>5, <1>6 DEF HInv, StepOf, threadVars

\* The object does not let go of a handler.
LEMMA HoldsOn ==
    ASSUME TInv, TInv', Alone, HInv, NEW o \in Objects, StepOf(o),
           Watched(o) \in Int, Watched(o)' \in Int,
           Watched(o) <= Watched(o)' \/ Watched(o) = 0
    PROVE  HInv'
<1>1. \A t \in Threads : dispatched[t] \in HandlerEvents
    BY DEF TInv, TypeOK
<1> QED
    BY <1>1, ObjectStep DEF HandlerEvents

LEMMA WatchedType ==
    ASSUME TInv, NEW o \in Objects
    PROVE  Watched(o) \in Int /\ Mine(o) \in Int /\ Mine(o) <= Watched(o)
BY DEF Watched, Mine, TInv, TypeOK, NumHandlers

LEMMA ObjectHInv ==
    ASSUME TInv, Alone, HInv, NEW o \in Objects,
           \/ Configure(o) \/ SampleConnected(o) \/ CheckFirst(o)
           \/ TryInit(o) \/ TryConnect(o) \/ CheckConnected(o)
           \/ RegisterHandler(o)
           \/ RegisterHandlerFails(o) \/ Verify(o) \/ Destroy(o)
           \/ RemoveHandler(o, "rb_remove", "rb_drain")
           \/ RemoveHandler(o, "remove", "drain")
           \/ Disconnect(o, "rb_disconnect", "rb_term") \/ Term(o, "rb_term", "failed")
           \/ Disconnect(o, "disconnect", "term") \/ Term(o, "term", "release")
           \/ ReleaseAll(o)
    PROVE  HInv'
<1>1. /\ TInv' /\ StepOf(o)
      /\ Watched(o) <= Watched(o)' \/ Watched(o)' = Watched(o) \/ Watched(o) = 0
    BY ConfiguringTInv, RegisterHandlerTInv, TurningTInv, RemoveHandlerTInv,
       LeavingTInv
<1>2. Watched(o) \in Int
    BY WatchedType
<1>3. Watched(o)' \in Int
    BY <1>1 DEF Watched, Mine, TInv, TypeOK, NumHandlers
<1> QED
    BY <1>1, <1>2, <1>3, HoldsOn

\* The bus has waited: no thread is in the handler that went out of the table.
LEMMA HandlerRemovedHInv ==
    ASSUME TInv, Alone, HInv, RemoveWaits = TRUE, NEW o \in Objects,
           \/ HandlerRemoved(o, "rb_drain", "rb_remove", "rb_disconnect")
           \/ HandlerRemoved(o, "drain", "remove", "disconnect")
    PROVE  HInv'
<1> DEFINE k == left[o]
<1>1. /\ TInv' /\ StepOf(o)
      /\ Watched(o) = k /\ Watched(o)' = k - 1
    BY HandlerRemovedTInv
<1>2. /\ pc[o] \in {"rb_drain", "drain"}
      /\ handlers[k] = 0 => \A t \in Threads : tpc[t] = "idle" \/ dispatched[t] # k
      /\ UNCHANGED tableVars
    BY DEF HandlerRemoved, At
<1>3. k \in HandlerEvents
    BY <1>2 DEF TInv, Counters, TypeOK, HandlerEvents, NumHandlers
<1>4. handlers[k] = 0 \/ stuck[k] > 0
  <2>1. With(k) = {}
    <3>1. Mine(o) = k - 1
        BY <1>2 DEF Mine
    <3>2. \A p \in Objects \ {o} : Mine(p) = 0
        BY <1>2 DEF Alone, Exists, Mine
    <3> QED
        BY <1>3, <3>1, <3>2 DEF With, HandlerEvents
  <2>2. handlers[k] = stuck[k] /\ stuck[k] \in Nat
      BY <1>3, <2>1, FS_EmptySet DEF TInv, Table, TypeOK
  <2> QED
      BY <2>2
<1>5. ASSUME NEW t \in Threads, tpc[t] # "idle", dispatched[t] <= Watched(o)
      PROVE  stuck'[dispatched[t]] > 0 \/ dispatched[t] <= Watched(o)'
  <2>1. dispatched[t] \in HandlerEvents
      BY DEF TInv, TypeOK
  <2>2. CASE dispatched[t] = k
      BY <1>2, <1>4, <1>5, <2>2 DEF tableVars
  <2>3. CASE dispatched[t] # k
      BY <1>1, <1>3, <1>5, <2>1, <2>3 DEF HandlerEvents
  <2> QED
      BY <2>2, <2>3
<1> QED
    BY <1>1, <1>5, ObjectStep

\* A new object starts alone and with nothing registered.
LEMMA ConstructHInv ==
    ASSUME TInv, Alone, HInv, Overlap = FALSE, NEW o \in Objects, Construct(o)
    PROVE  HInv'
<1>1. /\ pc' = [pc EXCEPT ![o] = "constructed"]
      /\ UNCHANGED <<tableVars, others>>
      /\ \A p \in Objects : ~Exists(p)
    BY DEF Construct, Goto, Exists
<1>2. \A p \in Objects : Watched(p) = 0
    BY <1>1 DEF Watched, Mine, Exists
<1>4. ASSUME NEW t \in Threads, tpc[t] # "idle" PROVE stuck[dispatched[t]] > 0
    BY <1>2, <1>4 DEF HInv, Watching, TInv, TypeOK, HandlerEvents
<1>5. Watching' /\ NoUseAfterDestroy'
    BY <1>1, <1>4 DEF Watching, NoUseAfterDestroy, tableVars, others, threadVars
<1> QED
    BY <1>1, <1>5 DEF HInv, others, threadVars

\* A thread is called for an event in the table only, and takes the pointer to an
\* object that has not begun to die.
LEMMA ThreadHInv ==
    ASSUME TInv, TInv', HInv, InstanceNotDestroyed, NEW t \in Threads,
           (\E e \in HandlerEvents : Enter(t, e)) \/ ThreadStep(t)
    PROVE  HInv'
<1>1. /\ UNCHANGED <<instance, pc, regVars, tableVars>>
      /\ \A u \in Threads \ {t} :
            /\ tpc'[u] = tpc[u] /\ dispatched'[u] = dispatched[u]
            /\ captured'[u] = captured[u]
    BY DEF Enter, ThreadStep, Capture, CopyInstance, RunHandler, ThreadOnly, TInv,
           TypeOK
<1>2. \A o \in Objects : Watched(o)' = Watched(o)
    BY <1>1, OutsideTInv DEF TInv
<1>3. tpc'[t] # "idle" =>
         \/ stuck[dispatched'[t]] > 0
         \/ \E o \in Objects : dispatched'[t] <= Watched(o)
  <2>1. CASE \E e \in HandlerEvents : Enter(t, e)
    <3>1. PICK e \in HandlerEvents : handlers[e] > 0 /\ dispatched'[t] = e
        BY <2>1 DEF Enter, TInv, TypeOK
    <3>2. CASE With(e) = {}
        BY <3>1, <3>2, FS_EmptySet DEF TInv, Table, TypeOK
    <3>3. CASE With(e) # {}
        BY <3>1, <3>3, WatchedType DEF With, HandlerEvents
    <3> QED
        BY <3>2, <3>3
  <2>2. CASE ThreadStep(t)
    <3>1. tpc[t] # "idle" /\ dispatched'[t] = dispatched[t]
        BY <2>2 DEF ThreadStep, Capture, CopyInstance, RunHandler
    <3> QED
        BY <3>1 DEF HInv, Watching
  <2> QED
      BY <2>1, <2>2
<1>4. Watching'
    BY <1>1, <1>2, <1>3 DEF HInv, Watching, tableVars
<1>5. tpc'[t] = "captured" => captured'[t] = instance /\ instance # None
    BY DEF Enter, ThreadStep, Capture, CopyInstance, RunHandler, TInv, TypeOK
<1>6. NoUseAfterDestroy'
  <2>1. tpc'[t] = "captured" => Exists(captured'[t])
      BY <1>5 DEF InstanceNotDestroyed, Exists
  <2> QED
      BY <1>1, <2>1 DEF HInv, NoUseAfterDestroy, Exists, tableVars
<1> QED
    BY <1>1, <1>4, <1>5, <1>6 DEF HInv

LEMMA PeerHInv ==
    ASSUME TInv, TInv', HInv, PeerStart \/ PeerStop \/ UNCHANGED vars
    PROVE  HInv'
<1>1. UNCHANGED <<pc, regVars, tableVars, threadVars>>
    BY DEF PeerStart, PeerStop, PeerMoves, vars, others
<1>2. \A o \in Objects : Watched(o)' = Watched(o)
    BY <1>1, OutsideTInv DEF TInv
<1> QED
    BY <1>1, <1>2
    DEF HInv, Exists, Watching, NoUseAfterDestroy, tableVars, threadVars

LEMMA HInduction ==
    ASSUME Overlap = FALSE, RemoveWaits = TRUE
    PROVE  Spec => []HInv
<1>1. Init => HInv
    BY DEF Init, HInv, Watching, NoUseAfterDestroy
<1>2. HInv /\ TInv /\ TInv' /\ Alone /\ InstanceNotDestroyed /\ [Next]_vars => HInv'
  <2> SUFFICES ASSUME HInv, TInv, TInv', Alone, InstanceNotDestroyed, [Next]_vars PROVE HInv'
      OBVIOUS
  <2>1. ASSUME NEW o \in Objects,
               \/ Construct(o) \/ Configure(o) \/ ConfigureStep(o)
               \/ Destroy(o) \/ Destructor(o)
        PROVE  HInv'
      BY <2>1, ConstructHInv, ObjectHInv, HandlerRemovedHInv
      DEF ConfigureStep, Rollback, Destructor
  <2>2. ASSUME NEW t \in Threads,
               (\E e \in HandlerEvents : Enter(t, e)) \/ ThreadStep(t)
        PROVE  HInv'
      BY <2>2, ThreadHInv
  <2>3. CASE PeerStart \/ PeerStop \/ UNCHANGED vars
      BY <2>3, PeerHInv
  <2> QED
      BY <2>1, <2>2, <2>3 DEF Next
<1> QED
    BY <1>1, <1>2, InstanceSafe, TableInduction, OneAtATime, PTL DEF Spec

\* Registration is all or nothing for every object, one after the other: whatever
\* call fails and wherever Configure stops, the table holds the five handlers of a
\* configured object, none otherwise, and what the bus failed to remove.
THEOREM RegistrationAllOrNothing ==
    ASSUME Overlap = FALSE
    PROVE  Spec => []AllOrNothing
<1>1. TInv /\ Alone => AllOrNothing
  <2> SUFFICES ASSUME TInv, Alone PROVE AllOrNothing
      OBVIOUS
  <2>1. ASSUME NEW o \in Objects, pc[o] = "configured", NEW e \in HandlerEvents
        PROVE  handlers[e] = 1 + stuck[e]
    <3>1. Mine(o) = NumHandlers
        BY <2>1 DEF Mine
    <3>2. \A p \in Objects \ {o} : Mine(p) = 0
        BY <2>1 DEF Alone, Exists, Mine
    <3>3. With(e) = {} \cup {o}
        BY <3>1, <3>2 DEF With, HandlerEvents
    <3>4. Cardinality(With(e)) = 1
      <4>1. Cardinality({} \cup {o}) = IF o \in {} THEN Cardinality({}) ELSE Cardinality({}) + 1
          BY FS_EmptySet, FS_AddElement
      <4>2. Cardinality({}) = 0
          BY FS_EmptySet
      <4> QED
          BY <3>3, <4>1, <4>2
    <3> QED
        BY <3>4 DEF TInv, Table, TypeOK
  <2>2. ASSUME \A o \in Objects : pc[o] \in {"none", "constructed", "failed"}
        PROVE  handlers = stuck
    <3>1. \A e \in HandlerEvents : With(e) = {}
        BY <2>2 DEF Mine, With, HandlerEvents
    <3>2. \A e \in HandlerEvents : handlers[e] = stuck[e]
        BY <3>1, FS_EmptySet DEF TInv, Table, TypeOK
    <3>3. handlers \in [HandlerEvents -> Nat] /\ stuck \in [HandlerEvents -> Nat]
        BY DEF TInv, TypeOK
    <3> QED
        BY <3>2, <3>3
  <2> QED
      BY <2>1, <2>2 DEF AllOrNothing
<1> QED
    BY <1>1, TableInduction, OneAtATime, PTL

\* No dispatch thread runs the handler of a destroyed object through the pointer it
\* copied, if the bus waits in RemoveEventHandler and does remove the handler.
THEOREM HandlerHasObject ==
    ASSUME Overlap = FALSE, RemoveWaits = TRUE
    PROVE  Spec => []NoUseAfterDestroy
<1>1. HInv => NoUseAfterDestroy
    BY DEF HInv
<1> QED
    BY <1>1, HInduction, PTL

=============================================================================
