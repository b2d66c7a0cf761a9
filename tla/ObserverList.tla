---------------------------- MODULE ObserverList ----------------------------
(***************************************************************************)
(* The observers of RemoteControlImplementation and the delivery of events *)
(* to them: Register, Unregister, the destructor's release of the list,    *)
(* iarmEventHandler and the three Notify functions with ObserverSnapshot   *)
(* and ReleaseObserverSnapshot.                                            *)
(*                                                                         *)
(* _adminLock is held for the whole body of Register, Unregister and       *)
(* ObserverSnapshot and across nothing else, so each of those bodies is one*)
(* step.  The callbacks and the releases of a snapshot run without it, so  *)
(* every callback and every Release is a step of its own and interleaves   *)
(* with registrations and with the other dispatch threads.                 *)
(*                                                                         *)
(* The observers are COM objects: the model keeps each one's reference     *)
(* count.  An object whose count reaches 0 is destroyed.                   *)
(***************************************************************************)
EXTENDS Naturals, Sequences, SequencesExt, FiniteSets, Functions

CONSTANTS Observers,   \* the INotification objects of the clients
          Threads,     \* the threads on which the IARM bus calls the handler
          Messages,    \* what the bus may call the handler with
          MaxEvents    \* bound: the number of events raised

\* The callback of INotification that iarmEventHandler routes an event
\* identifier to; "none" for an identifier it does not know.
Callback(eventId) ==
    CASE eventId \in {"RCU_STATUS", "CONFIGURATION_COMPLETE",
                      "RF4CE_PAIRING_WINDOW_TIMEOUT"} -> "OnStatus"
      [] eventId = "VALIDATION_STATUS"        -> "OnValidation"
      [] eventId = "FIRMWARE_UPDATE_PROGRESS" -> "OnFirmwareUpdateProgress"
      [] OTHER                                -> "none"

ASSUME MessagesAssumption ==
    Messages \subseteq [owner : {"ctrlm", "other"}, data : BOOLEAN, id : STRING]

ASSUME ThreadsAssumption == IsFiniteSet(Threads)

ASSUME MaxEventsAssumption == MaxEvents \in Nat

VARIABLES
    notifications,  \* _notifications, in registration order
    refs,           \* refs[o]: the reference count of observer object o
    owner,          \* owner[o]: its client still holds a reference of its own
    alive,          \* the implementation object has not been destroyed
    pc,             \* pc[t]: where thread t is in the handling of an event
    event,          \* event[t]: the number of the event thread t handles
    observers,      \* observers[t]: its snapshot, a local vector
    pos,            \* pos[t]: its place in the loop over the snapshot
    raised,         \* the number of messages the bus has delivered
    delivered       \* history: delivered[o] numbers the events o was given

listVars == <<notifications, refs, owner, alive>>
threadVars == <<pc, event, observers, pos>>

vars == <<listVars, threadVars, raised, delivered>>

Events == 1 .. MaxEvents

PCs == {"idle", "snapshot", "notify", "release"}

TypeOK ==
    /\ notifications \in Seq(Observers)
    /\ refs \in [Observers -> Nat]
    /\ owner \in [Observers -> BOOLEAN]
    /\ alive \in BOOLEAN
    /\ pc \in [Threads -> PCs]
    /\ event \in [Threads -> Nat]
    /\ observers \in [Threads -> Seq(Observers)]
    /\ pos \in [Threads -> Nat \ {0}]
    /\ raised \in Nat
    /\ delivered \in [Observers -> Seq(Nat)]

Idle == [t \in Threads |-> "idle"]

\* A client creates its observer and holds the first reference to it.
Init ==
    /\ notifications = <<>>
    /\ refs = [o \in Observers |-> 1]
    /\ owner = [o \in Observers |-> TRUE]
    /\ alive = FALSE
    /\ pc = Idle
    /\ event = [t \in Threads |-> 0]
    /\ observers = [t \in Threads |-> <<>>]
    /\ pos = [t \in Threads |-> 1]
    /\ raised = 0
    /\ delivered = [o \in Observers |-> <<>>]

Listed(o) == Contains(notifications, o)

One(b) == IF b THEN 1 ELSE 0

-----------------------------------------------------------------------------
\* Calls of the clients.  A client calls with an object it holds a reference to.

Add(o) ==
    /\ alive /\ owner[o]
    /\ refs' = [refs EXCEPT ![o] = @ + 1]
    /\ notifications' = Append(notifications, o)
    /\ UNCHANGED <<owner, alive, threadVars, raised, delivered>>

\* Faulty variant of Register: no test for an observer that is listed already.
RegisterTwice(o) == Len(notifications) <= Cardinality(Observers) /\ Add(o)

\* The first call adds the observer and takes a reference, a second one is
\* accepted and changes nothing.
Register(o) == ~Listed(o) /\ Add(o)

Erase(o, i) ==
    /\ alive /\ owner[o]
    /\ notifications' = RemoveAt(notifications, i)
    /\ refs' = [refs EXCEPT ![o] = @ - 1]
    /\ UNCHANGED <<owner, alive, threadVars, raised, delivered>>

\* Faulty variant of Unregister: a listed observer is looked for, and the entry
\* at the beginning of the list is erased.
UnregisterFirst(o) == Listed(o) /\ Erase(o, 1)

\* find_if stops at the first match; erase takes that one entry out.
Unregister(o) ==
    \E i \in DOMAIN notifications :
        /\ notifications[i] = o
        /\ \A j \in 1 .. i - 1 : notifications[j] # o
        /\ Erase(o, i)

\* The client lets go of its own reference, registered or not.
ReleaseOwn(o) ==
    /\ owner[o]
    /\ owner' = [owner EXCEPT ![o] = FALSE]
    /\ refs' = [refs EXCEPT ![o] = @ - 1]
    /\ UNCHANGED <<notifications, alive, threadVars, raised, delivered>>

-----------------------------------------------------------------------------
\* The object and its host process.

\* ~RemoteControlImplementation releases what is still registered.  No thread
\* is about to take a snapshot (what the destructor does about that is the
\* subject of ImplLifecycle); a thread past its snapshot uses only its own
\* vector and runs on.
Destroy ==
    /\ alive
    /\ \A t \in Threads : pc[t] # "snapshot"
    /\ alive' = FALSE
    /\ refs' = [o \in Observers |-> refs[o] - One(Listed(o))]
    /\ notifications' = <<>>
    /\ UNCHANGED <<owner, threadVars, raised, delivered>>

\* The next activation makes a new object, with an empty list.
Construct ==
    /\ ~alive
    /\ alive' = TRUE
    /\ UNCHANGED <<notifications, refs, owner, threadVars, raised, delivered>>

\* The process dies, with the object, its list and its threads, wherever they
\* are.  The framework gives back the references the process held.
Crash ==
    /\ alive' = FALSE
    /\ notifications' = <<>>
    /\ refs' = [o \in Observers |-> One(owner[o])]
    /\ pc' = Idle
    /\ event' = [t \in Threads |-> 0]
    /\ observers' = [t \in Threads |-> <<>>]
    /\ pos' = [t \in Threads |-> 1]
    /\ UNCHANGED <<owner, raised, delivered>>

-----------------------------------------------------------------------------
\* Steps of a dispatch thread of the IARM bus.

\* Owner check, data check and switch of iarmEventHandler.
Handled(msg) ==
    /\ msg.owner = "ctrlm"
    /\ msg.data
    /\ Callback(msg.id) # "none"

\* The bus delivers a message to a thread that is free.
Raise(t) ==
    /\ alive
    /\ pc[t] = "idle"
    /\ raised < MaxEvents
    /\ raised' = raised + 1
    /\ UNCHANGED <<listVars, observers, pos, delivered>>

\* The handler is entered with a message that it passes on to a Notify function.
Arrive(t, msg) ==
    /\ Raise(t)
    /\ Handled(msg)
    /\ event' = [event EXCEPT ![t] = raised + 1]
    /\ pc' = [pc EXCEPT ![t] = "snapshot"]

\* The handler returns early: the message is logged and dropped.
Drop(t, msg) ==
    /\ Raise(t)
    /\ ~Handled(msg)
    /\ UNCHANGED <<event, pc>>

Copy(t) ==
    /\ pc[t] = "snapshot"
    /\ observers' = [observers EXCEPT ![t] = notifications]
    /\ pos' = [pos EXCEPT ![t] = 1]
    /\ pc' = [pc EXCEPT ![t] = "notify"]
    /\ UNCHANGED <<notifications, owner, alive, event, raised, delivered>>

\* Faulty variant of TakeSnapshot: the copy is made without AddRef.
TakeSnapshotNoAddRef(t) == Copy(t) /\ UNCHANGED refs

\* ObserverSnapshot: copy the list and take a reference to each entry.
TakeSnapshot(t) ==
    /\ Copy(t)
    /\ refs' = [o \in Observers |-> refs[o] + One(Listed(o))]

\* One callback of the loop over the snapshot.
Notify(t) ==
    /\ pc[t] = "notify"
    /\ pos[t] <= Len(observers[t])
    /\ delivered' = [delivered EXCEPT ![observers[t][pos[t]]] =
                        Append(@, event[t])]
    /\ pos' = [pos EXCEPT ![t] = @ + 1]
    /\ UNCHANGED <<listVars, pc, event, observers, raised>>

BeginRelease(t) ==
    /\ pc[t] = "notify"
    /\ pos' = [pos EXCEPT ![t] = 1]
    /\ pc' = [pc EXCEPT ![t] = "release"]
    /\ UNCHANGED <<listVars, event, observers, raised, delivered>>

\* Faulty variant of EndNotify: the loop may stop before the last observer.
EndNotifyEarly(t) == pos[t] >= Len(observers[t]) /\ BeginRelease(t)

\* The loop is over: ReleaseObserverSnapshot begins.
EndNotify(t) == pos[t] > Len(observers[t]) /\ BeginRelease(t)

\* One Release of ReleaseObserverSnapshot.
ReleaseOne(t) ==
    /\ pc[t] = "release"
    /\ pos[t] <= Len(observers[t])
    /\ refs' = [refs EXCEPT ![observers[t][pos[t]]] = @ - 1]
    /\ pos' = [pos EXCEPT ![t] = @ + 1]
    /\ UNCHANGED <<notifications, owner, alive, pc, event, observers, raised,
                   delivered>>

Leave(t) ==
    /\ pc[t] = "release"
    /\ event' = [event EXCEPT ![t] = 0]
    /\ observers' = [observers EXCEPT ![t] = <<>>]
    /\ pos' = [pos EXCEPT ![t] = 1]
    /\ pc' = [pc EXCEPT ![t] = "idle"]
    /\ UNCHANGED <<listVars, raised, delivered>>

\* Faulty variant of Return: the last observer may not be released.
ReturnEarly(t) == pos[t] >= Len(observers[t]) /\ Leave(t)

\* Faulty variant of Return: a case of the switch falls through to the next one.
ReturnFallsThrough(t) ==
    /\ pc[t] = "release" /\ pos[t] > Len(observers[t])
    /\ pc' = [pc EXCEPT ![t] = "snapshot"]
    /\ UNCHANGED <<listVars, event, observers, pos, raised, delivered>>

\* observers.clear() and the return of the handler.
Return(t) == pos[t] > Len(observers[t]) /\ Leave(t)

Handle(t) ==
    TakeSnapshot(t) \/ Notify(t) \/ EndNotify(t) \/ ReleaseOne(t) \/ Return(t)

Next ==
    \/ \E o \in Observers : Register(o) \/ Unregister(o) \/ ReleaseOwn(o)
    \/ Destroy \/ Construct \/ Crash
    \/ \E t \in Threads, msg \in Messages : Arrive(t, msg) \/ Drop(t, msg)
    \/ \E t \in Threads : Handle(t)

Spec == Init /\ [][Next]_vars

\* A thread in the handler keeps running, and a callback returns.  No fairness
\* for clients, for the bus, for the destructor or for a new activation.
Fairness == \A t \in Threads : WF_vars(Handle(t))

FairSpec == Spec /\ Fairness

-----------------------------------------------------------------------------
\* What a thread still holds a reference to: all of its snapshot until the
\* releases begin, then the part not released yet.
Holds(t, o) ==
    \/ /\ pc[t] = "notify"
       /\ \E i \in DOMAIN observers[t] : observers[t][i] = o
    \/ /\ pc[t] = "release"
       /\ \E i \in pos[t] .. Len(observers[t]) : observers[t][i] = o

HoldersOf(o) == {t \in Threads : Holds(t, o)}

\* Every AddRef has its Release, whatever the interleaving: an observer's count
\* is its client's reference, the one of its registration and one for each
\* thread that still has it in a snapshot.  In particular an object in the list
\* or in a snapshot is never destroyed, and none outlives its last user.
RefsExact ==
    \A o \in Observers :
        refs[o] = One(owner[o]) + One(Listed(o)) + Cardinality(HoldersOf(o))

\* An object whose count reached 0 is gone: nobody takes a reference to it again.
NoResurrection ==
    [][\A o \in Observers : refs[o] = 0 => refs'[o] = 0]_vars

\* No observer is called twice for one event, although registrations come and
\* go while snapshots are being walked.
DeliveredOnce ==
    \A o \in Observers : IsInjective(delivered[o])

\* The pairs a snapshot still has to deliver.
Owed ==
    {p \in Events \X Observers :
        \E t \in Threads :
            /\ pc[t] = "notify"
            /\ event[t] = p[1]
            /\ \E i \in pos[t] .. Len(observers[t]) : observers[t][i] = p[2]}

\* The events that got as far as a snapshot, or were dropped or lost.
Published ==
    {e \in 1 .. raised : \A t \in Threads : ~(pc[t] = "snapshot" /\ event[t] = e)}

\* The pairs of an event and an observer that was given it.
Given == {p \in Events \X Observers : Contains(delivered[p[2]], p[1])}

\* The detailed list with its threads implements the abstract broadcast: exactly
\* the observers registered when the snapshot is taken are given the event,
\* once, whatever registrations, releases or the destructor do meanwhile.
Broadcast == INSTANCE EventBroadcast WITH
    subscribers <- ToSet(notifications),
    published <- Published,
    owed <- Owed,
    delivered <- Given

ImplementsBroadcast == Broadcast!Spec

\* An observer that is registered when an event is being handled, and is not
\* taken off the list before the snapshot, is eventually given the event.
RegisteredHears ==
    \A o \in Observers, e \in Events, t \in Threads :
        (pc[t] = "snapshot" /\ event[t] = e /\ Listed(o))
            ~> (Contains(delivered[o], e) \/ ~Listed(o))

\* An observer its client has dropped, and that is off the list, is destroyed
\* once the deliveries that hold it are over.
DroppedIsDestroyed ==
    \A o \in Observers : (~owner[o] /\ ~Listed(o)) ~> (refs[o] = 0)

=============================================================================
