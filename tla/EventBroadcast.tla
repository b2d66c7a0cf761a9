--------------------------- MODULE EventBroadcast ---------------------------
(***************************************************************************)
(* What the event side of RemoteControlImplementation promises to its      *)
(* observers, with no list, lock, thread or reference count in sight.      *)
(*                                                                         *)
(* Every control-manager event is published at one instant.  Exactly the   *)
(* observers subscribed at that instant are owed it, each is given it once,*)
(* and no one else is.  Events and subscriptions are otherwise independent:*)
(* an observer that unsubscribes is still given what it was owed, unless   *)
(* the process dies.                                                       *)
(*                                                                         *)
(* ObserverList implements this specification.                             *)
(***************************************************************************)
EXTENDS Naturals

CONSTANTS Observers,   \* the INotification objects
          Events       \* the events control manager may raise

VARIABLES subscribers, \* the observers that asked for events
          published,   \* the events that have been published or discarded
          owed,        \* the <<event, observer>> pairs still to be delivered
          delivered    \* the <<event, observer>> pairs delivered

vars == <<subscribers, published, owed, delivered>>

TypeOK ==
    /\ subscribers \in SUBSET Observers
    /\ published \in SUBSET Events
    /\ owed \in SUBSET (published \X Observers)
    /\ delivered \in SUBSET (published \X Observers)

Init ==
    /\ subscribers = {}
    /\ published = {}
    /\ owed = {}
    /\ delivered = {}

Subscribe(o) ==
    /\ subscribers' = subscribers \cup {o}
    /\ UNCHANGED <<published, owed, delivered>>

Unsubscribe(o) ==
    /\ subscribers' = subscribers \ {o}
    /\ UNCHANGED <<published, owed, delivered>>

\* The implementation is going away: nobody is subscribed any more.
Close ==
    /\ subscribers' = {}
    /\ UNCHANGED <<published, owed, delivered>>

\* The process dies: what was owed is lost, and so are the events on their way.
Crash ==
    /\ subscribers' = {}
    /\ owed' = {}
    /\ \E lost \in SUBSET Events : published' = published \cup lost
    /\ UNCHANGED delivered

Publish(e) ==
    /\ e \notin published
    /\ published' = published \cup {e}
    /\ owed' = owed \cup ({e} \X subscribers)
    /\ UNCHANGED <<subscribers, delivered>>

\* An event nobody is told about (wrong owner, no data, unknown identifier).
Discard(e) ==
    /\ e \notin published
    /\ published' = published \cup {e}
    /\ UNCHANGED <<subscribers, owed, delivered>>

Deliver(e, o) ==
    /\ <<e, o>> \in owed
    /\ owed' = owed \ {<<e, o>>}
    /\ delivered' = delivered \cup {<<e, o>>}
    /\ UNCHANGED <<subscribers, published>>

Next ==
    \/ \E o \in Observers : Subscribe(o) \/ Unsubscribe(o)
    \/ Close \/ Crash
    \/ \E e \in Events : Publish(e) \/ Discard(e)
    \/ \E e \in Events, o \in Observers : Deliver(e, o)

Spec == Init /\ [][Next]_vars

-----------------------------------------------------------------------------
\* No observer is given the same event twice: a pair that was delivered is
\* never owed again (the duplicate test of Register and the snapshot of each
\* event are there for this).
OwedOrDelivered == owed \cap delivered = {}

=============================================================================
