------------------------- MODULE ObserverListProofs -------------------------
(***************************************************************************)
(* ObserverList for any clients, any finite number of dispatch threads and *)
(* any events: the types, the exact reference counts, what follows from    *)
(* them, and the implementation of EventBroadcast.  Counting needs that    *)
(* neither the list nor a snapshot ever holds an observer twice, so that is*)
(* part of the inductive invariant.                                        *)
(***************************************************************************)
EXTENDS ObserverList, SequenceTheorems, FiniteSetTheorems, TLAPS

Unique(s) == \A i, j \in 1 .. Len(s) : s[i] = s[j] => i = j

\* The types, but for the references, of which only the counting shows that
\* they never go below zero.
Shape ==
    /\ notifications \in Seq(Observers)
    /\ refs \in [Observers -> Int]
    /\ owner \in [Observers -> BOOLEAN]
    /\ alive \in BOOLEAN
    /\ pc \in [Threads -> PCs]
    /\ event \in [Threads -> Nat]
    /\ observers \in [Threads -> Seq(Observers)]
    /\ pos \in [Threads -> Nat \ {0}]
    /\ raised \in Nat
    /\ delivered \in [Observers -> Seq(Nat)]

NoDuplicates ==
    /\ Unique(notifications)
    /\ \A t \in Threads : Unique(observers[t])

IInv == Shape /\ NoDuplicates /\ RefsExact

-----------------------------------------------------------------------------
\* Lemmas on the list.

\* erase(it): what vector::erase leaves, position by position.
LEMMA RemoveAtElements ==
    ASSUME NEW S, NEW s \in Seq(S), NEW i \in 1 .. Len(s)
    PROVE  /\ RemoveAt(s, i) \in Seq(S)
           /\ Len(RemoveAt(s, i)) = Len(s) - 1
           /\ \A k \in 1 .. Len(s) - 1 :
                 RemoveAt(s, i)[k] = IF k < i THEN s[k] ELSE s[k + 1]
<1> DEFINE a == SubSeq(s, 1, i - 1)
           b == SubSeq(s, i + 1, Len(s))
<1>1. Len(s) \in Nat
    BY LenProperties
<1>2. /\ a \in Seq(S) /\ Len(a) = i - 1
      /\ \A k \in 1 .. i - 1 : a[k] = s[k]
    BY <1>1, SubSeqProperties
<1>3. /\ b \in Seq(S) /\ Len(b) = Len(s) - i
      /\ \A k \in 1 .. Len(s) - i : b[k] = s[i + k]
    BY <1>1, SubSeqProperties
<1>4. RemoveAt(s, i) = a \o b
    BY DEF RemoveAt
<1> HIDE DEF a, b
<1>5. /\ a \o b \in Seq(S) /\ Len(a \o b) = Len(a) + Len(b)
      /\ \A k \in 1 .. Len(a) + Len(b) :
            (a \o b)[k] = IF k <= Len(a) THEN a[k] ELSE b[k - Len(a)]
  <2>1. a \in Seq(S) /\ b \in Seq(S)
      BY <1>2, <1>3
  <2> QED
      BY <2>1, ConcatProperties
<1>6. ASSUME NEW k \in 1 .. Len(s) - 1
      PROVE  (a \o b)[k] = IF k < i THEN s[k] ELSE s[k + 1]
  <2>1. CASE k < i
      BY <1>1, <1>2, <1>3, <1>5, <2>1
  <2>2. CASE ~(k < i)
    <3>1. k - (i - 1) \in 1 .. Len(s) - i /\ i + (k - (i - 1)) = k + 1
        BY <1>1, <2>2
    <3>2. (a \o b)[k] = b[k - (i - 1)]
        BY <1>1, <1>2, <1>3, <1>5, <2>2
    <3> QED
        BY <1>3, <2>2, <3>1, <3>2
  <2> QED
      BY <2>1, <2>2
<1>7. Len(a \o b) = Len(s) - 1
    BY <1>1, <1>2, <1>3, <1>5
<1> QED
    BY <1>4, <1>5, <1>6, <1>7

\* Taking one entry out of a list without duplicates takes out that observer,
\* and no other.
LEMMA RemoveAtUnique ==
    ASSUME NEW S, NEW s \in Seq(S), NEW i \in 1 .. Len(s), Unique(s)
    PROVE  /\ Unique(RemoveAt(s, i))
           /\ \A x : Contains(RemoveAt(s, i), x) <=> Contains(s, x) /\ x # s[i]
<1> DEFINE r == RemoveAt(s, i)
<1>1. Len(s) \in Nat /\ Len(r) = Len(s) - 1
    BY LenProperties, RemoveAtElements
<1>2. \A k \in 1 .. Len(r) : r[k] = IF k < i THEN s[k] ELSE s[k + 1]
    BY <1>1, RemoveAtElements
<1> HIDE DEF r
<1>3. Unique(r)
    BY <1>1, <1>2 DEF Unique
<1>4. ASSUME NEW x, Contains(r, x) PROVE Contains(s, x) /\ x # s[i]
  <2>1. PICK k \in 1 .. Len(r) : r[k] = x
      BY <1>4 DEF Contains
  <2>2. CASE k < i
      BY <1>1, <1>2, <2>1, <2>2 DEF Contains, Unique
  <2>3. CASE ~(k < i)
    <3>1. k + 1 \in 1 .. Len(s) /\ k + 1 # i /\ s[k + 1] = x
        BY <1>1, <1>2, <2>1, <2>3
    <3> QED
        BY <3>1 DEF Contains, Unique
  <2> QED
      BY <2>2, <2>3
<1>5. ASSUME NEW x, Contains(s, x), x # s[i] PROVE Contains(r, x)
  <2>1. PICK k \in 1 .. Len(s) : s[k] = x
      BY <1>5 DEF Contains
  <2>2. CASE k < i
    <3>1. k \in 1 .. Len(r) /\ r[k] = x
        BY <1>1, <1>2, <2>1, <2>2
    <3> QED
        BY <3>1 DEF Contains
  <2>3. CASE k > i
    <3>1. k - 1 \in 1 .. Len(r) /\ ~(k - 1 < i) /\ (k - 1) + 1 = k
        BY <1>1, <2>1, <2>3
    <3>2. r[k - 1] = x
        BY <1>2, <2>1, <3>1
    <3> QED
        BY <3>1, <3>2 DEF Contains
  <2> QED
      BY <1>5, <2>1, <2>2, <2>3
<1> QED
    BY <1>3, <1>4, <1>5 DEF r

\* push_back of an observer that is not in the list.
LEMMA AppendUnique ==
    ASSUME NEW S, NEW s \in Seq(S), NEW e \in S, Unique(s), ~Contains(s, e)
    PROVE  /\ Append(s, e) \in Seq(S)
           /\ Unique(Append(s, e))
           /\ \A x : Contains(Append(s, e), x) <=> Contains(s, x) \/ x = e
<1> DEFINE r == Append(s, e)
<1>1. /\ Len(s) \in Nat /\ r \in Seq(S) /\ Len(r) = Len(s) + 1
      /\ \A k \in 1 .. Len(s) : r[k] = s[k]
      /\ r[Len(s) + 1] = e
    BY LenProperties, AppendProperties
<1> HIDE DEF r
<1>2. Unique(r)
    BY <1>1 DEF Unique, Contains
<1>3. ASSUME NEW x PROVE Contains(r, x) <=> Contains(s, x) \/ x = e
    BY <1>1 DEF Contains
<1> QED
    BY <1>1, <1>2, <1>3 DEF r

-----------------------------------------------------------------------------
\* Lemmas on the count of the threads that hold an observer.

\* One thread more or less counts one more or less.
LEMMA Counting ==
    ASSUME NEW H \in SUBSET Threads
    PROVE  /\ Cardinality(H) \in Nat
           /\ \A t \in Threads \ H : Cardinality(H \cup {t}) = Cardinality(H) + 1
           /\ \A t \in H : Cardinality(H \ {t}) = Cardinality(H) - 1
<1>1. IsFiniteSet(H)
    BY FS_Subset, ThreadsAssumption
<1> QED
    BY <1>1, FS_CardinalityType, FS_AddElement, FS_RemoveElement

\* A thread's part in the counts is unchanged as long as its place in the
\* handler, its vector and its place in the vector are.
LEMMA HoldersUnchanged ==
    ASSUME UNCHANGED <<pc, observers, pos>>
    PROVE  \A o \in Observers : HoldersOf(o)' = HoldersOf(o)
BY DEF HoldersOf, Holds

\* The counts are exact again when neither the list nor the holders changed and
\* no count did.
LEMMA RefsUnchanged ==
    ASSUME RefsExact, UNCHANGED <<notifications, refs, owner>>,
           \A o \in Observers : HoldersOf(o)' = HoldersOf(o)
    PROVE  RefsExact'
BY DEF RefsExact, Listed

-----------------------------------------------------------------------------
\* The induction, one lemma for the operations on the list and one for each
\* kind of step of a dispatch thread.

LEMMA InitIInv == Init => IInv
<1> SUFFICES ASSUME Init PROVE IInv
    OBVIOUS
<1>1. Shape
  <2>1. notifications \in Seq(Observers) /\ raised \in Nat
      BY DEF Init
  <2>2. pc \in [Threads -> PCs] /\ alive \in BOOLEAN
      BY DEF Init, Idle, PCs
  <2>3. refs \in [Observers -> Int] /\ owner \in [Observers -> BOOLEAN]
      BY DEF Init
  <2>4. /\ event \in [Threads -> Nat]
        /\ observers \in [Threads -> Seq(Observers)]
        /\ pos \in [Threads -> Nat \ {0}]
      BY DEF Init
  <2>5. delivered \in [Observers -> Seq(Nat)]
      BY DEF Init
  <2> QED
      BY <2>1, <2>2, <2>3, <2>4, <2>5 DEF Shape
<1>2. NoDuplicates
    BY DEF Init, NoDuplicates, Unique, Idle
<1>3. RefsExact
  <2> SUFFICES ASSUME NEW o \in Observers
               PROVE  refs[o] = One(owner[o]) + One(Listed(o))
                                    + Cardinality(HoldersOf(o))
      BY DEF RefsExact
  <2>1. ~Listed(o)
      BY DEF Init, Listed, Contains, Idle
  <2>2. HoldersOf(o) = {}
      BY DEF Init, HoldersOf, Holds, Idle
  <2> QED
      BY <2>1, <2>2, FS_EmptySet DEF Init, One, Idle
<1> QED
    BY <1>1, <1>2, <1>3 DEF IInv

LEMMA RegisterIInv ==
    ASSUME IInv, NEW x \in Observers, Register(x)
    PROVE  IInv'
<1>1. /\ notifications' \in Seq(Observers)
      /\ Unique(notifications')
      /\ \A o \in Observers : Listed(o)' <=> Listed(o) \/ o = x
  <2>1. notifications \in Seq(Observers) /\ Unique(notifications)
      BY DEF IInv, Shape, NoDuplicates
  <2>2. notifications' = Append(notifications, x) /\ ~Contains(notifications, x)
      BY DEF Register, Listed, Add, threadVars
  <2> QED
      BY <2>1, <2>2, AppendUnique DEF Listed
<1>2. Shape'
    BY <1>1 DEF IInv, Shape, Register, Add, threadVars
<1>3. NoDuplicates'
    BY <1>1 DEF IInv, NoDuplicates, Register, Add, threadVars
<1>4. RefsExact'
  <2> SUFFICES ASSUME NEW o \in Observers
               PROVE  refs'[o] = One(owner'[o]) + One(Listed(o)')
                                    + Cardinality(HoldersOf(o)')
      BY DEF RefsExact
  <2>1. HoldersOf(o)' = HoldersOf(o) /\ owner' = owner
      BY HoldersUnchanged DEF Register, Add, threadVars
  <2>2. refs[o] = One(owner[o]) + One(Listed(o)) + Cardinality(HoldersOf(o))
      BY DEF IInv, RefsExact
  <2>3. Cardinality(HoldersOf(o)) \in Nat
      BY Counting DEF HoldersOf
  <2>4. refs' = [refs EXCEPT ![x] = @ + 1] /\ refs \in [Observers -> Int]
      BY DEF Register, IInv, Shape, Add, threadVars
  <2>5. ~Listed(x)
      BY DEF Register, Add, threadVars
  <2> QED
      BY <1>1, <2>1, <2>2, <2>3, <2>4, <2>5 DEF One
<1> QED
    BY <1>2, <1>3, <1>4 DEF IInv

LEMMA UnregisterIInv ==
    ASSUME IInv, NEW x \in Observers, Unregister(x)
    PROVE  IInv'
<1>1. /\ notifications' \in Seq(Observers)
      /\ Unique(notifications')
      /\ \A o \in Observers : Listed(o)' <=> Listed(o) /\ o # x
      /\ Listed(x)
  <2>1. notifications \in Seq(Observers) /\ Unique(notifications)
      BY DEF IInv, Shape, NoDuplicates
  <2>2. PICK i \in 1 .. Len(notifications) :
            notifications[i] = x /\ notifications' = RemoveAt(notifications, i)
      BY <2>1 DEF Unregister, Erase, threadVars
  <2>3. /\ RemoveAt(notifications, i) \in Seq(Observers)
        /\ Unique(RemoveAt(notifications, i))
        /\ \A o : Contains(RemoveAt(notifications, i), o)
                      <=> Contains(notifications, o) /\ o # notifications[i]
      BY <2>1, RemoveAtElements, RemoveAtUnique
  <2> QED
      BY <2>2, <2>3 DEF Listed, Contains
<1>2. Shape'
    BY <1>1 DEF IInv, Shape, Unregister, Erase, threadVars
<1>3. NoDuplicates'
    BY <1>1 DEF IInv, NoDuplicates, Unregister, Erase, threadVars
<1>4. RefsExact'
  <2> SUFFICES ASSUME NEW o \in Observers
               PROVE  refs'[o] = One(owner'[o]) + One(Listed(o)')
                                    + Cardinality(HoldersOf(o)')
      BY DEF RefsExact
  <2>1. HoldersOf(o)' = HoldersOf(o) /\ owner' = owner
      BY HoldersUnchanged DEF Unregister, Erase, threadVars
  <2>2. refs[o] = One(owner[o]) + One(Listed(o)) + Cardinality(HoldersOf(o))
      BY DEF IInv, RefsExact
  <2>3. Cardinality(HoldersOf(o)) \in Nat
      BY Counting DEF HoldersOf
  <2>4. refs' = [refs EXCEPT ![x] = @ - 1] /\ refs \in [Observers -> Int]
      BY DEF Unregister, Erase, IInv, Shape, threadVars
  <2> QED
      BY <1>1, <2>1, <2>2, <2>3, <2>4 DEF One
<1> QED
    BY <1>2, <1>3, <1>4 DEF IInv

LEMMA ReleaseOwnIInv ==
    ASSUME IInv, NEW x \in Observers, ReleaseOwn(x)
    PROVE  IInv'
<1>1. Shape'
    BY DEF IInv, Shape, ReleaseOwn, threadVars
<1>2. NoDuplicates'
    BY DEF IInv, NoDuplicates, ReleaseOwn, threadVars
<1>3. RefsExact'
  <2> SUFFICES ASSUME NEW o \in Observers
               PROVE  refs'[o] = One(owner'[o]) + One(Listed(o)')
                                    + Cardinality(HoldersOf(o)')
      BY DEF RefsExact
  <2>1. HoldersOf(o)' = HoldersOf(o) /\ (Listed(o)' <=> Listed(o))
      BY HoldersUnchanged DEF ReleaseOwn, Listed, threadVars
  <2>2. refs[o] = One(owner[o]) + One(Listed(o)) + Cardinality(HoldersOf(o))
      BY DEF IInv, RefsExact
  <2>3. Cardinality(HoldersOf(o)) \in Nat
      BY Counting DEF HoldersOf
  <2>4. /\ refs' = [refs EXCEPT ![x] = @ - 1] /\ refs \in [Observers -> Int]
        /\ owner' = [owner EXCEPT ![x] = FALSE] /\ owner \in [Observers -> BOOLEAN]
        /\ owner[x]
      BY DEF ReleaseOwn, IInv, Shape, threadVars
  <2>5. One(Listed(o)') = One(Listed(o)) /\ One(Listed(o)) \in Int
      BY <2>1 DEF One
  <2>6. One(owner'[o]) = IF o = x THEN 0 ELSE One(owner[o])
      BY <2>4 DEF One
  <2>7. (o = x => One(owner[o]) = 1) /\ One(owner[o]) \in Int
      BY <2>4 DEF One
  <2>8. CASE o = x
    <3>1. refs'[o] = refs[o] - 1
        BY <2>4, <2>8
    <3> QED
        BY <2>1, <2>2, <2>3, <2>5, <2>6, <2>7, <2>8, <3>1
  <2>9. CASE o # x
    <3>1. refs'[o] = refs[o]
        BY <2>4, <2>9
    <3> QED
        BY <2>1, <2>2, <2>3, <2>5, <2>6, <2>7, <2>9, <3>1
  <2> QED
      BY <2>8, <2>9
<1> QED
    BY <1>1, <1>2, <1>3 DEF IInv

LEMMA DestroyIInv ==
    ASSUME IInv, Destroy
    PROVE  IInv'
<1>1. /\ notifications' \in Seq(Observers)
      /\ Unique(notifications')
      /\ \A o \in Observers : ~Listed(o)'
    BY DEF Destroy, Unique, Listed, Contains, threadVars
<1>2. Shape'
  <2>1. refs \in [Observers -> Int]
      BY DEF IInv, Shape
  <2>2. refs' = [o \in Observers |-> refs[o] - One(Listed(o))]
      BY DEF Destroy, threadVars
  <2>3. refs' \in [Observers -> Int]
      BY <2>1, <2>2 DEF One
  <2>4. alive' \in BOOLEAN
      BY DEF Destroy, threadVars
  <2> QED
      BY <1>1, <2>3, <2>4 DEF IInv, Shape, Destroy, threadVars
<1>3. NoDuplicates'
    BY <1>1 DEF IInv, NoDuplicates, Destroy, threadVars
<1>4. RefsExact'
  <2> SUFFICES ASSUME NEW o \in Observers
               PROVE  refs'[o] = One(owner'[o]) + One(Listed(o)')
                                    + Cardinality(HoldersOf(o)')
      BY DEF RefsExact
  <2>1. HoldersOf(o)' = HoldersOf(o) /\ owner' = owner
      BY HoldersUnchanged DEF Destroy, threadVars
  <2>2. refs[o] = One(owner[o]) + One(Listed(o)) + Cardinality(HoldersOf(o))
      BY DEF IInv, RefsExact
  <2>3. Cardinality(HoldersOf(o)) \in Nat
      BY Counting DEF HoldersOf
  <2>4. refs'[o] = refs[o] - One(Listed(o))
      BY DEF Destroy
  <2> QED
      BY <1>1, <2>1, <2>2, <2>3, <2>4 DEF One
<1> QED
    BY <1>2, <1>3, <1>4 DEF IInv

LEMMA ConstructIInv ==
    ASSUME IInv, Construct
    PROVE  IInv'
<1>1. Shape' /\ NoDuplicates'
    BY DEF IInv, Shape, NoDuplicates, Construct, threadVars
<1>2. RefsExact'
    BY HoldersUnchanged, RefsUnchanged DEF IInv, Construct, threadVars
<1> QED
    BY <1>1, <1>2 DEF IInv

\* Of the references to an observer a crash leaves its client's only.
LEMMA CrashIInv ==
    ASSUME IInv, Crash
    PROVE  IInv'
<1>1. /\ notifications' = <<>> /\ owner' = owner
      /\ pc' = [t \in Threads |-> "idle"]
      /\ observers' = [t \in Threads |-> <<>>]
      /\ refs' = [o \in Observers |-> One(owner[o])]
    BY DEF Crash, Idle
<1>2. Shape'
  <2>1. refs' \in [Observers -> Int] /\ pc' \in [Threads -> PCs]
      BY <1>1 DEF One, PCs
  <2>2. /\ event' \in [Threads -> Nat] /\ pos' \in [Threads -> Nat \ {0}]
        /\ observers' \in [Threads -> Seq(Observers)]
      BY <1>1 DEF Crash
  <2>3. notifications' \in Seq(Observers)
    <3>1. <<>> \in Seq(Observers)
        OBVIOUS
    <3> QED
        BY <1>1, <3>1
  <2>4. alive' \in BOOLEAN
      BY DEF Crash
  <2> QED
      BY <2>1, <2>2, <2>3, <2>4 DEF Crash, IInv, Shape
<1>3. NoDuplicates'
    BY <1>1 DEF NoDuplicates, Unique
<1>4. RefsExact'
  <2> SUFFICES ASSUME NEW o \in Observers
               PROVE  refs'[o] = One(owner'[o]) + One(Listed(o)')
                                    + Cardinality(HoldersOf(o)')
      BY DEF RefsExact
  <2>1. ~Listed(o)'
      BY <1>1 DEF Listed, Contains
  <2>2. HoldersOf(o)' = {}
      BY <1>1 DEF HoldersOf, Holds
  <2>3. One(Listed(o)') = 0 /\ Cardinality(HoldersOf(o)') = 0
      BY <2>1, <2>2, FS_EmptySet DEF One
  <2>4. refs'[o] = One(owner'[o]) /\ One(owner'[o]) \in Nat
      BY <1>1 DEF One
  <2> QED
      BY <2>3, <2>4
<1> QED
    BY <1>2, <1>3, <1>4 DEF IInv

\* The handler is entered, or drops the message.
LEMMA ArriveIInv ==
    ASSUME IInv, NEW t \in Threads, NEW msg \in Messages,
           Arrive(t, msg) \/ Drop(t, msg)
    PROVE  IInv'
<1>1. Shape'
  <2>1. raised \in Nat /\ raised + 1 \in Nat
      BY DEF IInv, Shape
  <2>2. raised' \in Nat
      BY <2>1 DEF Arrive, Drop, Raise, listVars
  <2>4. event' \in [Threads -> Nat]
    <3>1. event \in [Threads -> Nat]
        BY DEF IInv, Shape
    <3>2. event' = event \/ event' = [event EXCEPT ![t] = raised + 1]
        BY DEF Arrive, Drop, Raise, listVars
    <3> QED
        BY <2>1, <3>1, <3>2
  <2>3. pc' \in [Threads -> PCs]
      BY DEF Arrive, Drop, IInv, Shape, PCs, Raise, listVars
  <2> QED
      BY <2>2, <2>3, <2>4 DEF Arrive, Drop, IInv, Shape, Raise, listVars
<1>2. NoDuplicates'
    BY DEF Arrive, Drop, IInv, NoDuplicates, Raise, listVars
<1>3. RefsExact'
  <2>1. \A o \in Observers : HoldersOf(o)' = HoldersOf(o)
      BY DEF Arrive, Drop, IInv, Shape, HoldersOf, Holds, Raise, listVars
  <2> QED
      BY <2>1, RefsUnchanged DEF Arrive, Drop, IInv, Raise, listVars
<1> QED
    BY <1>1, <1>2, <1>3 DEF IInv

\* ObserverSnapshot adds the thread to the holders of every listed observer.
LEMMA TakeSnapshotIInv ==
    ASSUME IInv, NEW t \in Threads, TakeSnapshot(t)
    PROVE  IInv'
<1>1. Shape'
  <2>1. refs' \in [Observers -> Int] /\ pc' \in [Threads -> PCs]
      BY DEF TakeSnapshot, IInv, Shape, PCs, Copy, One
  <2>2. observers' \in [Threads -> Seq(Observers)] /\ pos' \in [Threads -> Nat \ {0}]
      BY DEF TakeSnapshot, IInv, Shape, Copy
  <2> QED
      BY <2>1, <2>2 DEF TakeSnapshot, IInv, Shape, Copy
<1>2. NoDuplicates'
    BY DEF TakeSnapshot, IInv, Shape, NoDuplicates, Copy
<1>3. RefsExact'
  <2> SUFFICES ASSUME NEW o \in Observers
               PROVE  refs'[o] = One(owner'[o]) + One(Listed(o)')
                                    + Cardinality(HoldersOf(o)')
      BY DEF RefsExact
  <2>1. (Listed(o)' <=> Listed(o)) /\ owner' = owner
      BY DEF TakeSnapshot, Listed, Copy
  <2>2. refs[o] = One(owner[o]) + One(Listed(o)) + Cardinality(HoldersOf(o))
      BY DEF IInv, RefsExact
  <2>3. refs'[o] = IF Listed(o) THEN refs[o] + 1 ELSE refs[o]
    <3>1. refs'[o] = refs[o] + One(Listed(o)) /\ refs[o] \in Int
        BY DEF TakeSnapshot, IInv, Shape
    <3> QED
        BY <3>1 DEF One
  <2>4. \A u \in Threads \ {t} : Holds(u, o)' <=> Holds(u, o)
      BY DEF TakeSnapshot, IInv, Shape, Holds, Copy
  <2>5. ~Holds(t, o)
      BY DEF TakeSnapshot, Holds, Copy
  <2>6. Holds(t, o)' <=> Listed(o)
    <3>1. pc'[t] = "notify" /\ observers'[t] = notifications
        BY DEF TakeSnapshot, IInv, Shape, Copy
    <3>2. DOMAIN notifications = 1 .. Len(notifications)
        BY LenProperties DEF IInv, Shape
    <3> QED
        BY <3>1, <3>2 DEF Holds, Listed, Contains
  <2>7. /\ t \in Threads \ HoldersOf(o)
        /\ HoldersOf(o)' = IF Listed(o) THEN HoldersOf(o) \cup {t}
                                        ELSE HoldersOf(o)
      BY <2>4, <2>5, <2>6 DEF HoldersOf
  <2>8. /\ Cardinality(HoldersOf(o)) \in Nat
        /\ Cardinality(HoldersOf(o) \cup {t}) = Cardinality(HoldersOf(o)) + 1
      BY <2>7, Counting DEF HoldersOf
  <2>9. One(owner[o]) \in Int /\ One(Listed(o)) \in Int
      BY DEF One
  <2>10. One(Listed(o)') = One(Listed(o))
      BY <2>1 DEF One
  <2> QED
      BY <2>1, <2>2, <2>3, <2>7, <2>8, <2>9, <2>10
<1> QED
    BY <1>1, <1>2, <1>3 DEF IInv

\* A callback, and the end of the loop, change nobody's references: the whole
\* snapshot is still held.
LEMMA NotifyIInv ==
    ASSUME IInv, NEW t \in Threads, Notify(t) \/ EndNotify(t)
    PROVE  IInv'
<1>1. Len(observers[t]) \in Nat /\ DOMAIN observers[t] = 1 .. Len(observers[t])
    BY LenProperties DEF IInv, Shape
<1>2. Shape'
  <2>1. pc' \in [Threads -> PCs]
      BY DEF Notify, EndNotify, IInv, Shape, PCs, listVars, BeginRelease
  <2>3. pos' \in [Threads -> Nat \ {0}]
    <3>1. pos \in [Threads -> Nat \ {0}]
        BY DEF IInv, Shape
    <3>2. \/ pos' = [pos EXCEPT ![t] = @ + 1]
          \/ pos' = [pos EXCEPT ![t] = 1]
        BY DEF Notify, EndNotify, listVars, BeginRelease
    <3> QED
        BY <3>1, <3>2
  <2>2. delivered' \in [Observers -> Seq(Nat)]
    <3>1. CASE Notify(t)
      <4> DEFINE o == observers[t][pos[t]]
      <4>1. event[t] \in Nat /\ pos[t] \in 1 .. Len(observers[t])
          BY <1>1, <3>1 DEF Notify, IInv, Shape, listVars
      <4>2. o \in Observers
          BY <4>1, ElementOfSeq DEF IInv, Shape
      <4>3. Append(delivered[o], event[t]) \in Seq(Nat)
          BY <4>1, <4>2, AppendProperties DEF IInv, Shape
      <4> QED
          BY <3>1, <4>2, <4>3 DEF Notify, IInv, Shape, listVars
    <3>2. CASE EndNotify(t)
        BY <3>2 DEF EndNotify, IInv, Shape, BeginRelease, listVars
    <3> QED
        BY <3>1, <3>2
  <2> QED
      BY <2>1, <2>2, <2>3 DEF Notify, EndNotify, IInv, Shape, listVars, BeginRelease
<1>3. NoDuplicates'
    BY DEF Notify, EndNotify, IInv, NoDuplicates, listVars, BeginRelease
<1>4. RefsExact'
  <2>1. ASSUME NEW o \in Observers PROVE HoldersOf(o)' = HoldersOf(o)
    <3>1. \A u \in Threads \ {t} : Holds(u, o)' <=> Holds(u, o)
        BY DEF Notify, EndNotify, IInv, Shape, Holds, listVars, BeginRelease
    <3>2. Holds(t, o)' <=> Holds(t, o)
      <4>1. CASE Notify(t)
          BY <4>1 DEF Notify, IInv, Shape, Holds, listVars
      <4>2. CASE EndNotify(t)
        <5>1. /\ pc[t] = "notify" /\ pc'[t] = "release" /\ pos'[t] = 1
              /\ observers' = observers
            BY <4>2 DEF EndNotify, IInv, Shape, BeginRelease, listVars
        <5> QED
            BY <1>1, <5>1 DEF Holds
      <4> QED
          BY <4>1, <4>2
    <3> QED
        BY <3>1, <3>2 DEF HoldersOf
  <2> QED
      BY <2>1, RefsUnchanged DEF Notify, EndNotify, IInv, listVars, BeginRelease
<1> QED
    BY <1>2, <1>3, <1>4 DEF IInv

\* A Release gives back one reference, and takes the thread off the holders of
\* that observer only: no other place of the snapshot holds it.
LEMMA ReleaseOneIInv ==
    ASSUME IInv, NEW t \in Threads, ReleaseOne(t)
    PROVE  IInv'
<1> DEFINE x == observers[t][pos[t]]
<1>1. /\ Len(observers[t]) \in Nat
      /\ pos[t] \in 1 .. Len(observers[t])
      /\ pos'[t] = pos[t] + 1
      /\ x \in Observers
  <2>1. observers[t] \in Seq(Observers)
      BY DEF IInv, Shape
  <2>2. Len(observers[t]) \in Nat
      BY <2>1, LenProperties
  <2>3. pos[t] \in 1 .. Len(observers[t]) /\ pos'[t] = pos[t] + 1
      BY <2>2 DEF ReleaseOne, IInv, Shape
  <2> QED
      BY <2>1, <2>2, <2>3, ElementOfSeq
<1>2. refs' = [refs EXCEPT ![x] = @ - 1]
    BY DEF ReleaseOne
<1> HIDE DEF x
<1>3. Shape'
  <2>1. refs \in [Observers -> Int] /\ pos \in [Threads -> Nat \ {0}]
      BY DEF IInv, Shape
  <2>2. pos' = [pos EXCEPT ![t] = @ + 1]
      BY DEF ReleaseOne
  <2>3. refs' \in [Observers -> Int]
      BY <1>1, <1>2, <2>1
  <2>4. pos' \in [Threads -> Nat \ {0}]
      BY <2>1, <2>2
  <2> QED
      BY <2>3, <2>4 DEF ReleaseOne, IInv, Shape
<1>4. NoDuplicates'
    BY DEF ReleaseOne, IInv, NoDuplicates
<1>5. RefsExact'
  <2> SUFFICES ASSUME NEW o \in Observers
               PROVE  refs'[o] = One(owner'[o]) + One(Listed(o)')
                                    + Cardinality(HoldersOf(o)')
      BY DEF RefsExact
  <2>1. (Listed(o)' <=> Listed(o)) /\ owner' = owner
      BY DEF ReleaseOne, Listed
  <2>2. refs[o] = One(owner[o]) + One(Listed(o)) + Cardinality(HoldersOf(o))
      BY DEF IInv, RefsExact
  <2>3. refs'[o] = IF o = x THEN refs[o] - 1 ELSE refs[o]
      BY <1>1, <1>2 DEF IInv, Shape
  <2>4. \A u \in Threads \ {t} : Holds(u, o)' <=> Holds(u, o)
      BY DEF ReleaseOne, IInv, Shape, Holds
  <2>5. /\ pc[t] = "release" /\ pc'[t] = "release"
        /\ observers' = observers
      BY DEF ReleaseOne
  <2>6. Unique(observers[t])
      BY DEF IInv, NoDuplicates
  <2>7. Holds(t, o) <=> \E i \in pos[t] .. Len(observers[t]) : observers[t][i] = o
      BY <2>5 DEF Holds
  <2>8. Holds(t, o)'
           <=> \E i \in pos[t] + 1 .. Len(observers[t]) : observers[t][i] = o
      BY <1>1, <2>5 DEF Holds
  <2>9. Holds(t, o) <=> o = x \/ Holds(t, o)'
      BY <1>1, <2>7, <2>8 DEF x
  <2>10. o = x => ~Holds(t, o)'
      BY <1>1, <2>6, <2>8 DEF x, Unique
  <2>11. HoldersOf(o)' = IF o = x THEN HoldersOf(o) \ {t} ELSE HoldersOf(o)
      BY <2>4, <2>9, <2>10 DEF HoldersOf
  <2>12. o = x => t \in HoldersOf(o)
      BY <2>9 DEF HoldersOf
  <2>13. /\ Cardinality(HoldersOf(o)) \in Nat
         /\ o = x => Cardinality(HoldersOf(o) \ {t}) = Cardinality(HoldersOf(o)) - 1
      BY <2>12, Counting DEF HoldersOf
  <2>14. One(owner[o]) \in Int /\ One(Listed(o)) \in Int
      BY DEF One
  <2>15. One(Listed(o)') = One(Listed(o))
      BY <2>1 DEF One
  <2> QED
      BY <2>1, <2>2, <2>3, <2>11, <2>13, <2>14, <2>15
<1> QED
    BY <1>3, <1>4, <1>5 DEF IInv

\* The handler returns with nothing left to release.
LEMMA ReturnIInv ==
    ASSUME IInv, NEW t \in Threads, Return(t)
    PROVE  IInv'
<1>1. Shape'
  <2>1. observers' \in [Threads -> Seq(Observers)]
      BY DEF Return, IInv, Shape, Leave, listVars
  <2>2. pc' \in [Threads -> PCs] /\ pos' \in [Threads -> Nat \ {0}]
      BY DEF Return, IInv, Shape, PCs, Leave, listVars
  <2> QED
      BY <2>1, <2>2 DEF Return, IInv, Shape, Leave, listVars
<1>2. NoDuplicates'
  <2>1. ASSUME NEW u \in Threads PROVE Unique(observers'[u])
    <3>1. CASE u = t
      <4>1. observers'[u] = <<>>
          BY <3>1 DEF Return, IInv, Shape, Leave, listVars
      <4> QED
          BY <4>1 DEF Unique
    <3>2. CASE u # t
        BY <3>2 DEF Return, IInv, Shape, NoDuplicates, Leave, listVars
    <3> QED
        BY <3>1, <3>2
  <2>2. notifications' = notifications
      BY DEF Return, Leave, listVars
  <2> QED
      BY <2>1, <2>2 DEF IInv, NoDuplicates
<1>3. RefsExact'
  <2>1. ASSUME NEW o \in Observers PROVE HoldersOf(o)' = HoldersOf(o)
    <3>1. \A u \in Threads \ {t} : Holds(u, o)' <=> Holds(u, o)
        BY DEF Return, IInv, Shape, Holds, Leave, listVars
    <3>2. ~Holds(t, o)
      <4>1. /\ pc[t] = "release" /\ pos[t] > Len(observers[t])
            /\ pos[t] \in Nat /\ Len(observers[t]) \in Nat
          BY LenProperties DEF Return, IInv, Shape, Leave, listVars
      <4> QED
          BY <4>1 DEF Holds
    <3>3. ~Holds(t, o)'
        BY DEF Return, IInv, Shape, Holds, Leave, listVars
    <3> QED
        BY <3>1, <3>2, <3>3 DEF HoldersOf
  <2> QED
      BY <2>1, RefsUnchanged DEF Return, IInv, Leave, listVars
<1> QED
    BY <1>1, <1>2, <1>3 DEF IInv

LEMMA StutterIInv ==
    ASSUME IInv, UNCHANGED vars
    PROVE  IInv'
<1>1. Shape' /\ NoDuplicates'
    BY DEF IInv, Shape, NoDuplicates, vars, listVars, threadVars
<1>2. RefsExact'
    BY HoldersUnchanged, RefsUnchanged DEF IInv, vars, listVars, threadVars
<1> QED
    BY <1>1, <1>2 DEF IInv

LEMMA Induction == Spec => []IInv
<1>1. IInv /\ [Next]_vars => IInv'
  <2> SUFFICES ASSUME IInv, [Next]_vars PROVE IInv'
      OBVIOUS
  <2>1. ASSUME NEW o \in Observers, Register(o) \/ Unregister(o) \/ ReleaseOwn(o)
        PROVE  IInv'
      BY <2>1, RegisterIInv, UnregisterIInv, ReleaseOwnIInv
  <2>2. CASE Destroy \/ Construct \/ Crash
      BY <2>2, DestroyIInv, ConstructIInv, CrashIInv
  <2>3. ASSUME NEW t \in Threads, NEW msg \in Messages,
               Arrive(t, msg) \/ Drop(t, msg)
        PROVE  IInv'
      BY <2>3, ArriveIInv
  <2>4. ASSUME NEW t \in Threads, Handle(t)
        PROVE  IInv'
      BY <2>4, TakeSnapshotIInv, NotifyIInv, ReleaseOneIInv, ReturnIInv DEF Handle
  <2>5. CASE UNCHANGED vars
      BY <2>5, StutterIInv
  <2> QED
      BY <2>1, <2>2, <2>3, <2>4, <2>5 DEF Next
<1> QED
    BY <1>1, InitIInv, PTL DEF Spec

-----------------------------------------------------------------------------
\* The counts are never negative.
LEMMA RefsNatural == IInv => refs \in [Observers -> Nat]
<1> SUFFICES ASSUME IInv PROVE refs \in [Observers -> Nat]
    OBVIOUS
<1>1. ASSUME NEW o \in Observers PROVE refs[o] \in Nat
  <2>1. Cardinality(HoldersOf(o)) \in Nat
      BY Counting DEF HoldersOf
  <2> QED
      BY <2>1 DEF IInv, RefsExact, One
<1> QED
    BY <1>1 DEF IInv, Shape

\* Every variable of the observers and of the dispatch threads keeps its type;
\* in particular no reference count of an observer goes below zero, however
\* Register, Unregister, the destructor and the deliveries interleave.
THEOREM TypeCorrect == Spec => []TypeOK
<1>1. IInv => TypeOK
    BY RefsNatural DEF IInv, Shape, TypeOK
<1> QED
    BY <1>1, Induction, PTL

\* The references of every observer are exactly those of its client, of its
\* registration and of the snapshots that hold it, for any number of observers
\* and of dispatch threads.
THEOREM ReferencesExact == Spec => []RefsExact
<1>1. IInv => RefsExact
    BY DEF IInv
<1> QED
    BY <1>1, Induction, PTL

\* A destroyed observer is not referenced again: what ObserverSnapshot takes a
\* reference to, and what Register adds, still has one.
THEOREM DestroyedStaysDestroyed == Spec => NoResurrection
<1>1. IInv /\ [Next]_vars
        => [\A o \in Observers : refs[o] = 0 => refs'[o] = 0]_vars
  <2> SUFFICES ASSUME IInv, Next, NEW o \in Observers, refs[o] = 0
               PROVE  refs'[o] = 0
      BY DEF vars, listVars, threadVars
  <2>1. /\ Cardinality(HoldersOf(o)) \in Nat
        /\ refs[o] = One(owner[o]) + One(Listed(o)) + Cardinality(HoldersOf(o))
      BY Counting DEF HoldersOf, IInv, RefsExact
  <2>2. ~owner[o] /\ ~Listed(o) /\ HoldersOf(o) = {}
    <3>1. One(owner[o]) = 0 /\ One(Listed(o)) = 0 /\ Cardinality(HoldersOf(o)) = 0
        BY <2>1 DEF One
    <3>2. IsFiniteSet(HoldersOf(o))
        BY FS_Subset, ThreadsAssumption DEF HoldersOf
    <3> QED
        BY <3>1, <3>2, FS_EmptySet DEF One
  <2>3. ASSUME NEW x \in Observers, Register(x) \/ Unregister(x) \/ ReleaseOwn(x)
        PROVE  refs'[o] = 0
    <3>1. owner[x] /\ \E d \in {-1, 1} : refs' = [refs EXCEPT ![x] = @ + d]
        BY <2>3
        DEF Register, Unregister, Erase, ReleaseOwn, IInv, Shape, Add, threadVars
    <3> QED
        BY <2>2, <3>1
  <2>4. CASE Destroy
    <3>1. refs'[o] = refs[o] - One(Listed(o)) /\ One(Listed(o)) = 0
        BY <2>2, <2>4 DEF Destroy, One
    <3> QED
        BY <3>1
  <2>9. CASE Construct \/ Crash
      BY <2>2, <2>9 DEF Construct, Crash, One
  <2>5. ASSUME NEW t \in Threads, NEW msg \in Messages,
               Arrive(t, msg) \/ Drop(t, msg)
        PROVE  refs'[o] = 0
      BY <2>5 DEF Arrive, Drop, Raise, listVars
  <2>6. ASSUME NEW t \in Threads, TakeSnapshot(t)
        PROVE  refs'[o] = 0
      BY <2>2, <2>6 DEF TakeSnapshot, One
  <2>7. ASSUME NEW t \in Threads, Notify(t) \/ EndNotify(t) \/ Return(t)
        PROVE  refs'[o] = 0
      BY <2>7 DEF Notify, EndNotify, Return, listVars, BeginRelease, Leave
  <2>8. ASSUME NEW t \in Threads, ReleaseOne(t)
        PROVE  refs'[o] = 0
    <3>1. observers[t][pos[t]] # o
      <4>1. ~Holds(t, o) /\ pc[t] = "release"
          BY <2>2, <2>8 DEF HoldersOf, ReleaseOne
      <4>2. /\ Len(observers[t]) \in Nat
            /\ pos[t] \in pos[t] .. Len(observers[t])
          BY <2>8, LenProperties DEF ReleaseOne, IInv, Shape
      <4> QED
          BY <4>1, <4>2 DEF Holds
    <3>2. refs' = [refs EXCEPT ![observers[t][pos[t]]] = @ - 1]
        BY <2>8 DEF ReleaseOne
    <3> QED
        BY <3>1, <3>2 DEF IInv, Shape
  <2> QED
      BY <2>3, <2>4, <2>5, <2>6, <2>7, <2>8, <2>9 DEF Next, Handle
<1> QED
    BY <1>1, Induction, PTL DEF Spec, NoResurrection

-----------------------------------------------------------------------------
\* What observers hear, and that ObserverList implements EventBroadcast.  Beyond
\* the list and the snapshots, that takes the numbers of the events: each is on
\* its way on one thread at most, and an observer that a thread has still to call
\* has not heard its event yet.

\* Thread t has still to call observer o for its event.
Ahead(t, o) ==
    \/ pc[t] = "snapshot"
    \/ /\ pc[t] = "notify"
       /\ \E i \in pos[t] .. Len(observers[t]) : observers[t][i] = o

\* The events on their way and those heard were raised, and no two threads have
\* the same one.
Numbered ==
    /\ raised \in 0 .. MaxEvents
    /\ \A t \in Threads : pc[t] # "idle" => event[t] \in 1 .. raised
    /\ \A t, u \in Threads :
          pc[t] # "idle" /\ pc[u] # "idle" /\ event[t] = event[u] => t = u
    /\ \A o \in Observers : \A i \in 1 .. Len(delivered[o]) :
          delivered[o][i] \in 1 .. raised

HeardOnce ==
    /\ \A t \in Threads, o \in Observers :
          Ahead(t, o) => ~Contains(delivered[o], event[t])
    /\ \A o \in Observers : Unique(delivered[o])

DInv == IInv /\ Numbered /\ HeardOnce

-----------------------------------------------------------------------------
\* The induction: what a step may do to a thread's event and to what it has
\* ahead of it.

\* Steps that raise no event and deliver none: threads go on, or stop being busy.
LEMMA NothingNew ==
    ASSUME Numbered, HeardOnce, UNCHANGED <<raised, delivered>>,
           \A t \in Threads :
              /\ pc'[t] # "idle" => pc[t] # "idle" /\ event'[t] = event[t]
              /\ \A o \in Observers : Ahead(t, o)' => Ahead(t, o) /\ event'[t] = event[t]
    PROVE  Numbered' /\ HeardOnce'
<1>1. Numbered'
    BY DEF Numbered
<1>2. HeardOnce'
    BY DEF HeardOnce
<1> QED
    BY <1>1, <1>2

\* What clients, the destructor and a new activation do to the list is nothing to
\* the threads.
LEMMA ListOnly ==
    ASSUME Numbered, HeardOnce, UNCHANGED <<threadVars, raised, delivered>>
    PROVE  Numbered' /\ HeardOnce'
BY NothingNew DEF threadVars, Ahead

LEMMA CrashNumbers ==
    ASSUME Numbered, HeardOnce, Crash
    PROVE  Numbered' /\ HeardOnce'
<1>1. \A t \in Threads : pc'[t] = "idle"
    BY DEF Crash, Idle
<1> QED
    BY <1>1, NothingNew DEF Crash, Ahead

\* A new event has a number of its own, which nobody has heard.
LEMMA RaiseNumbers ==
    ASSUME DInv, NEW t \in Threads, NEW msg \in Messages,
           Arrive(t, msg) \/ Drop(t, msg)
    PROVE  Numbered' /\ HeardOnce'
<1>1. /\ raised' = raised + 1 /\ raised' \in 0 .. MaxEvents /\ raised \in Nat
      /\ UNCHANGED <<observers, pos, delivered>>
    BY MaxEventsAssumption DEF Arrive, Drop, Raise, DInv, Numbered
<1>2. /\ \A u \in Threads \ {t} : pc'[u] = pc[u] /\ event'[u] = event[u]
      /\ pc[t] = "idle"
      /\ \/ pc'[t] = "idle"
         \/ pc'[t] = "snapshot" /\ event'[t] = raised + 1
    BY DEF Arrive, Drop, Raise, DInv, IInv, Shape
<1>3. Numbered'
  <2>1. \A u \in Threads : pc'[u] # "idle" => event'[u] \in 1 .. raised'
      BY <1>1, <1>2 DEF DInv, Numbered
  <2>2. \A u \in Threads \ {t} : pc'[u] # "idle" => event'[u] \in 1 .. raised
      BY <1>2 DEF DInv, Numbered
  <2>3. ASSUME NEW u \in Threads, NEW v \in Threads,
               pc'[u] # "idle", pc'[v] # "idle", event'[u] = event'[v]
        PROVE  u = v
    <3>1. CASE u # t /\ v # t
        BY <1>2, <2>3, <3>1 DEF DInv, Numbered
    <3>2. CASE u = t \/ v = t
        BY <1>1, <1>2, <2>2, <2>3, <3>2
    <3> QED
        BY <3>1, <3>2
  <2>4. \A o \in Observers : \A i \in 1 .. Len(delivered'[o]) :
            delivered'[o][i] \in 1 .. raised'
      BY <1>1 DEF DInv, Numbered
  <2> QED
      BY <1>1, <2>1, <2>3, <2>4 DEF Numbered
<1>4. HeardOnce'
  <2>1. ASSUME NEW u \in Threads, NEW o \in Observers, Ahead(u, o)'
        PROVE  ~Contains(delivered[o], event'[u])
    <3>1. CASE u = t
      <4>1. event'[u] = raised + 1
          BY <1>2, <2>1, <3>1 DEF Ahead
      <4> QED
          BY <1>1, <4>1 DEF Contains, DInv, Numbered
    <3>2. CASE u # t
        BY <1>1, <1>2, <2>1, <3>2 DEF Ahead, DInv, HeardOnce
    <3> QED
        BY <3>1, <3>2
  <2> QED
      BY <1>1, <2>1 DEF DInv, HeardOnce
<1> QED
    BY <1>3, <1>4

LEMMA SnapshotNumbers ==
    ASSUME DInv, NEW t \in Threads, TakeSnapshot(t)
    PROVE  Numbered' /\ HeardOnce'
<1>1. /\ pc[t] = "snapshot" /\ pc'[t] = "notify"
      /\ UNCHANGED <<event, raised, delivered>>
      /\ \A u \in Threads \ {t} :
            pc'[u] = pc[u] /\ observers'[u] = observers[u] /\ pos'[u] = pos[u]
    BY DEF TakeSnapshot, Copy, DInv, IInv, Shape
<1> QED
    BY <1>1, NothingNew DEF Ahead, DInv

\* A call takes an observer of the thread's snapshot to what it has heard, and
\* that observer is nowhere ahead of a thread with the same event any more.
LEMMA NotifyFacts ==
    ASSUME DInv, NEW t \in Threads, Notify(t)
    PROVE  /\ Len(observers[t]) \in Nat /\ pos[t] \in 1 .. Len(observers[t])
           /\ observers[t][pos[t]] \in Observers
           /\ pc[t] = "notify"
           /\ event[t] \in 1 .. raised /\ raised \in Nat
           /\ pos'[t] = pos[t] + 1
           /\ \A u \in Threads \ {t} : pos'[u] = pos[u]
           /\ UNCHANGED <<pc, event, observers, raised>>
           /\ delivered'[observers[t][pos[t]]]
                 = Append(delivered[observers[t][pos[t]]], event[t])
           /\ \A o \in Observers \ {observers[t][pos[t]]} : delivered'[o] = delivered[o]
<1>1. observers[t] \in Seq(Observers) /\ pos[t] \in Nat \ {0}
    BY DEF DInv, IInv, Shape
<1>2. Len(observers[t]) \in Nat /\ pos[t] \in 1 .. Len(observers[t])
    BY <1>1, LenProperties DEF Notify
<1>3. observers[t][pos[t]] \in Observers
    BY <1>1, <1>2, ElementOfSeq
<1>4. /\ pc[t] = "notify" /\ raised \in Nat /\ event[t] \in 1 .. raised
    BY DEF Notify, DInv, IInv, Shape, Numbered
<1>5. /\ pos' = [pos EXCEPT ![t] = @ + 1]
      /\ delivered' = [delivered EXCEPT ![observers[t][pos[t]]] = Append(@, event[t])]
      /\ UNCHANGED <<pc, event, observers, raised>>
    BY DEF Notify
<1>6. DOMAIN pos = Threads /\ DOMAIN delivered = Observers
    BY DEF DInv, IInv, Shape
<1> QED
    BY <1>2, <1>3, <1>4, <1>5, <1>6

LEMMA NotifyNumbers ==
    ASSUME DInv, NEW t \in Threads, Notify(t)
    PROVE  Numbered' /\ HeardOnce'
<1> DEFINE x == observers[t][pos[t]]
<1>1. /\ Len(observers[t]) \in Nat /\ pos[t] \in 1 .. Len(observers[t])
      /\ x \in Observers /\ pc[t] = "notify"
      /\ event[t] \in 1 .. raised /\ raised \in Nat
      /\ pos'[t] = pos[t] + 1
      /\ \A u \in Threads \ {t} : pos'[u] = pos[u]
      /\ UNCHANGED <<pc, event, observers, raised>>
      /\ delivered'[x] = Append(delivered[x], event[t])
      /\ \A o \in Observers \ {x} : delivered'[o] = delivered[o]
    BY NotifyFacts
<1>2. Ahead(t, x)
    BY <1>1 DEF Ahead
<1> HIDE DEF x
<1>3. ~Contains(delivered[x], event[t]) /\ Unique(delivered[x])
    BY <1>1, <1>2 DEF DInv, HeardOnce
<1>4. delivered[x] \in Seq(Nat) /\ event[t] \in Nat
    BY <1>1 DEF DInv, IInv, Shape
<1>5. /\ Unique(delivered'[x])
      /\ \A e : Contains(delivered'[x], e)
                   <=> Contains(delivered[x], e) \/ e = event[t]
    BY <1>1, <1>3, <1>4, AppendUnique
<1>6. Numbered'
  <2>1. \A o \in Observers : \A i \in 1 .. Len(delivered'[o]) :
            Contains(delivered'[o], delivered'[o][i])
      BY DEF Contains
  <2>2. \A o \in Observers : \A e : Contains(delivered[o], e) => e \in 1 .. raised
      BY DEF Contains, DInv, Numbered
  <2>3. ASSUME NEW o \in Observers, NEW i \in 1 .. Len(delivered'[o])
        PROVE  delivered'[o][i] \in 1 .. raised
    <3>1. CASE o = x
        BY <1>1, <1>5, <2>1, <2>2, <3>1
    <3>2. CASE o # x
        BY <1>1, <2>3, <3>2 DEF DInv, Numbered
    <3> QED
        BY <3>1, <3>2
  <2> QED
      BY <1>1, <2>3 DEF DInv, Numbered
<1>7. HeardOnce'
  <2>1. ASSUME NEW u \in Threads, NEW o \in Observers, Ahead(u, o)'
        PROVE  ~Contains(delivered'[o], event'[u])
    <3>1. Ahead(u, o)
        BY <1>1, <2>1 DEF Ahead
    <3>2. ~Contains(delivered[o], event[u])
        BY <3>1 DEF DInv, HeardOnce
    <3>3. CASE o # x
        BY <1>1, <3>2, <3>3
    <3>4. CASE o = x
      <4>1. u # t
        <5>1. Unique(observers[t])
            BY DEF DInv, IInv, NoDuplicates
        <5>2. ~Ahead(t, o)'
            BY <1>1, <3>4, <5>1 DEF Ahead, Unique, x
        <5> QED
            BY <2>1, <5>2
      <4>2. pc[u] # "idle"
          BY <3>1 DEF Ahead
      <4>3. event[u] # event[t]
          BY <1>1, <4>1, <4>2 DEF DInv, Numbered
      <4> QED
          BY <1>1, <1>5, <3>2, <3>4, <4>3
    <3> QED
        BY <3>3, <3>4
  <2>2. \A o \in Observers : Unique(delivered'[o])
      BY <1>1, <1>5 DEF DInv, HeardOnce
  <2> QED
      BY <2>1, <2>2 DEF HeardOnce
<1> QED
    BY <1>6, <1>7

\* The rest of the handler has nobody ahead.
LEMMA RestNumbers ==
    ASSUME DInv, NEW t \in Threads, EndNotify(t) \/ ReleaseOne(t) \/ Return(t)
    PROVE  Numbered' /\ HeardOnce'
<1>1. /\ UNCHANGED <<raised, delivered>>
      /\ pc[t] # "idle" /\ pc'[t] \in {"release", "idle"}
      /\ pc'[t] # "idle" => event'[t] = event[t]
      /\ \A u \in Threads \ {t} :
            /\ pc'[u] = pc[u] /\ event'[u] = event[u]
            /\ observers'[u] = observers[u] /\ pos'[u] = pos[u]
    BY DEF EndNotify, BeginRelease, ReleaseOne, Return, Leave, DInv, IInv, Shape
<1> QED
    BY <1>1, NothingNew DEF Ahead, DInv

LEMMA DInduction == Spec => []DInv
<1>1. Init => DInv
  <2> SUFFICES ASSUME Init PROVE DInv
      OBVIOUS
  <2>1. Numbered /\ HeardOnce
      BY MaxEventsAssumption
      DEF Init, Idle, Numbered, HeardOnce, Ahead, Unique
  <2> QED
      BY <2>1, InitIInv DEF DInv
<1>2. DInv /\ IInv' /\ [Next]_vars => DInv'
  <2> SUFFICES ASSUME DInv, IInv', [Next]_vars PROVE Numbered' /\ HeardOnce'
      BY DEF DInv
  <2> USE DEF DInv
  <2>1. ASSUME NEW o \in Observers, Register(o) \/ Unregister(o) \/ ReleaseOwn(o)
        PROVE  Numbered' /\ HeardOnce'
      BY <2>1, ListOnly DEF Register, Add, Unregister, Erase, ReleaseOwn
  <2>2. CASE Destroy \/ Construct
      BY <2>2, ListOnly DEF Destroy, Construct
  <2>3. CASE Crash
      BY <2>3, CrashNumbers
  <2>4. ASSUME NEW t \in Threads, NEW msg \in Messages,
               Arrive(t, msg) \/ Drop(t, msg)
        PROVE  Numbered' /\ HeardOnce'
      BY <2>4, RaiseNumbers
  <2>5. ASSUME NEW t \in Threads, Handle(t)
        PROVE  Numbered' /\ HeardOnce'
      BY <2>5, SnapshotNumbers, NotifyNumbers, RestNumbers DEF Handle
  <2>6. CASE UNCHANGED vars
      BY <2>6, ListOnly DEF vars
  <2> QED
      BY <2>1, <2>2, <2>3, <2>4, <2>5, <2>6 DEF Next
<1> QED
    BY <1>1, <1>2, Induction, PTL DEF Spec

\* No observer is called twice for one event.
THEOREM CalledOnce == Spec => []DeliveredOnce
<1>1. DInv => DeliveredOnce
  <2> SUFFICES ASSUME DInv, NEW o \in Observers PROVE IsInjective(delivered[o])
      BY DEF DeliveredOnce
  <2>1. delivered[o] \in Seq(Nat) /\ Unique(delivered[o])
      BY DEF DInv, HeardOnce, IInv, Shape
  <2>2. DOMAIN delivered[o] = 1 .. Len(delivered[o])
      BY <2>1, LenProperties
  <2> QED
      BY <2>1, <2>2 DEF IsInjective, Unique
<1> QED
    BY <1>1, DInduction, PTL

-----------------------------------------------------------------------------
\* The refinement: what each step is in the abstract broadcast.

LEMMA Subscribers ==
    ASSUME NEW s \in Seq(Observers)
    PROVE  ToSet(s) = {o \in Observers : Contains(s, o)}
<1>1. DOMAIN s = 1 .. Len(s) /\ \A i \in 1 .. Len(s) : s[i] \in Observers
    BY LenProperties, ElementOfSeq
<1> QED
    BY <1>1 DEF ToSet, Contains

\* A step of the list only gives nobody an event and owes nobody one.
LEMMA ListOnlyMoves ==
    ASSUME UNCHANGED <<threadVars, raised, delivered>>
    PROVE  Published' = Published /\ Owed' = Owed /\ Given' = Given
BY DEF threadVars, Published, Owed, Given

LEMMA ClientSteps ==
    ASSUME DInv, DInv', NEW x \in Observers,
           Register(x) \/ Unregister(x) \/ ReleaseOwn(x)
    PROVE  [Broadcast!Next]_(Broadcast!vars)
<1>1. Published' = Published /\ Owed' = Owed /\ Given' = Given
    BY ListOnlyMoves DEF Register, Add, Unregister, Erase, ReleaseOwn
<1>2. /\ notifications \in Seq(Observers) /\ Unique(notifications)
      /\ notifications' \in Seq(Observers)
    BY DEF DInv, IInv, Shape, NoDuplicates
<1>3. CASE Register(x)
  <2>1. notifications' = Append(notifications, x) /\ ~Contains(notifications, x)
      BY <1>3 DEF Register, Listed, Add
  <2>2. ToSet(notifications)' = ToSet(notifications) \cup {x}
    <3>1. /\ ToSet(notifications) = {o \in Observers : Contains(notifications, o)}
          /\ ToSet(notifications') = {o \in Observers : Contains(notifications', o)}
        BY <1>2, Subscribers
    <3>2. \A o : Contains(notifications', o) <=> Contains(notifications, o) \/ o = x
        BY <1>2, <2>1, AppendUnique
    <3>3. ToSet(notifications)' = ToSet(notifications')
        OBVIOUS
    <3> QED
        BY <3>1, <3>2, <3>3
  <2>3. Broadcast!Subscribe(x)
      BY <1>1, <2>2 DEF Broadcast!Subscribe
  <2> QED
      BY <2>3 DEF Broadcast!Next
<1>4. CASE Unregister(x)
  <2>1. PICK i \in 1 .. Len(notifications) :
            notifications[i] = x /\ notifications' = RemoveAt(notifications, i)
    <3>1. DOMAIN notifications = 1 .. Len(notifications)
        BY <1>2, LenProperties
    <3> QED
        BY <1>4, <3>1 DEF Unregister, Erase
  <2>2. ToSet(notifications)' = ToSet(notifications) \ {x}
      BY <1>2, <2>1, RemoveAtUnique, Subscribers
  <2>3. Broadcast!Unsubscribe(x)
      BY <1>1, <2>2 DEF Broadcast!Unsubscribe
  <2> QED
      BY <2>3 DEF Broadcast!Next
<1>5. CASE ReleaseOwn(x)
    BY <1>1, <1>5 DEF ReleaseOwn, Broadcast!vars
<1> QED
    BY <1>3, <1>4, <1>5

LEMMA ObjectSteps ==
    ASSUME DInv, Destroy \/ Construct \/ Crash
    PROVE  [Broadcast!Next]_(Broadcast!vars)
<1>1. CASE Destroy
  <2>1. Published' = Published /\ Owed' = Owed /\ Given' = Given
      BY <1>1, ListOnlyMoves DEF Destroy
  <2>2. ToSet(notifications)' = {}
      BY <1>1 DEF Destroy, ToSet
  <2>3. Broadcast!Close
      BY <2>1, <2>2 DEF Broadcast!Close
  <2> QED
      BY <2>3 DEF Broadcast!Next
<1>2. CASE Construct
  <2>1. Published' = Published /\ Owed' = Owed /\ Given' = Given
      BY <1>2, ListOnlyMoves DEF Construct
  <2> QED
      BY <1>2, <2>1 DEF Construct, Broadcast!vars
<1>3. CASE Crash
  <2>1. /\ ToSet(notifications)' = {}
        /\ \A t \in Threads : pc'[t] = "idle"
        /\ UNCHANGED <<raised, delivered>>
      BY <1>3 DEF Crash, Idle, ToSet
  <2>2. Owed' = {} /\ Given' = Given
      BY <2>1 DEF Owed, Given
  <2>3. Published' = 1 .. raised /\ Published \subseteq 1 .. raised
      BY <2>1 DEF Published
  <2>4. 1 .. raised \subseteq Events
      BY MaxEventsAssumption DEF Events, DInv, Numbered
  <2>5. Published' = Published \cup (1 .. raised)
      BY <2>3
  <2>6. Broadcast!Crash
      BY <2>1, <2>2, <2>4, <2>5 DEF Broadcast!Crash
  <2> QED
      BY <2>6 DEF Broadcast!Next
<1> QED
    BY <1>1, <1>2, <1>3

\* The arrival of an event that is handled shows nothing, it is published with the
\* snapshot; one that is dropped is discarded.
LEMMA RaiseSteps ==
    ASSUME DInv, NEW t \in Threads, NEW msg \in Messages,
           Arrive(t, msg) \/ Drop(t, msg)
    PROVE  [Broadcast!Next]_(Broadcast!vars)
<1>1. /\ raised' = raised + 1 /\ raised \in Nat /\ raised + 1 \in Events
      /\ UNCHANGED <<notifications, observers, pos, delivered>>
    BY MaxEventsAssumption
    DEF Arrive, Drop, Raise, listVars, Events, DInv, Numbered
<1>2. /\ \A u \in Threads \ {t} : pc'[u] = pc[u] /\ event'[u] = event[u]
      /\ pc[t] = "idle"
    BY DEF Arrive, Drop, Raise, DInv, IInv, Shape
<1>3. \A u \in Threads : pc[u] = "snapshot" => event[u] \in 1 .. raised
    BY DEF DInv, Numbered
<1>4. Given' = Given
    BY <1>1 DEF Given
<1>5. pc'[t] # "notify"
    BY <1>2 DEF Arrive, Drop, DInv, IInv, Shape
<1>6. Owed' = Owed
    BY <1>1, <1>2, <1>5 DEF Owed
<1>7. CASE Arrive(t, msg)
  <2>1. pc'[t] = "snapshot" /\ event'[t] = raised + 1
      BY <1>7 DEF Arrive, DInv, IInv, Shape
  <2>2. Published' = Published
      BY <1>1, <1>2, <1>3, <2>1 DEF Published
  <2> QED
      BY <1>1, <1>4, <1>6, <2>2 DEF Broadcast!vars
<1>8. CASE Drop(t, msg)
  <2>1. UNCHANGED <<pc, event>>
      BY <1>8 DEF Drop
  <2>2. /\ Published' = Published \cup {raised + 1}
        /\ raised + 1 \notin Published
      BY <1>1, <1>3, <2>1 DEF Published
  <2>3. Broadcast!Discard(raised + 1)
      BY <1>1, <1>4, <1>6, <2>2 DEF Broadcast!Discard
  <2> QED
      BY <1>1, <2>3 DEF Broadcast!Next
<1> QED
    BY <1>7, <1>8

\* The snapshot publishes the event, to the observers it finds.
LEMMA SnapshotSteps ==
    ASSUME DInv, NEW t \in Threads, TakeSnapshot(t)
    PROVE  [Broadcast!Next]_(Broadcast!vars)
<1> DEFINE e == event[t]
<1>1. /\ pc[t] = "snapshot" /\ pc'[t] = "notify" /\ pos'[t] = 1
      /\ observers'[t] = notifications
      /\ UNCHANGED <<notifications, event, raised, delivered>>
      /\ \A u \in Threads \ {t} :
            pc'[u] = pc[u] /\ observers'[u] = observers[u] /\ pos'[u] = pos[u]
    BY DEF TakeSnapshot, Copy, DInv, IInv, Shape
<1>2. e \in 1 .. raised /\ e \in Events
    BY <1>1, MaxEventsAssumption DEF DInv, Numbered, Events
<1>3. \A u \in Threads \ {t} : pc[u] = "snapshot" => event[u] # e
    BY <1>1 DEF DInv, Numbered
<1>4. Published' = Published \cup {e} /\ e \notin Published
    BY <1>1, <1>2, <1>3 DEF Published
<1>5. Given' = Given
    BY <1>1 DEF Given
<1>6. Owed' = Owed \cup ({e} \X ToSet(notifications))
  <2>1. /\ notifications \in Seq(Observers)
        /\ ToSet(notifications) = {o \in Observers : Contains(notifications, o)}
      BY Subscribers DEF DInv, IInv, Shape
  <2>2. ASSUME NEW o \in Observers, NEW f \in Events
        PROVE  <<f, o>> \in Owed' <=>
                  <<f, o>> \in Owed \/ (f = e /\ Contains(notifications, o))
      BY <1>1 DEF Owed, Contains
  <2>3. Owed \subseteq Events \X Observers /\ Owed' \subseteq Events \X Observers
      BY DEF Owed
  <2>4. {e} \X ToSet(notifications) \subseteq Events \X Observers
      BY <1>2, <2>1
  <2>5. \A p \in Events \X Observers :
           p = <<p[1], p[2]>> /\ p[1] \in Events /\ p[2] \in Observers
      OBVIOUS
  <2>6. ASSUME NEW p \in Events \X Observers
        PROVE  p \in Owed' <=> p \in Owed \cup ({e} \X ToSet(notifications))
    <3>1. p \in Owed' <=> p \in Owed \/ (p[1] = e /\ Contains(notifications, p[2]))
        BY <2>2, <2>5
    <3>2. p \in {e} \X ToSet(notifications)
             <=> p[1] = e /\ Contains(notifications, p[2])
        BY <2>1, <2>5
    <3> QED
        BY <3>1, <3>2
  <2> QED
      BY <2>3, <2>4, <2>6
<1>7. Broadcast!Publish(e)
    BY <1>1, <1>4, <1>5, <1>6 DEF Broadcast!Publish
<1> QED
    BY <1>2, <1>7 DEF Broadcast!Next

\* A callback delivers one pair that is owed.
LEMMA NotifySteps ==
    ASSUME DInv, NEW t \in Threads, Notify(t)
    PROVE  [Broadcast!Next]_(Broadcast!vars)
<1> DEFINE x == observers[t][pos[t]]
           e == event[t]
<1>1. /\ Len(observers[t]) \in Nat /\ pos[t] \in 1 .. Len(observers[t])
      /\ x \in Observers /\ pc[t] = "notify"
      /\ e \in 1 .. raised /\ raised \in Nat
      /\ pos'[t] = pos[t] + 1
      /\ \A u \in Threads \ {t} : pos'[u] = pos[u]
      /\ UNCHANGED <<pc, event, observers, raised>>
      /\ delivered'[x] = Append(delivered[x], e)
      /\ \A o \in Observers \ {x} : delivered'[o] = delivered[o]
    BY NotifyFacts
<1>2. e \in Events /\ e \in Nat /\ notifications' = notifications
    BY <1>1, MaxEventsAssumption DEF DInv, Numbered, Events, Notify, listVars
<1>3. \A u \in Threads \ {t} : pc[u] = "notify" => event[u] # e
    BY <1>1 DEF DInv, Numbered
<1>4. Unique(observers[t])
    BY DEF DInv, IInv, NoDuplicates
<1>5. \A i \in pos[t] .. Len(observers[t]) : observers[t][i] = x <=> i = pos[t]
    BY <1>1, <1>4 DEF Unique
<1>7. Published' = Published
    BY <1>1 DEF Published
<1> HIDE DEF x, e
<1>8. <<e, x>> \in Owed
    BY <1>1, <1>2, <1>5 DEF Owed, x, e
<1>9. ASSUME NEW p \in Events \X Observers
      PROVE  p \in Owed' <=> p \in Owed /\ p # <<e, x>>
  <2>1. PICK f \in Events, o \in Observers : p = <<f, o>>
      OBVIOUS
  <2>2. p \in Owed <=>
            \E u \in Threads : /\ pc[u] = "notify" /\ event[u] = f
                               /\ \E i \in pos[u] .. Len(observers[u]) : observers[u][i] = o
      BY <2>1 DEF Owed
  <2>3. p \in Owed' <=>
            \E u \in Threads : /\ pc[u] = "notify" /\ event[u] = f
                               /\ \E i \in pos'[u] .. Len(observers[u]) : observers[u][i] = o
      BY <1>1, <2>1 DEF Owed
  <2>4. CASE f # e
      BY <1>1, <2>1, <2>2, <2>3, <2>4 DEF e
  <2>5. CASE f = e
    <3>1. p \in Owed <=> \E i \in pos[t] .. Len(observers[t]) : observers[t][i] = o
        BY <1>1, <1>3, <2>2, <2>5 DEF e
    <3>2. p \in Owed'
             <=> \E i \in pos[t] + 1 .. Len(observers[t]) : observers[t][i] = o
        BY <1>1, <1>3, <2>3, <2>5 DEF e
    <3> QED
        BY <1>1, <1>5, <2>1, <2>5, <3>1, <3>2
  <2> QED
      BY <2>4, <2>5
<1>10. Owed' = Owed \ {<<e, x>>}
  <2>1. Owed \subseteq Events \X Observers /\ Owed' \subseteq Events \X Observers
      BY DEF Owed
  <2> QED
      BY <1>9, <2>1
<1>11. Given' = Given \cup {<<e, x>>}
  <2>1. \A f : Contains(delivered'[x], f) <=> Contains(delivered[x], f) \/ f = e
    <3>1. delivered[x] \in Seq(Nat) /\ Unique(delivered[x])
        BY <1>1 DEF DInv, HeardOnce, IInv, Shape
    <3>2. ~Contains(delivered[x], e)
        BY <1>1, <1>5 DEF DInv, HeardOnce, Ahead, x, e
    <3> QED
        BY <1>1, <1>2, <3>1, <3>2, AppendUnique
  <2>2. Given \subseteq Events \X Observers /\ Given' \subseteq Events \X Observers
      BY DEF Given
  <2>3. ASSUME NEW f \in Events, NEW o \in Observers
        PROVE  <<f, o>> \in Given' <=> <<f, o>> \in Given \/ <<f, o>> = <<e, x>>
    <3>1. /\ <<f, o>> \in Given <=> Contains(delivered[o], f)
          /\ <<f, o>> \in Given' <=> Contains(delivered'[o], f)
        BY DEF Given
    <3> QED
        BY <1>1, <2>1, <3>1
  <2>4. ASSUME NEW p \in Events \X Observers
        PROVE  p \in Given' <=> p \in Given \cup {<<e, x>>}
    <3>1. PICK f \in Events, o \in Observers : p = <<f, o>>
        OBVIOUS
    <3> QED
        BY <2>3, <3>1
  <2>5. <<e, x>> \in Events \X Observers
      BY <1>1, <1>2
  <2> QED
      BY <2>2, <2>4, <2>5
<1>12. Broadcast!Deliver(e, x)
    BY <1>2, <1>7, <1>8, <1>10, <1>11 DEF Broadcast!Deliver
<1> QED
    BY <1>1, <1>2, <1>12 DEF Broadcast!Next

\* The releases and the return of the handler show nothing.
LEMMA RestSteps ==
    ASSUME DInv, NEW t \in Threads, EndNotify(t) \/ ReleaseOne(t) \/ Return(t)
    PROVE  UNCHANGED Broadcast!vars
<1>1. /\ UNCHANGED <<notifications, raised, delivered>>
      /\ pc[t] \in {"notify", "release"} /\ pc'[t] \in {"release", "idle"}
      /\ \A u \in Threads \ {t} :
            /\ pc'[u] = pc[u] /\ event'[u] = event[u]
            /\ observers'[u] = observers[u] /\ pos'[u] = pos[u]
    BY DEF EndNotify, BeginRelease, ReleaseOne, Return, Leave, listVars,
           DInv, IInv, Shape
<1>2. pc[t] = "notify" => \A i \in pos[t] .. Len(observers[t]) : FALSE
  <2>1. Len(observers[t]) \in Nat /\ pos[t] \in Nat
      BY LenProperties DEF DInv, IInv, Shape
  <2> QED
      BY <2>1 DEF EndNotify, ReleaseOne, Return, Leave
<1>3. Published' = Published /\ Given' = Given
    BY <1>1 DEF Published, Given
<1>4. Owed' = Owed
    BY <1>1, <1>2 DEF Owed
<1> QED
    BY <1>1, <1>3, <1>4 DEF Broadcast!vars

\* Every step of the list and of its threads is a step of the broadcast, or none:
\* an event is published when its snapshot is taken, to exactly the observers
\* that are registered then, and each of them is called once, unless the
\* process dies.
THEOREM ListImplementsBroadcast == Spec => ImplementsBroadcast
<1>1. Init => Broadcast!Init
    BY DEF Init, Idle, Broadcast!Init, ToSet, Published, Owed, Given, Contains
<1>2. DInv /\ DInv' /\ [Next]_vars => [Broadcast!Next]_(Broadcast!vars)
  <2> SUFFICES ASSUME DInv, DInv', [Next]_vars
               PROVE  [Broadcast!Next]_(Broadcast!vars)
      OBVIOUS
  <2>1. ASSUME NEW o \in Observers, Register(o) \/ Unregister(o) \/ ReleaseOwn(o)
        PROVE  [Broadcast!Next]_(Broadcast!vars)
      BY <2>1, ClientSteps
  <2>2. CASE Destroy \/ Construct \/ Crash
      BY <2>2, ObjectSteps
  <2>3. ASSUME NEW t \in Threads, NEW msg \in Messages,
               Arrive(t, msg) \/ Drop(t, msg)
        PROVE  [Broadcast!Next]_(Broadcast!vars)
      BY <2>3, RaiseSteps
  <2>4. ASSUME NEW t \in Threads, Handle(t)
        PROVE  [Broadcast!Next]_(Broadcast!vars)
      BY <2>4, SnapshotSteps, NotifySteps, RestSteps DEF Handle
  <2>5. CASE UNCHANGED vars
    <3>1. UNCHANGED <<notifications, threadVars, raised, delivered>>
        BY <2>5 DEF vars, listVars
    <3> QED
        BY <3>1, ListOnlyMoves DEF Broadcast!vars
  <2> QED
      BY <2>1, <2>2, <2>3, <2>4, <2>5 DEF Next
<1> QED
    BY <1>1, <1>2, DInduction, PTL DEF Spec, ImplementsBroadcast, Broadcast!Spec

-----------------------------------------------------------------------------
\* What the broadcast means for an observer, and so the list that implements it.

BInv == Broadcast!TypeOK /\ Broadcast!OwedOrDelivered

\* A publication makes new pairs only: every pair there is already, owed or
\* delivered, is one of an event that was published before.
LEMMA PublishBInv ==
    ASSUME BInv, NEW e \in Events, Broadcast!Publish(e)
    PROVE  BInv'
<1>1. Broadcast!TypeOK'
    BY DEF BInv, Broadcast!TypeOK, Broadcast!Publish
<1>2. \A p \in Given : p \notin {e} \X ToSet(notifications)
    BY DEF BInv, Broadcast!TypeOK, Broadcast!Publish
<1>3. Broadcast!OwedOrDelivered'
    BY <1>2 DEF BInv, Broadcast!OwedOrDelivered, Broadcast!Publish
<1> QED
    BY <1>1, <1>3 DEF BInv

LEMMA DeliverBInv ==
    ASSUME BInv, NEW e \in Events, NEW o \in Observers, Broadcast!Deliver(e, o)
    PROVE  BInv'
<1>1. <<e, o>> \in Published \X Observers
    BY DEF BInv, Broadcast!TypeOK, Broadcast!Deliver
<1>2. Broadcast!TypeOK'
    BY <1>1 DEF BInv, Broadcast!TypeOK, Broadcast!Deliver
<1>3. Broadcast!OwedOrDelivered'
    BY DEF BInv, Broadcast!OwedOrDelivered, Broadcast!Deliver
<1> QED
    BY <1>2, <1>3 DEF BInv

\* Events that are lost have no pairs.
LEMMA CrashBInv == ASSUME BInv, Broadcast!Crash PROVE BInv'
<1>1. PICK lost \in SUBSET Events : Published' = Published \cup lost
    BY DEF Broadcast!Crash
<1>2. ToSet(notifications)' = {} /\ Owed' = {} /\ Given' = Given
    BY DEF Broadcast!Crash
<1> QED
    BY <1>1, <1>2 DEF BInv, Broadcast!TypeOK, Broadcast!OwedOrDelivered

LEMMA BroadcastInduction == Broadcast!Spec => []BInv
<1>1. Broadcast!Init => BInv
    BY DEF Broadcast!Init, BInv, Broadcast!TypeOK, Broadcast!OwedOrDelivered
<1>2. BInv /\ [Broadcast!Next]_(Broadcast!vars) => BInv'
  <2> SUFFICES ASSUME BInv, [Broadcast!Next]_(Broadcast!vars) PROVE BInv'
      OBVIOUS
  <2>1. ASSUME NEW o \in Observers,
               Broadcast!Subscribe(o) \/ Broadcast!Unsubscribe(o)
        PROVE  BInv'
      BY <2>1 DEF BInv, Broadcast!TypeOK, Broadcast!OwedOrDelivered,
                  Broadcast!Subscribe, Broadcast!Unsubscribe
  <2>2. CASE Broadcast!Close \/ Broadcast!Crash
      BY <2>2, CrashBInv DEF BInv, Broadcast!TypeOK, Broadcast!OwedOrDelivered,
                             Broadcast!Close
  <2>3. ASSUME NEW e \in Events, Broadcast!Publish(e) PROVE BInv'
      BY <2>3, PublishBInv
  <2>4. ASSUME NEW e \in Events, Broadcast!Discard(e) PROVE BInv'
      BY <2>4 DEF BInv, Broadcast!TypeOK, Broadcast!OwedOrDelivered,
                  Broadcast!Discard
  <2>5. ASSUME NEW e \in Events, NEW o \in Observers, Broadcast!Deliver(e, o)
        PROVE  BInv'
      BY <2>5, DeliverBInv
  <2>6. CASE UNCHANGED Broadcast!vars
      BY <2>6 DEF BInv, Broadcast!TypeOK, Broadcast!OwedOrDelivered, Broadcast!vars
  <2> QED
      BY <2>1, <2>2, <2>3, <2>4, <2>5, <2>6 DEF Broadcast!Next
<1> QED
    BY <1>1, <1>2, PTL DEF Broadcast!Spec

\* An event that an observer was given is not owed to it any more, by the list and
\* all the threads that are on their way through their snapshots: delivery is at
\* most once.
THEOREM AtMostOnce == Spec => []Broadcast!OwedOrDelivered
<1>1. BInv => Broadcast!OwedOrDelivered
    BY DEF BInv
<1> QED
    BY <1>1, ListImplementsBroadcast, BroadcastInduction, PTL DEF ImplementsBroadcast

-----------------------------------------------------------------------------
\* The order, when the bus calls on one thread: the event on its way is the latest
\* one, so whoever hears it has heard earlier ones only.

Ascending(s) == \A i, j \in 1 .. Len(s) : i < j => s[i] < s[j]

InOrder == \A o \in Observers : Ascending(delivered[o])

Latest == \A t \in Threads : pc[t] # "idle" => event[t] = raised

\* No event comes in, and none is heard.
LEMMA Silent ==
    ASSUME Latest, InOrder, UNCHANGED <<raised, delivered>>,
           \A t \in Threads : pc'[t] # "idle" => pc[t] # "idle" /\ event'[t] = event[t]
    PROVE  Latest' /\ InOrder'
BY DEF Latest, InOrder

LEMMA RaiseOrder ==
    ASSUME DInv, InOrder, NEW t, Threads = {t}, NEW msg \in Messages,
           Arrive(t, msg) \/ Drop(t, msg)
    PROVE  Latest' /\ InOrder'
<1>1. raised' = raised + 1 /\ pc[t] = "idle" /\ UNCHANGED delivered
    BY DEF Arrive, Drop, Raise
<1>2. pc'[t] = "idle" \/ event'[t] = raised'
    BY <1>1 DEF Arrive, Drop, DInv, IInv, Shape
<1> QED
    BY <1>1, <1>2 DEF Latest, InOrder

LEMMA NotifyOrder ==
    ASSUME DInv, Latest, InOrder, NEW t \in Threads, Notify(t)
    PROVE  Latest' /\ InOrder'
<1> DEFINE x == observers[t][pos[t]]
           n == Len(delivered[x])
<1>1. /\ x \in Observers /\ pc[t] = "notify" /\ event[t] = raised /\ raised \in Nat
      /\ Len(observers[t]) \in Nat /\ pos[t] \in 1 .. Len(observers[t])
      /\ UNCHANGED <<pc, event, raised>>
      /\ delivered'[x] = Append(delivered[x], event[t])
      /\ \A o \in Observers \ {x} : delivered'[o] = delivered[o]
    BY NotifyFacts DEF Latest
<1>2. delivered[x] \in Seq(Nat) /\ n \in Nat
    BY <1>1, LenProperties DEF DInv, IInv, Shape
<1>3. \A i \in 1 .. n : delivered[x][i] < raised
  <2> SUFFICES ASSUME NEW i \in 1 .. n PROVE delivered[x][i] < raised
      OBVIOUS
  <2>1. delivered[x][i] \in 1 .. raised
      BY <1>1 DEF DInv, Numbered
  <2>2. ~Contains(delivered[x], event[t])
    <3>1. pos[t] \in pos[t] .. Len(observers[t])
        BY <1>1
    <3>2. Ahead(t, x)
        BY <1>1, <3>1 DEF Ahead
    <3> QED
        BY <1>1, <3>2 DEF DInv, HeardOnce
  <2>3. delivered[x][i] # raised
      BY <1>1, <2>2 DEF Contains
  <2> QED
      BY <1>1, <2>1, <2>3
<1>4. /\ Len(delivered'[x]) = n + 1
      /\ \A i \in 1 .. n : delivered'[x][i] = delivered[x][i]
      /\ delivered'[x][n + 1] = raised
    BY <1>1, <1>2, AppendProperties
<1>5. Ascending(delivered[x])
    BY <1>1 DEF InOrder
<1> HIDE DEF x, n
<1>6. Ascending(delivered'[x])
  <2> SUFFICES ASSUME NEW i \in 1 .. n + 1, NEW j \in 1 .. n + 1, i < j
               PROVE  delivered'[x][i] < delivered'[x][j]
      BY <1>4 DEF Ascending
  <2>1. i \in 1 .. n
      BY <1>2
  <2>2. CASE j = n + 1
      BY <1>3, <1>4, <2>1, <2>2
  <2>3. CASE j \in 1 .. n
      BY <1>4, <1>5, <2>1, <2>3 DEF Ascending, n
  <2> QED
      BY <1>2, <2>2, <2>3
<1>7. InOrder'
    BY <1>1, <1>6 DEF InOrder
<1>8. Latest'
    BY <1>1 DEF Latest
<1> QED
    BY <1>7, <1>8

\* Every observer hears the events in the order in which the bus raised them, if
\* the bus calls the handler on one thread: iarmEventHandler calls the observers
\* before it returns, and leaves nothing to be delivered later.
THEOREM OneThreadKeepsOrder ==
    ASSUME NEW t, Threads = {t} PROVE Spec => []InOrder
<1>1. Init => Latest /\ InOrder
    BY DEF Init, Idle, Latest, InOrder, Ascending
<1>2. DInv /\ Latest /\ InOrder /\ [Next]_vars => Latest' /\ InOrder'
  <2> SUFFICES ASSUME DInv, Latest, InOrder, [Next]_vars PROVE Latest' /\ InOrder'
      OBVIOUS
  <2>1. ASSUME NEW o \in Observers, Register(o) \/ Unregister(o) \/ ReleaseOwn(o)
        PROVE  Latest' /\ InOrder'
      BY <2>1, Silent DEF Register, Add, Unregister, Erase, ReleaseOwn, threadVars
  <2>2. CASE Destroy \/ Construct
      BY <2>2, Silent DEF Destroy, Construct, threadVars
  <2>3. CASE Crash
      BY <2>3, Silent DEF Crash, Idle
  <2>4. ASSUME NEW u \in Threads, NEW msg \in Messages,
               Arrive(u, msg) \/ Drop(u, msg)
        PROVE  Latest' /\ InOrder'
      BY <2>4, RaiseOrder
  <2>5. ASSUME NEW u \in Threads, Notify(u)
        PROVE  Latest' /\ InOrder'
      BY <2>5, NotifyOrder
  <2>6. ASSUME NEW u \in Threads,
               TakeSnapshot(u) \/ EndNotify(u) \/ ReleaseOne(u) \/ Return(u)
        PROVE  Latest' /\ InOrder'
    <3>1. /\ UNCHANGED <<raised, delivered>>
          /\ pc[u] # "idle"
          /\ pc'[u] # "idle" => event'[u] = event[u]
          /\ \A v \in Threads \ {u} : pc'[v] = pc[v] /\ event'[v] = event[v]
        BY <2>6 DEF TakeSnapshot, Copy, EndNotify, BeginRelease, ReleaseOne, Return,
                    Leave, DInv, IInv, Shape
    <3> QED
        BY <3>1, Silent
  <2>7. CASE UNCHANGED vars
      BY <2>7, Silent DEF vars, threadVars
  <2> QED
      BY <2>1, <2>2, <2>3, <2>4, <2>5, <2>6, <2>7 DEF Next, Handle
<1> QED
    BY <1>1, <1>2, DInduction, PTL DEF Spec

-----------------------------------------------------------------------------
\* Clients that share the list do not disturb each other.
LEMMA OthersStay ==
    ASSUME IInv, NEW x \in Observers, NEW o \in Observers \ {x},
           Register(x) \/ Unregister(x)
    PROVE  Listed(o)' <=> Listed(o)
<1>1. notifications \in Seq(Observers) /\ Unique(notifications)
    BY DEF IInv, Shape, NoDuplicates
<1>2. CASE Register(x)
    BY <1>1, <1>2, AppendUnique DEF Register, Add, Listed
<1>3. CASE Unregister(x)
  <2>1. PICK i \in 1 .. Len(notifications) :
            notifications[i] = x /\ notifications' = RemoveAt(notifications, i)
      BY <1>1, <1>3, LenProperties DEF Unregister, Erase
  <2> QED
      BY <1>1, <2>1, RemoveAtUnique DEF Listed
<1> QED
    BY <1>2, <1>3

\* An observer that has unregistered is off the list: it was on it once.
LEMMA UnregisteredIsOff ==
    ASSUME IInv, NEW x \in Observers, Unregister(x)
    PROVE  ~Listed(x)'
<1>1. notifications \in Seq(Observers) /\ Unique(notifications)
    BY DEF IInv, Shape, NoDuplicates
<1>2. PICK i \in 1 .. Len(notifications) :
          notifications[i] = x /\ notifications' = RemoveAt(notifications, i)
    BY <1>1, LenProperties DEF Unregister, Erase
<1> QED
    BY <1>1, <1>2, RemoveAtUnique DEF Listed

\* An observer that is off the list while no thread is in the handler has its
\* client's reference, or none.
LEMMA Unused ==
    ASSUME IInv, NEW o \in Observers, ~Listed(o), \A t \in Threads : pc[t] = "idle"
    PROVE  refs[o] = IF owner[o] THEN 1 ELSE 0
<1>1. HoldersOf(o) = {}
    BY DEF HoldersOf, Holds
<1> QED
    BY <1>1, FS_EmptySet DEF IInv, RefsExact, One

=============================================================================
