# Verification of the RemoteControl plugin

TLA+ specifications of the Thunder plugin in this repository, the TLC
configurations that model-check them, and proofs for TLAPS. Line numbers refer
to `src/plugin/RemoteControlImplementation.cpp` ("Impl"),
`src/plugin/RemoteControl.cpp` ("Plugin") and the headers in `src/helpers`.

## 1. The system

`RemoteControl` is a plugin of the Thunder framework. It starts
`RemoteControlImplementation`, usually in a host process of its own
(`mode = Local`), and publishes its nineteen methods over JSON-RPC. The
implementation passes every method but one on to *control manager*
(`ctrlm`), a daemon, over the IARM bus, and turns the bus's events into calls of
the observers that clients registered.

```
 clients --JSON-RPC--> RemoteControl --COM-RPC--> RemoteControlImplementation --IARM--> ctrlm
                          ^    ^                        |        ^                        |
   framework: Initialize, |    +---- INotification -----+        +----- five events ------+
   Deinitialize, Deactivated   
```

| Part | State it keeps | Operations | Talks to |
|---|---|---|---|
| Plugin, Thunder side (Plugin, `RemoteControl.h`) | `_service`, `_connectionId`, `_implementation`, `_configure`, two registrations | `Initialize`, its rollback, `Deinitialize`, `Deactivated` | the shell (`Root`, `Register`, `Unregister`), the host process, the worker pool |
| Implementation object (Impl 226-379) | static `_instance`, `_hasOwnProcess`, `_handlersRegistered`, `_service` | constructor, `Configure`, `InitializeIARM`, `Utils::IARM::init`, `DeinitializeIARM`, destructor | the IARM bus, which other plugins of the process use as well |
| Observers and events (Impl 291-323, 383-542) | `_notifications`, one reference count per observer, a snapshot per dispatch thread | `Register`, `Unregister`, `remoteEventHandler`, `iarmEventHandler`, the `Notify*` functions | dispatch threads of the bus, clients' callbacks |
| Control methods (Impl 545-1216) | none between calls | nineteen methods, `IARMBusCall` | control manager, with or without a timeout |
| Parsing (Impl 36-224 and inside methods and events) | none | enumerations, numbers, arrays, two copies of the status parsers | none |
| Text helpers (`UtilsString.h`) | none | search, trim, split, case, comparison, Base64 | none: no source file includes the header |

What is hard about it:

* **Interleaving.** Five threads of control meet: the framework's activator, its
  communication thread (`Deactivated`), its worker pool, client calls over
  COM-RPC, and the bus's dispatch threads. Only `_notifications` and `_instance`
  have locks, and callbacks, snapshots and `Deactivated` run without them.
* **Lifetime.** Observers are reference-counted by hand in one function and
  released in another; the static `_instance` is used after its lock was given
  back; the destructor runs while events are on their way.
* **Partial failure.** `Configure` makes up to 21 attempts to join the bus and
  then five registrations, each of which may fail; `Initialize` has six steps to
  roll back, with a host process that may crash between any two.
* **Timeouts.** Six methods give up after a while, and twelve wait as long as it
  takes.
* **Shared resources.** A connection to the bus belongs to the process, not to the
  plugin; who takes it down is decided by a sample taken at the beginning.

What makes it correct, part by part: the plugin holds nothing after it was
deactivated, by whatever way, and a crash of its host takes it down; the
implementation is configured as a whole or not at all, never runs a handler on a
destroyed object, and returns the bus as it found it; every registered observer
is given every event once, and every reference is given back; a response holds
nothing from before the call; a query and an event tell the
same. `PROJECT.json` lists the hazards, each at its line and with the properties
that cover it.

## 2. Modules

| Module | Models | Extends |
|---|---|---|
| `System` | the whole plugin: the life of the plugin, its implementation, observers and events, with a client that shares them | instances of `PluginLifecycle` and `ObserverList` |
| `PluginLifecycle` | `Initialize`, `Deinitialize`, `Deactivated`, the host process and FAILURE jobs | |
| `EventBroadcast` | the abstract promise: each event is owed to exactly those subscribed when it is published, and given once at most | |
| `ObserverList` | registration, snapshots, callbacks and reference counts; implements `EventBroadcast` | |
| `ImplLifecycle` | the implementation object and the bus connection | |
| `ControlCalls` | the nineteen methods and `IARMBusCall` | |
| `Numbers` | `uint32_t` conversions of a given width: clamping and wrapping | |
| `ArrayParser` | the loop of the array parsers and the size prefix of the COM-RPC stub | |
| `StatusCodec` | the parsers of status, firmware and validation payloads, for queries and events | `Numbers` |
| `UtilsString` | the functions of `UtilsString.h`, those with a loop turn by turn | |
| `MC*` | an instance of each for TLC | |
| `SystemProofs` | the composition: that `System` implements its parts, and what only the whole promises | `System`, instances of `PluginLifecycleProofs` and `ObserverListProofs` |
| `ObserverListProofs` | theorems of `ObserverList`: references, order, the refinement and what `EventBroadcast` promises by it | |
| `ImplLifecycleProofs` | theorems of `ImplLifecycle`: instance, service, bus and handler table | |
| `PluginLifecycleProofs`, `ControlCallsProofs`, `ArrayParserProofs`, `StatusCodecProofs`, `UtilsStringProofs` | theorems of the module they are named after | |

Definitions named after a function of the source translate it; the table `map` of
`PROJECT.json` names the lines of each. A definition introduced as a *faulty
variant* is not part of the specification: it is the same operation with a
plausible mistake in it (a dropped `AddRef`, a missing rollback), and shows that
the property it is paired with in `mutants` is able to fail.

### ObserverList and EventBroadcast

`notifications` is `_notifications` and `refs[o]` the count of observer `o`, which
starts at one, its client's own. `_adminLock` is held for the whole body of
`Register`, `Unregister` and `ObserverSnapshot`, so each is one action
(`TakeSnapshot` is the latter). The lock is not held during callbacks and
releases, so `Notify` (one callback) and `ReleaseOne` (one `Release`) are steps
of each dispatch thread, and anything may happen between two of them. `Arrive`
and `Drop` are the two ways through `iarmEventHandler`'s owner, data and
identifier tests. `Destroy` is the part of the destructor that releases the list. It
asks only that no thread is about to take a snapshot of the list it releases; that the
destructor waits for the handlers altogether is the subject of `ImplLifecycle` and
`System`. `Construct` is the next object, and `Crash` the end of the process: COM-RPC
gives the references of a dead process back to the clients.

The three `Notify*` functions differ in the payload they parse and in the callback
they make; the payload is in `StatusCodec`, and the callback a value of
`Callback`.

The refinement maps `subscribers` to the set of listed observers, `published` to
the events that have got past their snapshot (or were dropped), `owed` to what
the snapshots in `notify` have not reached yet, and `delivered` to the history of
callbacks. The abstract `Publish` happens in `TakeSnapshot`; this is the
linearisation point of an event. An `Unregister` after it does not stop the
delivery, and the abstract specification says so: an observer may be called once
more after its `Unregister` returned, but still exists (`RefsExact`). The abstract
`Crash` drops what is owed, which is all that a crash may do to a promise.

### ImplLifecycle

`pc[o]` walks an object through its life: `none`, `constructed`, the steps of
`InitializeIARM` (`sample`, `check_first`, `bus_init`, `bus_connect`, ...),
`configured` or `failed`, and the steps of the destructor. `DeinitializeIARM` is
called both by a failed registration and by the destructor, so its steps
(`RemoveHandler`, `HandlerRemoved`, `Disconnect`, `Term`) take the labels they
run at as parameters. `HandlerRemoved` is the waiting half of
`IARM_Bus_RemoveEventHandler`. `SampleConnected` is the sample that decides
`hasOwnProcess`; `InitSucceeded` uses it. `tpc` and `captured` are the dispatch
threads: `Enter` (the bus calls the handler), `Capture` (the pointer is copied
under `_instanceLock`) and `RunHandler` (it is used without the lock).
`PeerStart` and `PeerStop` are another plugin of the process, which joins and leaves the
bus at any time. `InitializeIARM` samples the connection at Impl:329 and goes by the sample
until `init()` has returned, and `DeinitializeIARM` goes by `_hasOwnProcess` between
`Disconnect` and `Term` (Impl:375-376): if the peer changes the connection in one of these
windows (`Relying`), the decision is stale. The history variable `raced` says that it once
did, and `BusReleased` and `KeepsPeerConnection` are about the behaviours up to then. After a
peer that joins in the first window, both take the connection for their own, and the object
takes down the peer's; after an owner that leaves there, `init()` connects again, Impl:331
records a connection that is not ours, and nobody disconnects. `handlers[e]` counts
the entries for event `e` in the bus's table. The code logs a failed
`RemoveEventHandler` and goes on, so an entry may outlive its object; `stuck[e]` is
the history of these, and `AllOrNothing` and `NoUseAfterDestroy` account for them:
the destructor has not waited for such an entry's handler, and cannot.

### PluginLifecycle

`act` is the step of `Initialize`, of its rollback (`rb_...`) or of `Deinitialize`
(`de_...`) the activator is at; each step is one call the code makes to the
shell or the implementation. `cb` is the step `Deactivated` is at, on the
communication thread. `host[id]` is the host process of connection `id`; `Crash`
may happen in every state. `connListening` is the registration of
`_connectionNotification`: closed connections are reported only while it is set.
`ReportForeign` is the report of another plugin's connection, which
`Deactivated` compares with `_connectionId`. `RunJob` is the FAILURE job; the pool runs
it at any time, and it has an effect on an activated plugin only. So a crash that is
reported, and its job run, before `Initialize` has ended is forgotten: the plugin
becomes active with a dead host. `CrashIsHandled` has this case as its exception.

### System

The two instances keep their own variables; `configured` and `held` say that the
handlers are registered, and that a client holds the implementation. A step that
concerns both parts is the conjunction of theirs: `Root` with `Construct`, the
plugin's `Register` and `Unregister` with the list's, the last `Release` with the
destructor (`Destruct`, which waits until the dispatch threads are quiet), and
`Terminate` and `Crash` of the process with the end of everything in it
(`HostDies`). The answer of a process may be lost after it did what it was asked, so
`Configure` and `Register` may have happened although the plugin sees them fail.

There are two observers. `Own` is `_notification`, a `Core::Sink` that is a member of
`RemoteControl`: a reference does not keep it alive, so none may be left
(`NothingOutlives`). `Client` belongs to a client, which gets the implementation through
`INTERFACE_AGGREGATE`, in either mode, and may keep it beyond the plugin's
`Release` (`Hold`, `LetGo`). Out of process the object ends with its host. In the `Off` mode
there is no process to end: the object stays configured and goes on handling events until
the client lets go of it, and a handler that was past its snapshot may still call the
plugin's observer. `NothingOutlives` and `NoLateEvents` have this object as their exception.

### ControlCalls

A response field is abstracted to its origin: control manager's answer, a
constant of the code, what the client asked about, or what it held before the call.
`Absent` has for each method what its code puts into each field without an
answer, and `Failed` what the early returns leave behind. `Reject` is the
parameter check, `AllocationFails` the `calloc` of `IARMBusCall`, `Send` the call,
and `BusError`, `Timeout` and `Answer` its outcomes. Each call has a buffer of its own and
blocks its thread (Impl:545-578); that the bus returns the answer to it and not another is
the bus's affair, and is not modelled.

### Numbers, ArrayParser, StatusCodec

A label of a payload is a set: empty if it is missing, or its one value.
`NotifyStatus` and `GetNetStatus` are the two copies of the network parser,
`NotifyFirmwareUpdateProgress` and `StatusFirmwareUpdate` those of the firmware
parser. Conversions are modelled by what they do: `Wrap` takes a number modulo
2^w, `Clamp` limits it, an unknown word falls back on the enumeration's default,
arrays are cut at their limits. `ArrayParser` takes the array loop one turn at a
time and passes the result through a size prefix.

### UtilsString

The header is kept beside the plugin, and `ARCHITECTURE.md:99` lists it among the
dependencies, but no source file of the repository includes it: what is found here says
something of the library and nothing of the plugin.

A string is the sequence of its bytes, in the C locale. A caller has a text, `s`, and
goes on with the result of one helper to the next, so results are inputs again. A helper
that leaves its work to an algorithm of the library (`std::search`, `std::find_if`,
`std::transform`) is an operator, and changes the text in one step (`Change`). The three
with a loop of their own are a call, a step for each turn and a return: `SplitTurn` appends
the field up to where `find_first_of` stops, `SpacesTurn` keeps a byte and passes over the
blanks behind a blank (the inner loop), `EncodeTurn` writes the symbols of one byte. Their
locals are variables: `current` is the loops' place in the text (`current`, `idx`,
`index`), `fields` and `out` are the results, `state` and `lastStuff` the encoder's.

Each property compares a helper with a definition of what it is for that does not use its
algorithm: a search with the existence of a position, `trim` with a stretch of the text that
has only the bytes around it that the comment lists, `split` with the delimiters and what is between each and the next,
`removeExtraWhitespaces` with the set of positions it is to keep, the encoder with a
decoder. `Rank` says which place a position's byte or field has in the result. Where a
comment of the header says otherwise than the code does (section 3), the properties
(`SearchExact`, `BlanksExact`) say nothing.

## 3. Runs

| Run | Question | Answer |
|---|---|---|
| `system` | Is the plugin on no list and its observer referenced by nobody after a deactivation; does an active plugin hear of every event, in order, and of none too late; does `Deinitialize` return? | yes, with one dispatch thread, and but for an object that a client holds in the Thunder process |
| `plugin` | Is a deactivated plugin clean, does `Deactivated` find its service, does a crash take an active plugin down, do the framework's calls return? | yes |
| `observers` | Are references exact and is the broadcast implemented, under every interleaving; is every registered observer called, and every dropped one destroyed? | yes, if callbacks return |
| `impl_safety` | With another user of the bus in the process: is no destroyed object used, is the bus left to whom it belongs? | yes, with Init and Connect working, until the other user comes or goes while an object relies on its sample |
| `impl_faults` | And when every call may fail: is configuration all or nothing, is the service balanced, do `Configure` and the destructor return? | yes |
| `impl_failed_init` | Is the bus released when joining it failed half-way? | **no** |
| `impl_overlap` | Is an event ignored only for want of a configured object? | **no**, if objects overlap |
| `calls_methods` | Does every way out of every method fill in the response? | yes, but for `GetLastKeypressSource` |
| `calls_hang` | Does every call return? | **no** |
| `parser_numbers` | Do the array loop and the size prefix keep what they should? | yes |
| `codec_payloads` | Do query and event agree, is nothing completed by mistake? | yes |
| `strings` | Does each text helper do what it is for? | yes, where its comment and the code agree |

The three runs that answer no are findings:

* **`impl_failed_init`** (Impl:347). `Utils::IARM::init` may succeed in
  `IARM_Bus_Init` and fail in `IARM_Bus_Connect` to the end of its retries.
  `InitializeIARM` then sets `_hasOwnProcess` to false, and nobody calls
  `IARM_Bus_Term`. In the `Off` mode the Thunder process stays on the bus.
* **`impl_overlap`** (Impl:244). The destructor clears `_instance` without a test
  that it designates the object being destroyed. If the implementation outlives
  the plugin's `Release`, which Plugin:150-152 logs and tolerates, and the
  plugin is activated again in the same process, the older object's destructor clears
  the pointer to the newer one, which goes on configured and deaf. In the trace the older
  object is one that was not configured; whether it was makes no difference to line 244.
* **`calls_hang`** (Impl:565). Twelve of the eighteen methods that call control
  manager wait without a timeout; `ARCHITECTURE.md` promises protection by
  timeouts.

The passing runs say these things in so many words. `GetLastKeypressSource`
(Impl:989) is the one method whose early return fills in `success` only;
`ResponseIsDefined` has it as its exception. The rollback of `Initialize`
terminates the host (Plugin:112) before it stops listening (Plugin:117), so its
own termination may be reported to `Deactivated` and submitted as a FAILURE;
`OnlyRollbackIsMistaken` says that this is the only such case. `HeardInOrder` is for one
dispatch thread: with two, a later event may overtake an earlier one between the
snapshot and the callback, and the code does nothing against it.

What the passing runs have as exceptions, since the code falls short there:

* A client that holds the implementation in the `Off` mode, which `plugin/CMakeLists.txt:23`
  offers ("in process"), keeps a configured object alive after the deactivation. Plugin:150
  logs "proceeding with remote connection termination", and there is no remote connection to
  terminate.
* Another user of the bus that comes or goes in one of the two windows above: see
  `ImplLifecycle`.
* Three comments of `UtilsString.h`. `equal` is to say whether two strings are equal (line
  74), and says that two empty ones are not, because `std::search` finds an empty needle at
  `begin()`, which is `end()` there. The trimming functions list the space characters they
  take off (lines 96, 104, 113), and `std::isspace` has the tab beside them.
  `removeExtraWhitespaces` promises its input without extra spaces (line 201), and ends at
  the first NUL.

### Bounds

* `observers`: two observers and two dispatch threads are the fewest with which
  one snapshot can be walked while another is taken, one observer removed and the
  other kept; two events let both threads be at work, and one handle the second event
  in a process that restarted. An event number is never used twice, which is the bound's
  only effect on the behaviours. The proofs are for any number of each.
* `impl_*`: two objects, one after the other (both at once in `impl_overlap`).
  `Retries` is 20 in the code and 0 or 1 here: the loop keeps nothing between two
  attempts but its counter, and the proofs are for every value. `impl_faults` has one
  object, which lives again and again, and one thread, for its liveness properties.
  `MaxEntries` is 2: the table admits the live object's entry beside one that could not
  be removed before.
* `plugin`: three host processes let a job of the first be run when the second or third
  is up, with a crash at every step of each.
* `system`: two host processes, one dispatch thread and two events: what is left of
  the first activation meets the second, and the two events can be heard in either
  order. More threads are in `observers`. While a client holds an object in the Thunder
  process, the next activation does not make another one there (`RootSucceeds`): two objects
  in one process are the subject of `impl_overlap`.
* `calls_methods`: one client, since clients share no state of this code, and any number of
  calls, one after the other. `calls_hang` has three methods, with and without a timeout.
* `parser_numbers`, `codec_payloads`: a two-bit `uint32_t`, so that numbers below,
  in and above the range fit into a small set, and arrays one or more elements
  longer than each limit. Payloads vary one label at a time around a full and an
  empty one. The limits in the code are 32 times and more as large; the loop
  invariant is proved for all of them.
* `strings`: texts of up to four bytes out of five (a NUL, a tab, a line feed, a blank, a
  byte above 127), which has every length modulo three, every place for a delimiter and runs of
  blanks of every length up to four; letters, in both cases, come from the encoder's
  images. Needles are up to two bytes, of a blank and a letter in both cases. The proofs are
  for texts of any length.

Deadlock is not checked where the bound ends a behaviour: after `MaxEvents`
events (`observers`, `system`) or the end of the array there is nothing left to do, and in
`impl_faults` a table full of entries that could not be removed admits no more.

### Fairness

Weak fairness of each thread that is inside this code: a dispatch thread (its
callbacks are assumed to return, which COM-RPC's own time limit provides), the
thread in `Configure` or the destructor, a client's method until the call is out, and
the expiry of a timeout. Nobody has to raise events, call methods, activate or crash
anything, and control manager need not answer; this is why `EveryCallReturns` fails. In `PluginLifecycle` the steps of the activator and the
report of a closed connection are strongly fair: the framework's lock may be taken by
reports of other plugins' connections again and again, and it is assumed not to
starve anyone. `System` has the fairness of its parts.

### Assumptions on the outside

Thunder, IARM and control manager are not in this repository; what is modelled of
them is marked `external` in the map and comes from the way this code uses them.
Where a choice matters it is a constant:

* `RemoveWaits`: `IARM_Bus_RemoveEventHandler` returns after the handlers it
  removes have, if it succeeds. `NoUseAfterDestroy` depends on it: `remoteEventHandler`
  uses the pointer outside of `_instanceLock`, and nothing else keeps the object alive.
  `System`'s destructor assumes the same, and that the removal succeeds.
* `UnregisterWaits`: `IShell::Unregister` waits for a running `Deactivated`.
  `CallbackHasService` and `OnlyRollbackIsMistaken` depend on it.
* `Overlap`, `Shared` and the `...MayFail` constants widen what the environment may
  do.

These are part of the actions:

* A FAILURE job has no effect on a plugin that is not activated.
* A job does not remember the activation it was submitted for: the job of an old host
  takes a new activation down (Plugin:174). `RunJob` does so; no property says that it
  must not, since nothing in the code or its documents does.
* `Terminate` has ended the host process when it returns, and COM-RPC gives back the
  references a dead process held.
* `IShell::Root` returns null (`RootFails`) with a host that crashed or was never there.
  `Initialize` gives it 2000 ms (Plugin:58), and a host that is slower than that is still
  alive when `Root` gives up, while the plugin knows no connection that it could terminate.
  That the framework takes such a host down itself is assumed; nothing in this repository
  does.

## 4. Theorems

| Theorem | Says | Assumes |
|---|---|---|
| `ObserverListProofs!ReferencesExact` | every count is the client's reference, the registration's and one for each snapshot that holds the observer | finitely many threads |
| `ObserverListProofs!TypeCorrect` | the type invariant | same |
| `ObserverListProofs!DestroyedStaysDestroyed` | an observer with count 0 is never referenced again | same |
| `ObserverListProofs!CalledOnce` | no observer is called twice for one event | same |
| `ObserverListProofs!ListImplementsBroadcast` | `ObserverList` implements `EventBroadcast` | same |
| `ObserverListProofs!AtMostOnce` | nothing is owed, in the broadcast that the list implements, that has been delivered | same |
| `ObserverListProofs!OneThreadKeepsOrder` | every observer is called for the events in the order of the bus | one dispatch thread |
| `ImplLifecycleProofs!InstanceSafe` | `_instance` never designates an object whose destructor has begun | none: any bus, any failures, overlapping objects |
| `ImplLifecycleProofs!ServiceIsHeld` | the shell is referenced as long as an object is configured, and never by one that failed or is gone | none |
| `ImplLifecycleProofs!PeerKeepsConnection` | nobody takes down another plugin's connection, until that plugin comes or goes while an object relies on its sample | no overlap; the bus does not deny a connection there is |
| `ImplLifecycleProofs!BusIsReleased` | the process has let go of the bus when its last user is gone, with the same exception | same, and calls to join and to leave succeed |
| `ImplLifecycleProofs!TypeCorrect` | the type invariant: no count of the handler table goes below zero | none |
| `ImplLifecycleProofs!RegistrationAllOrNothing` | the table holds five handlers of a configured object or none, and what could not be removed | no overlap |
| `ImplLifecycleProofs!HandlerHasObject` | no handler runs on a destroyed object | no overlap; `RemoveWaits` |
| `PluginLifecycleProofs!CallbackSafe` | `Deactivated` finds the service wherever it uses it | `UnregisterWaits` |
| `PluginLifecycleProofs!NothingIsLeft` | a deactivated plugin holds nothing, and no host of its runs | none |
| `PluginLifecycleProofs!OnlyRollbackMistakes` | a FAILURE job is for a host that crashed, or from a rollback | `UnregisterWaits` |
| `ControlCallsProofs!ResponsesAreDefined` | no field is left over, but for `GetLastKeypressSource` | none |
| `ArrayParserProofs!LoopCorrect` | the vector is the converted beginning of the array | none |
| `ArrayParserProofs!PrefixNeverWraps` | the stub receives the array up to the limit | the limit is below the size of the prefix |
| `StatusCodecProofs!NetStatusAgrees` | `GetNetStatus` tells what the last event told | payloads have the labels that are read |
| `StatusCodecProofs!FirmwareStatusAgrees` | so does `StatusFirmwareUpdate` | same |
| `StatusCodecProofs!NothingOverEarly` | nothing shows as ended well without control manager's word for it | same |
| `StatusCodecProofs!WakeupIsReadBack` | remotes are reported with the wakeup keys asked for last | same |
| `UtilsStringProofs!SearchIsExact` | a text is found wherever it is, in any case of letters, and only there, if not both are empty | needles are strings of bytes |
| `UtilsStringProofs!BlanksAreExact` | `trim` and `removeExtraWhitespaces` take away what their comments say, and nothing else | none: tabs and NULs are exceptions in the property |
| `UtilsStringProofs!SplitIsExact` | `split` returns what is between each delimiter and the next, in order | none |
| `UtilsStringProofs!ImagesDecode` | an image decodes to the bytes it was made of, at every length | none |
| `SystemProofs!SystemIsPlugin` | `System` implements `PluginLifecycle` | none |
| `SystemProofs!SystemIsObserverList` | `System` implements `ObserverList` | none |
| `SystemProofs!NothingSurvives` | a deactivated plugin is on no list, and leaves no object, no thread and no reference to its observer, but for an object in the Thunder process that a client holds | finitely many threads |
| `SystemProofs!ActivePluginHears` | an active plugin whose host answers is on the list of a configured object | same |
| `SystemProofs!EventsHaveService` | no event is raised on a plugin without a service, with the same exception | same |
| `SystemProofs!SystemKeepsOrder` | events are heard in the order of the bus, over all activations | one dispatch thread |

**References.** `RefsExact` is not inductive by itself. A `Release` of a snapshot's
entry takes one from the count, and takes the thread off the holders only if the
observer is not in the rest of the snapshot. The strengthening (`IInv`) adds that the list
and every snapshot have no duplicates, which `Register`'s test of the list guarantees
and `TakeSnapshot` inherits. That the counts are natural numbers, a part of the
type invariant, follows from their exactness and not the other way round: the
induction is over integers, and `RefsNatural` concludes. `DestroyedStaysDestroyed`
uses that only an owner registers, and only what is listed is copied into a snapshot.

**Broadcast.** `DInv` adds to this that events are numbered as they are raised, so that
no two threads handle the same one (`Numbered`), and that an observer which a thread has
still ahead of it has not heard that thread's event (`HeardOnce`). Both theorems follow:
a callback is for an observer that has not heard the event, hence one that is owed it in
the abstract state. The step lemmas map `Register`, `Unregister`, `TakeSnapshot`,
`Drop`, `Notify`, `Destroy` and `Crash` to steps of `EventBroadcast`, and every other
step to a stutter. `AtMostOnce` is an invariant of `EventBroadcast`, by an induction of its
own (`BInv`: a publication makes new pairs only), and holds of the list because the list
implements it.

**Instance, service, bus.** For `InstanceSafe` the invariant says where objects are, and
that `_instance` is null or an object at a label outside of the destructor. `SInv` ties
the reference to the shell to the labels between `Configure`'s `AddRef` and its
counterparts. `BInv` says that one object exists at a time (`Alone`), and that an object
that will take the connection down has found none when it looked, and no peer has joined
since (`OneOwner`); it holds until a peer moves in one of the two windows, which `raced`
remembers for ever (`RacedStays`), so that the induction is about `raced \/ BInv`. `RInv` adds that while the process is initialised or connected there is
a peer that owns the bus, an object that does, or one that is just joining.

**Order.** With one thread the event at work is the latest that was raised (`Latest`), so
whoever hears it has heard earlier ones only.

**Handler table.** Whatever the bus does and however many objects there are at once, the
table holds for each event one entry of every object that has got so far and the stuck ones
(`Table`); how far an object is follows from its label and its two counters (`Mine`,
`Counters`). The objects with an entry are finitely many because each step adds one at most
(`TableStep`), so nothing has to be assumed of `Objects`. `TypeCorrect` follows: a removal
finds an entry to remove. The proof treats the object's steps in four kinds: those that
leave the table alone, a registration, the turn to the teardown, and a removal. Without
overlap (`OneAtATime`) the sum has one term at most, which is `RegistrationAllOrNothing`.

**Handlers that run.** `HInv` adds that a thread in a handler is in one that the object has
not finished with, or in a stuck one (`Watching`). At the end of the destructor there is
none of the former left. `RemoveWaits` keeps this up when an entry goes
(`HandlerRemovedHInv`); no other step lets go of a handler (`HoldsOn`).

**Plugin.** For `CallbackSafe`: `Deactivated` runs only while the plugin listens; the
plugin listens only while it has the service; the teardown stops listening first.
`StopListening` is where the assumption is used: it is not enabled while the callback
runs. `NothingIsLeft` needs for each label what is held there (`Labels`), that `shellRefs`
and the members agree (`Counted`, `Members`) and that no host but the one the plugin knows
is running (`Hosts`). `OnlyRollbackMistakes` needs that a host which ended was terminated
by the plugin or crashed (`Known`), and that a running callback is for a connection that
was closed (`Called`).

**Calls.** The method returns in the same step in which it takes its answer, so no state
between the two has to be described. What is left is that no constant of the code and no
answer is what the response held before (`AbsentIsNew`, `FailedIsDefined`,
`FilledIsDefined`), and that a client's call leaves another's response alone.

**Array.** The loop invariant is that the vector is the image of the first `seen`
elements, up to the limit; a sequence is compared with another by length and
elements, and no recursion is needed.

**Codec.** The invariant is that every view and every answer is what the code makes of
control manager's latest payload, whatever it was when the question was asked; the theorems
are then about the two parsers alone. They differ in where the status is taken from and in
what stands in for a missing label, and the exceptions in the properties are just these.
`WakeupIsReadBack` goes through the array of remotes, of which the parser keeps the
beginning. `PayloadsAssumption` says that a label is missing or holds one value of the kind
that is read from it; this is what the JSON type of a label comes to in the model, and holds
of all payloads of the run.

**Text helpers.** No recursion is needed: a loop is a sequence of steps, and its invariant
says what each turn leaves behind. In `split` (`SplitInv`) the place is behind a delimiter
or at the beginning, and the fields that end at a delimiter passed so far are there, each at
its `Rank`; in `removeExtraWhitespaces` (`SpacesInv`) the output is what is to be kept of the
text up to the index, and a blank at the index is the first of its run; in the encoder
(`ImageInv`) every symbol written stands for its six bits of the text (`Sextet`), and
`lastStuff` holds those that the last byte left over. What has to be counted is the rank of
the next position, which grows by one over an element of the set and stays the same over a
stretch without one (`RankNext`, `RankStays`). `DecodesTo` is the arithmetic: a text is
decoded from symbols that stand for its bits, whatever padding follows. For `trim` and the
search, `Min` and `Max` of a set of positions exist because there is no infinite descent
(`LeastExists`). The three invariants join in `IInv`: while one helper is at work the others
have nothing to say (`OthersIdle`).

**System.** The composition is used twice. `SystemIsPlugin` and `SystemIsObserverList` map
every joint step to a step of each part or a stutter, so the invariants of the parts
(`CInv` of the plugin, `IInv` of the list) hold in the whole without being proved again. What
is left is their relation, `SInv`: nothing happens in an object that is not there
(`Vacant`); the object is in the host started last, which runs, or in the plugin's process,
where the plugin or a client holds it (`Located`); and as long as the host answers, the object has
done what the plugin's label says it has (`Answering`). A crash, a lost answer and a client
that keeps the object beyond `Release` each break a simpler statement of the last two.
`NothingSurvives` joins the three: a deactivated plugin has no host running and no
implementation, hence no object but one that a client holds in the Thunder process; without
an object there is an empty list, the threads are quiet, and the one reference to the
plugin's observer is its own. That the held one does not list it is a fourth part: in the
Thunder process a plugin that has not registered, or has unregistered, is not on the list
(`Unlisted`, `OwnIsOff`).

Model-checked only are the liveness properties: `RegisteredHears`, `DroppedIsDestroyed`,
`ConfigureReturns`, `DestructorCompletes`, `CrashIsHandled`, `ActivatorReturns`,
`EventReachesPlugin` and `DeinitializeReturns`. Fairness and ENABLED are
beyond the prover. Every other property of a passing run is a theorem.

## 5. Not modelled

* The JSON text of requests: string formatting without state. The words of the wakeup
  configuration are in `StatusCodec`, since they are read back.
* Of the nineteen fields of a paired remote, one for each kind of conversion.
* Logging, `API_VERSION` numbers, the generated JSON-RPC and COM-RPC code.
* Data races on `_service` and `_connectionId` in `RemoteControl` beyond what
  interleaving of their accesses shows.
* The helpers this plugin does not call: `PluginInterfaceBuilder.h`, which no source
  of this repository includes, and the macros of `UtilsJsonRpc.h`; the build files and
  the test client.

## 6. Plan

1. *System and bus.* Add `ImplLifecycle` to `System`, so that `impl_overlap` arises from
   the object that a client holds in the `Off` mode and not from a constant.
2. *Requests.* The words and numbers that the methods write into their requests, compared
   with what control manager's answers are parsed as.
