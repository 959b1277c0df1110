# DisplayInfo: TLA+ models, model checking and proofs

This directory specifies the parts of the DisplayInfo plugin whose correctness
depends on the order in which threads, processes and displays act. Each module is
written from the C++ under `plugin/`; line numbers refer to that code, and
`PROJECT.json` maps every definition to the lines it stands for.

Abbreviations: `DS` is `plugin/DeviceSettings/PlatformImplementation.cpp`, `LX`
`plugin/Linux/PlatformImplementation.cpp`, `DRM` `plugin/Linux/DRMConnector.h`, `RPI`
`plugin/RPI/PlatformImplementation.cpp`, `KMS` and `SOC` `kms.c` and
`SoC_abstraction.cpp` in `plugin/DeviceSettings/RPI/`.

## 1. The system

A Thunder plugin (`plugin/DisplayInfo.cpp`) publishes four interfaces of an
implementation object that may run in the same process or in one of its own:
connection, graphics, HDR and display properties. The implementation comes from one
of three backends: DeviceSettings (set-top boxes), Linux/DRM, and RPI.

| Component | State it keeps | Operations | Hard behaviour |
|---|---|---|---|
| Plugin, `DisplayInfo.cpp/.h` | `_service`, `_connectionId`, four interface pointers, `_notification` | `Initialize`, `Deinitialize`, `Deactivated`, aggregation of interfaces; the web request `Process`/`Info` | any of four acquisitions fails; the process dies at any moment; the crash notification races `Deinitialize`; clients keep aggregated interfaces |
| DeviceSettings events, DS 150-285 | `_observers`, `_adminLock`, `_cachedFrameRate`, `_frameRateLock` | `OnResolutionPreChange`, `OnResolutionPostChange`, `IsFrameRateChanged`, `CacheInitialFrameRateAsync`, `ResolutionChangeImpl`, `Register`, `Unregister` | callbacks on several threads, a seeding thread that retries, clients that come and go during an announcement |
| DeviceSettings lifetime, DS 83-134 | static `_instance`, `_frameRateCacheThread` | constructor, destructor | callbacks act on `_instance`, which another thread sets and clears, an older object's destructor included; the thread must be joined; two objects may overlap |
| DeviceSettings queries, DS 287-1048 | none of its own; the HDMI preference of the library | 17 getters, the HDCP setter | a sequence of library calls under no lock: the display goes away between the test and the read, any call throws |
| Linux/DRM events, LX 52-165, 296-485, 620-735 | `_eventQueue`, `_arrived`, `_display` (connector, HDCP level, EDID) | `ReceiveData`, `Post`, `Worker`, `Reauthenticate`, `RequeryProperties`, `Configure`, destruction | a manual-reset event against a queue, an infinite wait, rereading in three lock sections, members destroyed while threads use them |
| Linux DRM connector, DRM 40-130 | connector and mode chosen | constructor, `BestMode`, `PreferredMode` | two nested searches with ties and overwriting |
| RPI backend, RPI 43-422 | `_width`, `_height`, `_connected`, `_audioPassthrough`, `_EDID`, `_observers`, `_activity` | constructor, `DisplayCallback`, `Dispatch`, `RetrieveEDID`, getters, `Register`, `Unregister`, destructor | changes during a Dispatch, an EDID read in segments, members written without the lock |
| SoC layer of the Pi, SOC and KMS | `kms_ctx` during a call | `getGraphicSize` over `kms_setup`, `kms_get_plane`, `kms_cleanup_context` | every libdrm call may fail; framebuffers are replaced meanwhile; a bounded retry; manual release |
| Linux GPU memory and HDR level | files | getters | none, they parse |
| Legacy JSON-RPC file, tracing, build files, tests | - | - | none, stateless or not built |

How they interact: the shell calls the plugin; the plugin obtains the
implementation with `Root` and `QueryInterface`, registers its `_notification` as
a sink with both shell and implementation, and registers JSON-RPC handlers; the
platform (`device::Host`, udev, VideoCore) calls the backend back on its own threads;
the backend calls the sinks under its lock; a crash of the process reaches the
plugin as `Deactivated`, which queues a job that deactivates it. In process, whoever
drops the last reference, plugin or client, runs the backend's destructor.

What makes each correct:

* plugin: after deactivation nothing is left over, on every failure path; handlers
  never outlive the required interfaces behind them; a crash leads to deactivation;
* DeviceSettings events: a frame-rate change is decided by one exchange of the cache,
  announced in order, to the sinks registered at one instant; a sink that is called is
  alive; references and entries balance; callbacks and the seed thread end;
* lifetime: no callback enters freed memory or goes through null, destruction ends on
  whichever thread it runs, and the object of the active plugin hears every change; all
  this fails of an object beside which an older one is destroyed, and section 3 shows how;
* queries: `ERROR_NONE` means an answer, and the answer belongs to a display
  the right port showed during the query;
* Linux events: the worker never sits in its infinite `Extract`, an empty queue
  means what is stored is current, and the destructor ends;
* RPI: a mixture of two displays is read only between two stores, settled getters are
  current, the EDID is whole and goes with its display, and a sink that is told of a
  change finds it;
* searches and sizes: the mode chosen is the one the loops are meant to find; a size
  is one that was on the screen, and there is a reason when there is none; what is freed
  was allocated.

`PROJECT.json` lists the hazards behind these at their lines, each with the
properties that would catch it or a note why none does.

## 2. The modules

| Module | Models | Checked by | Proved in |
|---|---|---|---|
| `EventFeed` | abstract: an atomic feed of events with a frame-rate baseline | refinement | |
| `DSEvents` | DeviceSettings events, one statement per step | `MCDSEvents` | `DSEvents_proofs` (lemmas on lists: `ListLemmas`) |
| `DSLifecycle` | construction and destruction of DeviceSettings objects | `MCDisplayInfoSystem` | `DisplayInfoSystem_proofs` |
| `DSQueries` | DeviceSettings queries, one library call per step | `MCDSQueries` | `DSQueries_proofs` |
| `DisplayInfoPlugin` | the plugin against shell, process, clients, worker pool | `MCDisplayInfoPlugin` | `DisplayInfoPlugin_proofs` |
| `DisplayInfoSystem` | composition: `DisplayInfoPlugin` in process over `DSLifecycle` | `MCDisplayInfoSystem` | `DisplayInfoSystem_proofs` |
| `LinuxEvents` | Linux/DRM change events and destruction | `MCLinuxEvents` | `LinuxEvents_proofs` |
| `DRMConnector` | the search for connector and mode | `MCLibdrm` | `DRM_proofs` |
| `RPIEvents` | the Raspberry Pi backend from constructor to destructor | `MCRPIEvents` | `RPIEvents_proofs` |
| `GraphicSize` | the size query of the Pi's SoC layer | `MCLibdrm` | `DRM_proofs` |

### DSEvents

State follows the members: `cachedFrameRate`, `observers` (a sequence, duplicates
included), the two locks as their owner or `Nobody`. Each callback thread has a
`pc`, its local `newRate`, `changed`, the iterator `index`, and `owed`, the
announcements left to make. `IsFrameRateChanged` is `DiffLock`, `DiffQuery`,
`DiffCompare`, `DiffStore`; `ResolutionChangeImpl` is `AnnounceLock`, one `Updated`
per sink, `AnnounceUnlock`; the seed thread `SeedSleep`, `SeedLock`,
`SeedQuery`, `SeedUnlock`; a client's `Register` and `Unregister` are
three steps each, `push_back` and `AddRef`, `Release` and `erase` apart. `FrameRate()`
gives what the display shows, or UNKNOWN with `ERROR_GENERAL`. Asserts are not
executed (release build), so a sink may be registered twice.

External: `BeginModeChange`/`EndModeChange` owe a PRE and a POST callback; `HotPlug`
changes the rate with no callback; a client may drop its reference at any time
outside a call. `told` and `reseeded` are history for two properties.

`ImplementsFeed` maps the detailed state to `EventFeed`: an announcement takes
effect when its loop gets `_adminLock`, so the abstract `heard` of a sink is what it
heard plus what is still ahead of the iterator (`HeardOrAhead`), and a callback in its
loop has one announcement fewer to make (`StillOwed`).

### DSLifecycle

`phase` follows an object through its constructor and destructor, statement by
statement where another thread can look; any number of objects may exist at once, as
the constructor asks nothing. `device::Host` has a set of listeners and one callback
thread; `call.self` is the object whose member function runs and `call.target` the one
`_instance` named when it was last read. `OnResolutionPostChange` tests the
pointer (DS 195) and then reads it again for each of three calls: `EnterDiff` (197),
`AnnounceRate` (198-201), `AnnouncePost` (202). A call through null ends the process
(`Crashed`); a call that is inside an object when it is freed may end it
(`UseAfterFree`) or go on. `Register` may throw and the thread may fail to start. The
assumption on `device::Host` is that neither `Register` nor `UnRegister` returns
while it is calling its listeners (`HostFree`): the destructor is correct only if that
is so. `cutOff` is history: the objects there were when the destructor of another one
cleared `_instance`.

### DisplayInfoPlugin

`step` is the position in `Initialize` or `Deinitialize`; `held` are the pointers
that are not null, `handlers` the registered J-classes, `refs` the references to
each interface. Out of process each is a proxy with its own count; in process they
share one object (`Exists`). `Crash` may come at any moment the process runs; if
the sink is registered with the shell, `DisplayInfo::Deactivated` runs on its own
thread in two steps, comparison and submission. `Unregister` of the shell waits for
that thread, as Thunder's lock does. `RunJob` is the deactivation job.

### DisplayInfoSystem

In process the two modules above share what they separately left open: `Root`
succeeds when the constructor of a DeviceSettings object has returned, every pointer
of the plugin and of a client is a reference to such an object (`References`), and
the release that drops the last one (`DropsLast`) starts the destructor, whose
caller goes on when the object is freed (`Released`; `Deinitialize` also waits there
for a destructor that a client has begun, which only delays it). That caller is the thread that
deactivates the plugin, or a client that kept an interface; `clientObject` remembers
from which activation. `device::Host`, seed threads and destructors run in the
background. The plugin's actions are those of the instance `Plugin`, conjoined with
what happens to the object. Nothing keeps a client from holding an object of the first
activation while the second has one of its own: the two overlap, as in the code. In
process a crash is the end of everything, so the liveness properties end in
`Crashed` as well.

### DSQueries

A query is a record: getter, argument, the library calls left (`todo`), the port at
hand, output and return code. `Script` gives the calls of each query and the
actions `GetPort`, `IsDisplayConnected`, `GetPorts`, `ScanPort`, `Read`, `Write`,
`Throws` take one each; `HotPlug` changes what a port shows in between. The
switches are tables. `during` collects which displays each port has shown during
the query, which is what its answer is held to. An EDID is a record of what
`EDID_Verify` and `EDID_Parse` give, not its bytes; a set of bits is a set, and the
list built from it the set of its elements (the order of `push_back` is fixed).

### LinuxEvents

`world` counts the changes of each part of the display; `display` holds the count
as last read. `ReceiveData` and `SetArrived` are `Post`'s two statements, `Lock`,
`ResetEvent`, `Extract`, the three rereadings and `Return` are `Worker`.
`Worker` returns `Core::infinite`; whether `Core::Thread` then calls it again is
decided outside this repository, so the constant `AfterInfinite` allows both. A message may be
lost by the socket and an entry refused by a full queue: `announced` records what has
been accepted. `Configure` runs on the activating thread beside the other two: it
reads the three parts one by one into an object nobody else sees (`ConstructDisplay`,
`configure.built`) and then sets `_display` (`SetDisplay`), which is null until then; a
worker that gets there first is `crashed`.

Destruction (`Destroy`) follows `owner` from `Stop()`, which does not wait, through
the release of the properties and the members in reverse order of declaration:
`_display`, then `_eventQueue` (its destructor sets the event, its members go, and only
then does `~Thread` wait for the worker), then the socket. A thread that uses a
member after it has gone is `dangling`.

### RPIEvents

`tv` is the display VideoCore sees, `notices` the changes it has not called back for.
`DisplayCallback` submits `_activity`, whose `job` state is that of
`WorkerPool::JobType` (a job submitted while it runs is run again). `Dispatch` runs
on two threads, the constructor's and the worker's, in the steps of the code:
`GetDisplayState`, one `StoreMember` for each of `_width`, `_height`, `_connected` and
`_audioPassthrough` (no lock), `LockAndClear`, one `ReadSegment` per EDID segment,
`TellSinks`. A display is its kind and the number of the change that brought it, so
each member and each segment says which display it came from. The getters take no lock
and keep no state: what one could read at any moment is `members` and `edid`, and
`TornOnlyWhileStoring` says when these are of two displays. A sink asks the getters from
inside `Updated` and `heard` remembers what it found. `failed` is history: what the last
`Dispatch` could not read.

### DRMConnector and GraphicSize

`DRMConnector` has one action per iteration of each loop; what `drmModeGetConnector`
will return is `got`, drawn in the initial state. A mode is its area and its
preferred mark. `GraphicSize` has one action per function of `kms.c` and per call that
matters in `getGraphicSize`, each of which may fail, while `Flip` replaces the
framebuffer of a plane. `stage` is where the query is, `live` what libdrm has allocated
and nobody freed, `failed` whether a call that could have answered has not; a null
pointer that is read through, or an array read past its end, is `crashed`. A CRTC may
have any identifier but 0. The index that KMS 50 stores as `crtc_id` is therefore the
identifier of a CRTC on some devices and of none on others, and `drmModeGetCrtc` tells by
the number alone. The encoder fetched a second time (KMS 48) is an object of its own
(`Refetched`), so that the one the loop may have passed over stays allocated.

## 3. The runs

| Run | Instance | Distinct states | What it shows |
|---|---|---|---|
| `threads` | 1 sink, 2 callback threads, 2 rates, 2 changes, 2 attempts | 168 000 | `LocksAreHeld`, `DiffIsExact`, `ImplementsFeed`, `SeedEnds`: callbacks race each other and the seed thread over the cache and lose nothing |
| `sinks` | 2 clients, 1 callback thread, 1 rate, 1 change, 2 registrations | 329 000 | `CalledSinkIsAlive`, `ReferencesMatchEntries`, `ImplementsFeed`, `CallbacksFinish`: clients race a callback over the list |
| `system` | 2 activations, 2 objects that may overlap, 1 Host event, clients for 2 interfaces | 199 000 | `CallsAreSafe`, `SeedStaysInside`, `NothingIsLeft`, `DestructionEnds`, `DeactivationEnds`, `UndisturbedPluginHears`: whichever thread destroys an object, nothing is left and nobody waits forever |
| `plugin` | 2 activations, in process and out | 5 700 | `CleanWhenDeactivated`, `RequiredHandlersAreBacked`, `DeactivatedFindsService`, `CrashDeactivates` |
| `queries` | 3 ports, 2 displays, 1 query, 2 display changes | 220 000 | `SuccessIsAnAnswer`, `EarlierPortsWereOff`, `SteadyDisplayIsAnswered`, `EdidFits`, `QueriesReturn` |
| `linux` | queue limit 2, 3 changes, `Configure` and destruction at any moment | 547 000 | `ExtractNeverBlocks`, `WakesHaveEntries`, `EmptyQueueIsFresh`, `WakeIsServed`, `DestructionEnds` |
| `rpi` | 1 sink, 3 changes, constructor to destructor | 360 000 | `SettledIsCurrent`, `TornOnlyWhileStoring`, `EdidMatchesConnection`, `SinksAgreeWithGetters`, `ChangesAreHeard` |
| `libdrm` | either every device of up to 2 connectors over a handful of mode lists, or the size query on several devices, 4 flips, retries up to the bound | 757 000 | `ChosenIsRight`; `SizeWasShown`, `ContextIsReleased`, `MissingSizeHasAReason`, `QueryEnds` |

`threads` and `linux` also check the type invariant. Four runs are of claims the
code does not keep, each with a counterexample:

| Run | Property | Claim, and what happens |
|---|---|---|
| `hidden` | `RateChangeIsSeen` | A changed rate is announced. The seed thread may read the new rate before the callback does, which then sees no difference (DS 249). |
| `overlap` | `PluginHearsChanges` | The plugin announces every change. A client keeps an interface over a deactivation; its late release destroys the old object, which clears the `_instance` of the new one (DS 133). |
| `nullcall` | `TestedInstanceStays` | A callback that found `_instance` set (DS 195) calls through an object. The same late release falls between the test and DS 197, where the pointer is null. |
| `teardown` | `ThreadsEndSafely` | Threads are joined or safely terminated. `_display` goes before the event thread that rereads it has ended (LX 735). |

`system`, `overlap` and `nullcall` are the same specification. `system` checks what does
hold while objects overlap: `CallsAreSafe` and `UndisturbedPluginHears` ask nothing of an
object once another one's destructor has cleared `_instance` beside it (`cutOff`), and a
client that merely keeps an old object does no harm. The other two runs are what happens
to the object that was cut off: outside a callback it hears nothing more, inside one the
pointer that has been tested is null, or a freed object, when it is called through.

Divergences seen while reading and not made runs:

* DS 249: a failed seeding writes UNKNOWN over the rate a callback stored; the
  change's `displayinfo/spec.md:62` says the last known rate is kept.
* DS 511-543: `HeightInCentimeters` is not written without a display;
  `displayinfo.spec.md:500` says 0.
* DS 433-436: without a connected port the HDCP getter leaves its output unwritten;
  the spec's line 404 says `HDCP_UNENCRYPTED`.
* DS 647, 730, 767: without a display ColorSpace, ColourDepth and QuantizationRange
  return `ERROR_NONE`; the spec says `ERROR_GENERAL`.
* `DisplayInfo.cpp:133`: `_displayProperties` is released before its handlers are
  unregistered.
* LX 713: two entries under one wake-up, and the second waits for a third; the spec's
  lines 727-728 speak of bounded latency. LX 412: a reread EDID is appended to the old one.
  LX 617: nothing submits `_activity`, so no client of this backend hears of a change.
* RPI 57-59: a display event between the first `Dispatch` and the registration is
  lost. RPI 197-209: a getter between two stores answers with the width of one
  display and the height of another; no document speaks of it. RPI 361-371: the reasons SDTV_NTSC and SDTV_PAL are ignored, though `Dispatch`
  takes them into account. RPI 61-64: the destructor neither unregisters the
  callback nor revokes the job, and relies on `bcm_host_deinit` and `~JobType`.
* KMS 68 and `DRMConnector.h:58`: null resources are read through; KMS 36: so is a null
  connector. KMS 48-50: the index of a CRTC serves as an encoder's index and as a
  CRTC's identifier: if it is one, the walk goes on with whichever CRTC has it, which does no harm to the
  size (that is the primary plane's); if not, there is no size, even though a later encoder in the list is the connector's
  own and bound (`Leads` in `MissingSizeHasAReason` is as narrow as that). SOC 131-132: the plane
  of each retry is not freed and not tested. SOC 175, 182: the result is not
  initialised when there is no size, and width and height are two queries that may
  see two framebuffers. `DRMConnector.h:60`: of several HDMI connectors the last wins.

### The bounds

* Two callback threads are enough for every pairwise race over the rate cache, and a
  rate has to change twice to be announced, forgotten and announced again. With
  no registrations in `threads` the list is empty; the announcement is covered by
  `sinks`. The theorems hold for any number of threads, clients and rates.
* Two registrations allow a sink registered twice, and two sinks at once.
  `MaxAttempts` is the code's value, 2.
* Two activations let the leftovers of one, a client's reference, an old object's
  destructor or a deactivation job included, meet the next; with two objects the old one
  can be destroyed at any step of the new one's life. One Host event is enough for a
  callback to be under way when an object goes, since the event may come at any moment; the
  violation runs use two. Two of the four interfaces suffice for a client that releases one
  and keeps another. The theorems hold for any number of objects, events and activations.
* Queries share no state but the HDMI preference, which one step reads or writes,
  so one caller is enough. The default port is the last of the three, so the scan passes
  a port it must skip (component) and one it may take (panel); two changes let a
  display move from a port not scanned yet to one already passed. `MaxLength`
  stands for 65535 and lies between the sizes of the two EDIDs.
* Three messages fill a queue of two and have one refused, or leave one for the worker
  to meet on its return. `Limit` is 4 in the code; the theorems hold for any.
* Three changes on the Pi put one before the registration, one inside a Dispatch and
  one inside the Dispatch that follows.
* Two connectors let the second overwrite the first. The devices of the size query have up
  to two connectors, encoders, CRTCs and planes in the orders that matter to
  `kms_setup_encoder`; CRTC identifiers are 1 and 2, of which 1 is an index too, or 5 and 6.
  `MaxTries` is 100 in the code and 0 here, which leaves the first look and two more; four
  flips are enough for each of the looks to come too late, and for one flip more. The two
  searches share a module for TLC and nothing else: a behaviour is one of the one or of the
  other.

### Fairness

Weak fairness of each thread's steps: the operating system schedules it and the
external calls return. No fairness for anything from outside: changes, clients
beginning calls or letting go of interfaces, activations, crashes, exceptions. In particular:

* `SF(AnnounceLock)`, `SF(HostUnRegister)`: a lock that is taken and released again
  and again by others is eventually granted to a waiting thread. The code has no
  other mechanism against starvation, so `CallbacksFinish`, `DestructionEnds` and
  `DeactivationEnds` rest on this. The last two also end where the process has crashed.
* `WF(EndModeChange)`: the platform ends a mode change it began.
* `DSQueries` asks fairness of the library calls and not of `Throws`.
* `WF(RunJob)`: the worker pool runs its jobs; `WF(DisplayCallback)`: VideoCore calls
  back for a change.
* `WF(owner # "alive" /\ Destroy)`: a destructor that has begun goes on; nobody has
  to begin one.

## 4. Proofs

The theorems hold for every value of the constants that satisfies the assumptions
in the modules, and for every bound.

`DSEvents_proofs`: `TypeCorrect`, `LockDiscipline`, `ExactDiff`, `CacheMovesByDiffs`,
`ReferencesBalance`, `NoDeadSinkIsCalled`, `StepsOfTheFeed`. Assumptions: the kinds of threads are
disjoint, `Nobody` is no thread, UNKNOWN is no rate, `MaxAttempts` is at least 1.

* `LocksAreHeld` is inductive with `TypeOK`. `DiffIsExact` follows: a thread at `store`
  owns `_frameRateLock`, and whoever writes the cache owns it too.
* `ReferencesMatchEntries` is not inductive: it says nothing of a client in the
  middle of a call. The strengthening is `ReferencesAreCounted`, which accounts for
  the entry without reference between `push_back` and `AddRef` and between `Release` and
  `erase`; its induction needs how appending and removing the first occurrence
  change the number of occurrences, which `ListLemmas` proves about any sequence.
* `CalledSinkIsAlive` needs both: the caller owns `_adminLock`, so no client is in the
  middle of a call, so each entry has a reference of its own.
* `StepsOfTheFeed` is the safety part of `ImplementsFeed`: `Init` gives `EventFeed`'s,
  and each statement is a step of it or invisible to it. `DiffStore` is its exchange,
  by `DiffIsExact`; `AnnounceLock` its announcement, since nothing is ahead of an
  iterator before the lock is taken; each `Updated` moves one copy of the announcement
  from what is ahead to what has been heard.

`DisplayInfoSystem_proofs`, about `DSLifecycle` under any owner, for any number of
objects that overlap in any way: `TypeCorrect`, `SeedIsInside` and `CallsStaySafe`
(`CallsAreSafe`). The invariant `LifecycleInv` says that Host knows only objects
between `Register` and the end of `UnRegister` (`ListenersExist`), that the object
being called and those still to be called are among these (`CallIsRegistered`), that
`_instance` points to an object that exists as long as there is an object that has
not been cut off (`InstanceIsThere`: every constructor sets the pointer, and only a
destructor clears it, which cuts off all the others), and so that a callback to an object
that has not been cut off is inside one that exists (`TargetIsThere`). The condition cannot be
dropped: `nullcall` is a callback to an object that has been cut off.

The same module, about the composition `DisplayInfoSystem`:

* `ObjectsOfPlugin` and `PluginOfSystem`: the system implements each of its
  components, so whatever is proved of `DSLifecycle` or of `DisplayInfoPlugin`
  holds in it. Every step of the system is a step of each or a stutter; the one
  that needs an invariant is a release, which may start a destructor only for an
  object that is `live`. `SamePlugin` carries the plugin's lemmas over from the instance
  in which they are proved.
* `OwnersInv` is what is the system's own: an object is `live` exactly as long as
  the plugin or a client holds an interface of it, but for the moment between the
  end of its constructor and `Root`'s return. Its induction counts references
  (`LastOfConnection`, `LastOfClient`: the release that finds one reference finds no
  other owner). `HeldIsLive` follows: no interface outlives its object.
* `SystemLeavesNothing` (`NothingIsLeft`), for any number of activations and of objects,
  overlapping or not: with nothing held no object is `live`; a freed one is neither known to
  Host nor `_instance` (`ForgottenInvariant`), and its seed thread has ended.
* `PluginIsTold` (`UndisturbedPluginHears`) without a condition on the clients: the
  plugin's object is the youngest one, so `_instance` points to it until it is cut off
  (`ObjectIsCurrent`), and in the course of a change it is still to be called, being called,
  or told (`ObjectIsServed`).
* `SystemCallsAreSafe`: `CallsAreSafe` and `SeedStaysInside` carried over by `ObjectsOfPlugin`.

`DisplayInfoPlugin_proofs`: `DeactivatedIsClean`, `HandlersAreBacked`,
`ServiceIsThere`, for any number of activations. The invariant `PluginInv` says, for each
position in `Initialize` and `Deinitialize`, which pointers are held, which
handlers and registrations may be there, and that `refs` counts the plugin's and the
clients' references.

`DSQueries_proofs`: `BufferIsRespected` (`EdidFits`), `FirstPortWins`
(`EarlierPortsWereOff`), `NothingIsLeftUnwritten` (`SuccessIsAnAnswer`), `SteadyAnswers`
(`SteadyDisplayIsAnswered`), for any callers, ports, displays, queries and buffer
lengths. Assumptions: ports have types; lengths and what the external EDID parser
returns are naturals; it verifies no EDID shorter than the bytes that are read from it
at fixed places (a valid one has 128); an output nobody has written differs from every
value the getters write (`UnsetAssumption`).

* The invariant follows each script: before a scan ends every eligible port passed was
  off (`PrefixOff`), after it the port found is eligible and was on (`Found`); a caller's `during`
  always holds what the ports show now (`Present`), which is what makes a test of a
  port an entry in it.
* `AnswersInv` adds what has been written by then. A getter that asks the default port
  has, once it is finished, thrown, or seen the port off, or read one display the
  port showed in the meantime (`AskInv`, `HasRead`): code and output are those of one
  and the same display, though the test and the read are two calls. An output is
  unwritten only where the getter is one that reports `ERROR_GENERAL` for it
  (`OutInv`). `HdcpInv` says the same of the scan, of which `FirstPortWins` is a part: a
  panel that stays on keeps the scan from ending without a port.

`LinuxEvents_proofs`: `TypeCorrect`, `WorkerNeverStarves`, `WakesAreBacked`,
`EmptyQueueFresh`, for any limit and number of changes.

* `ExtractNeverBlocks` is not inductive: a wake-up not yet taken must have an entry
  too. `WakesHaveEntries` counts the wake-ups under way against the queue, up to the
  destructor's own.
* `EmptyQueueIsFresh` needs, for each part and each position of the worker, that the
  part is fresh, or about to be reread, or an entry that will have it reread is in the
  queue (`ToBeRead`), and that what was announced has happened.
* `Configure` adds that before `_display` is set whatever has been announced has an entry in
  the queue still (`ToBeTaken`), since a worker that takes one then crashes, and that nobody
  else sets it (`ConfigureSetsOnce`); what `Configure` has read by then may be older
  than what is announced, and the entry makes up for it.

`RPIEvents_proofs`: `NoMixtureIsLeft` (`TornOnlyWhileStoring`), `EdidFits`
(`EdidMatchesConnection`), `SinksAgree`, `SettledAnswersAreNew` (`SettledIsCurrent`), for any
number of changes and sinks. The constructor's and the worker's Dispatch never run together
(`OneRunner`), though no lock keeps them apart. `MembersFollowStores` says at each place of
the Dispatch that runs which members are already of the new display and which are still
of the old one; the four stores leave them whole again. `SegmentsFollowLoop` ties `_EDID` to
the loop's index, and `SettledEdid` says what a finished Dispatch leaves. `SettledIsCurrent`
needs `ReadingsAreNew`: unless the job has been submitted again, all a Dispatch has read so
far is at least as new as the last change called back for. A callback in between two
reads breaks that and submits the job in the same step.

`DRM_proofs`, about `DRMConnector`: `TypeCorrect`, `ScanIsRight` and `AnswerIsRight`, for
any connectors and mode lists: `ScannedIsRight` is the invariant of both loops, and
one lemma for each search says that one more mode keeps it.

The same module, about `GraphicSize`: `MeasuredWasShown` (`SizeWasShown`), `WalkReleases`
(`ContextIsReleased`), `UnwrittenForAReason` (`MissingSizeHasAReason`), for any devices,
any number of flips and of retries; assumptions: a device's tables are finite lists, CRTC
indices lie below their number and identifiers are not 0, and an object's address is not
null. Nothing is assumed of how identifiers and indices relate. None of the three is
inductive; `SizeInv` adds

* `PlanesInv`: what primary planes show has been seen, and the plane whose framebuffer is
  measured is a primary one, in the retries too;
* `ObjectsInv`: for each position in the walk, which pointers of `kms_ctx` are set, that
  what they point to is allocated, and that everything else that is allocated was
  passed over by a loop;
* `ReasonInv`: without an excuse (a failed call, no connector, an encoder the walk does not
  come to, no primary plane) the walk comes to a CRTC, and each look at the framebuffer fails
  only because the plane has been blank or has been given a framebuffer not seen before: as
  many have been seen as looks have failed, and one.

Every safety property of the passing runs is stated by a theorem. Only model-checked is
liveness, as fairness and `ENABLED` are out of the prover's reach: `SeedEnds`,
`CallbacksFinish`, `DestructionEnds`, `DeactivationEnds`, `CrashDeactivates`,
`QueriesReturn`, `WakeIsServed`, `ChangesAreHeard`, `QueryEnds`, and the fairness of
`EventFeed` in `ImplementsFeed`, whose safety part is `StepsOfTheFeed`.

## 5. Not modelled

* The web interface (`Process`, `Info`): stateless, but it dereferences pointers that
  `Deinitialize` clears; whether the shell keeps them apart is outside this code.
* Sinks that call back into `Register` or `Unregister` from `Updated`: after the erase
  the loop's iterator is invalid and what it does is undefined.
* The Linux backend's getters, each one member under its lock, and its `Register`,
  `Unregister` and `Dispatch`, which nothing submits; `GraphicsProperties` and
  `HDRProperties`, which parse one line of a file.
* The RPI backend's HDCP level, a value that is set and read back, and its GPU memory.
* The Pi's memory figures (SOC 85 multiplies kB by 1000) and `kms_get_properties`,
  which nothing calls.
* `DisplayInfoJsonRpc.cpp` (not built), tracing, build files, tests.

## 6. Plan

Done: the DeviceSettings backend, the plugin, their composition, the event paths
of the Linux and RPI backends with their destruction, the mode search, the size query,
and the theorems of section 4.

Next:

* the safety half of the liveness properties: what a step of the destructor, of a callback
  or of the retry loop brings closer to its end, and no other thread takes back;
* the bytes of `_EDID` while `RetrieveEDID` writes a segment, for a getter that reads them
  without the lock: `RPIEvents` stores a segment in one step;
* `DisplayInfoPlugin` over `RPIEvents`, once the order of `bcm_host_deinit` and a
  job under way is known from the platform's documentation.

## 7. Running

`tlc -workers 2 -config <cfg> <module>` for the pairs in `PROJECT.json`, for instance
`tlc -config MCDSEvents_sinks.cfg MCDSEvents`; `tlapm DSEvents_proofs.tla`. The slowest
run (`system`) takes three to four minutes.
