------------------------------ MODULE DSEvents ------------------------------
(***************************************************************************)
(* The event path of one live DisplayInfoImplementation of the             *)
(* DeviceSettings backend: resolution callbacks the platform delivers, the *)
(* frame-rate comparison under _frameRateLock, the background thread that  *)
(* seeds the cached rate, the announcement of each event to the registered *)
(* sinks under _adminLock, and the clients that register and unregister    *)
(* those sinks meanwhile.  Every thread moves one statement at a time.     *)
(*                                                                         *)
(* device::Host and the HAL are external: they change the mode, owe a      *)
(* callback before and after it, may change the rate without any callback  *)
(* (hot plug), and may fail any query.                                     *)
(***************************************************************************)
EXTENDS Integers, Sequences, FiniteSets, SequencesExt

CONSTANTS
  Observers,        \* sinks, each with the client thread that owns it
  Dispatchers,      \* threads device::Host delivers callbacks on
  Rates,            \* frame rates a connected display can report
  UNKNOWN,          \* FRAMERATE_UNKNOWN: no display, unmapped rate, failure
  Seeder,           \* the thread running CacheInitialFrameRateAsync
  Nobody,           \* owner of a free lock
  MaxAttempts,      \* kMaxAttempts
  MaxModeChanges,   \* bound: rate changes (with or without callbacks)
  MaxRegistrations  \* bound: calls of Register

Threads == Observers \union Dispatchers \union {Seeder}
Readings == Rates \union {UNKNOWN}

ASSUME ThreadsAssumption ==
  /\ Observers \intersect Dispatchers = {}
  /\ Seeder \notin Observers \union Dispatchers
  /\ Nobody \notin Threads
ASSUME RatesAssumption == UNKNOWN \notin Rates
ASSUME BoundsAssumption ==
  /\ MaxAttempts \in Nat \ {0}
  /\ MaxModeChanges \in Nat
  /\ MaxRegistrations \in Nat

VARIABLES
  \* external: the display, and the callbacks device::Host still owes
  hal,              \* what FrameRate() would read now
  changing,         \* between the PRE and the POST callback of a mode change
  pending,          \* callbacks owed, oldest first
  changes,          \* rate changes so far
  \* DisplayInfoImplementation's members
  cachedFrameRate,
  frameRateLock,    \* the thread that holds it, or Nobody
  adminLock,        \* likewise
  observers,        \* _observers, duplicates included
  \* OnResolutionPreChange / OnResolutionPostChange, per dispatcher
  pc, newRate, changed,
  owed,             \* the ResolutionChangeImpl calls still to be made
  index,            \* ResolutionChangeImpl's iterator
  \* CacheInitialFrameRateAsync
  seed,
  \* the clients and their sinks
  client,           \* where each client's thread is
  own,              \* the client still holds its own reference
  refs,             \* reference count of the sink
  registrations,    \* calls of Register so far
  \* history
  heard,            \* announcements each sink has received
  told,             \* rate stored by the last callback's comparison
  reseeded          \* the seed thread has written the cache since

halVars == <<hal, changing, pending, changes>>
rateVars == <<cachedFrameRate, frameRateLock, told, reseeded>>
callbackVars == <<pc, newRate, changed, owed, index>>
sinkVars == <<observers, client, own, refs, registrations>>
vars == <<halVars, rateVars, adminLock, callbackVars, seed, sinkVars, heard>>

CallbackPCs == {"idle", "lock", "query", "compare", "store", "announce", "deliver"}
SeedPCs == {"sleep", "lock", "query", "unlock", "done"}
ClientPCs == {"idle", "push", "addref", "find", "release", "erase"}
Sources == {"PRE_RESOLUTION_CHANGE", "FRAMERATE_CHANGE", "POST_RESOLUTION_CHANGE"}

Init ==
  /\ hal \in Readings /\ changing = FALSE /\ pending = <<>> /\ changes = 0
  /\ cachedFrameRate = UNKNOWN
  /\ frameRateLock = Nobody /\ adminLock = Nobody
  /\ observers = <<>>
  /\ pc = [d \in Dispatchers |-> "idle"]
  /\ newRate = [d \in Dispatchers |-> UNKNOWN]
  /\ changed = [d \in Dispatchers |-> FALSE]
  /\ owed = [d \in Dispatchers |-> <<>>]
  /\ index = [d \in Dispatchers |-> 1]
  \* "done" at once: std::thread's constructor threw and nothing was started
  /\ \E s \in {"sleep", "done"} :
       seed = [pc |-> s, attempt |-> 1, result |-> "ERROR_GENERAL"]
  /\ client = [o \in Observers |-> "idle"]
  /\ own = [o \in Observers |-> TRUE]
  /\ refs = [o \in Observers |-> 1]
  /\ registrations = 0
  /\ heard = [o \in Observers |-> <<>>]
  /\ told = UNKNOWN /\ reseeded = FALSE

-----------------------------------------------------------------------------
(* device::Host and the HAL (external).                                    *)

BeginModeChange ==
  /\ ~changing /\ changes < MaxModeChanges
  /\ changing' = TRUE
  /\ changes' = changes + 1
  /\ pending' = Append(pending, "OnResolutionPreChange")
  /\ UNCHANGED <<hal, rateVars, adminLock, callbackVars, seed, sinkVars, heard>>

EndModeChange ==
  /\ changing
  /\ hal' \in Readings
  /\ changing' = FALSE
  /\ pending' = Append(pending, "OnResolutionPostChange")
  /\ UNCHANGED <<changes, rateVars, adminLock, callbackVars, seed, sinkVars, heard>>

HotPlug ==
  /\ changes < MaxModeChanges
  /\ changes' = changes + 1
  /\ hal' \in Readings \ {hal}
  /\ UNCHANGED <<changing, pending, rateVars, adminLock, callbackVars, seed,
                 sinkVars, heard>>

-----------------------------------------------------------------------------
(* Callbacks.                                                              *)

\* What one call of FrameRate() can do: its reading and its return code.  A
\* device::Exception becomes ERROR_GENERAL; any other exception leaves the
\* reading UNKNOWN too and the caller's catch-all keeps its own code.
FrameRate == {<<hal, "ERROR_NONE">>, <<UNKNOWN, "ERROR_GENERAL">>}

FrameRateLockIgnored == TRUE
FrameRateLockFree == frameRateLock = Nobody
AdminLockFree == adminLock = Nobody

OnResolutionPreChange(d) ==
  /\ pc[d] = "idle"
  /\ pending # <<>> /\ Head(pending) = "OnResolutionPreChange"
  /\ pending' = Tail(pending)
  /\ pc' = [pc EXCEPT ![d] = "announce"]
  /\ owed' = [owed EXCEPT ![d] = <<"PRE_RESOLUTION_CHANGE">>]
  /\ UNCHANGED <<hal, changing, changes, rateVars, adminLock, newRate, changed,
                 index, seed, sinkVars, heard>>

OnResolutionPostChange(d) ==
  /\ pc[d] = "idle"
  /\ pending # <<>> /\ Head(pending) = "OnResolutionPostChange"
  /\ pending' = Tail(pending)
  /\ pc' = [pc EXCEPT ![d] = "lock"]
  /\ UNCHANGED <<hal, changing, changes, rateVars, adminLock, newRate, changed,
                 owed, index, seed, sinkVars, heard>>

\* IsFrameRateChanged, statement by statement.
DiffLock(d) ==
  /\ pc[d] = "lock" /\ FrameRateLockFree
  /\ frameRateLock' = d
  /\ pc' = [pc EXCEPT ![d] = "query"]
  /\ UNCHANGED <<halVars, cachedFrameRate, told, reseeded, adminLock, newRate,
                 changed, owed, index, seed, sinkVars, heard>>

QueryUntilItSucceeds(d) ==
  /\ pc[d] = "query"
  /\ \E answer \in FrameRate :
       /\ newRate' = [newRate EXCEPT ![d] = answer[1]]
       /\ IF answer[2] = "ERROR_NONE"
          THEN pc' = [pc EXCEPT ![d] = "compare"] /\ frameRateLock' = frameRateLock
          ELSE pc' = [pc EXCEPT ![d] = "lock"] /\ frameRateLock' = Nobody
  /\ UNCHANGED <<halVars, cachedFrameRate, told, reseeded, adminLock, changed,
                 owed, index, seed, sinkVars, heard>>

\* IsFrameRateChanged ignores the return code.
DiffQuery(d) ==
  /\ pc[d] = "query"
  /\ \E answer \in FrameRate : newRate' = [newRate EXCEPT ![d] = answer[1]]
  /\ pc' = [pc EXCEPT ![d] = "compare"]
  /\ UNCHANGED <<halVars, rateVars, adminLock, changed, owed, index, seed,
                 sinkVars, heard>>

DiffCompare(d) ==
  /\ pc[d] = "compare"
  /\ changed' = [changed EXCEPT ![d] = newRate[d] # cachedFrameRate]
  /\ pc' = [pc EXCEPT ![d] = "store"]
  /\ UNCHANGED <<halVars, rateVars, adminLock, newRate, owed, index, seed,
                 sinkVars, heard>>

\* The ResolutionChangeImpl calls OnResolutionPostChange makes after the diff.
PostFirst(isChanged) ==
  IF isChanged THEN <<"POST_RESOLUTION_CHANGE", "FRAMERATE_CHANGE">>
               ELSE <<"POST_RESOLUTION_CHANGE">>
PostAnnouncements(isChanged) ==
  IF isChanged THEN <<"FRAMERATE_CHANGE", "POST_RESOLUTION_CHANGE">>
               ELSE <<"POST_RESOLUTION_CHANGE">>

CacheAfterDiff(d) == newRate[d]

\* Store, Unlock, and return to OnResolutionPostChange.
DiffStore(d) ==
  /\ pc[d] = "store"
  /\ cachedFrameRate' = CacheAfterDiff(d)
  /\ told' = newRate[d] /\ reseeded' = FALSE
  /\ frameRateLock' = Nobody
  /\ owed' = [owed EXCEPT ![d] = PostAnnouncements(changed[d])]
  /\ pc' = [pc EXCEPT ![d] = "announce"]
  /\ UNCHANGED <<halVars, adminLock, newRate, changed, index, seed, sinkVars, heard>>

-----------------------------------------------------------------------------
(* ResolutionChangeImpl(Head(owed[d])).                                    *)

AnnounceLock(d) ==
  /\ pc[d] = "announce" /\ AdminLockFree
  /\ adminLock' = d
  /\ index' = [index EXCEPT ![d] = 1]
  /\ pc' = [pc EXCEPT ![d] = "deliver"]
  /\ UNCHANGED <<halVars, rateVars, newRate, changed, owed, seed, sinkVars, heard>>

\* (*index)->Updated(eventtype); index++
Updated(d) ==
  /\ pc[d] = "deliver" /\ index[d] <= Len(observers)
  /\ heard' = [heard EXCEPT ![observers[index[d]]] = Append(@, Head(owed[d]))]
  /\ index' = [index EXCEPT ![d] = @ + 1]
  /\ UNCHANGED <<halVars, rateVars, adminLock, pc, newRate, changed, owed, seed,
                 sinkVars>>

KeepAdminLock == adminLock
ReleaseAdminLock == Nobody

AnnounceUnlock(d) ==
  /\ pc[d] = "deliver" /\ index[d] > Len(observers)
  /\ adminLock' = ReleaseAdminLock
  /\ owed' = [owed EXCEPT ![d] = Tail(@)]
  /\ pc' = [pc EXCEPT ![d] = IF Len(owed[d]) > 1 THEN "announce" ELSE "idle"]
  /\ UNCHANGED <<halVars, rateVars, newRate, changed, index, seed, sinkVars, heard>>

Dispatch(d) ==
  \/ OnResolutionPreChange(d) \/ OnResolutionPostChange(d)
  \/ DiffLock(d) \/ DiffQuery(d) \/ DiffCompare(d) \/ DiffStore(d)
  \/ AnnounceLock(d) \/ Updated(d) \/ AnnounceUnlock(d)

-----------------------------------------------------------------------------
(* CacheInitialFrameRateAsync.                                             *)

SeedSleep ==
  /\ seed.pc = "sleep"
  /\ seed' = [seed EXCEPT !.pc = "lock", !.result = "ERROR_GENERAL"]
  /\ UNCHANGED <<halVars, rateVars, adminLock, callbackVars, sinkVars, heard>>

SeedLock ==
  /\ seed.pc = "lock" /\ FrameRateLockFree
  /\ frameRateLock' = Seeder
  /\ seed' = [seed EXCEPT !.pc = "query"]
  /\ UNCHANGED <<halVars, cachedFrameRate, told, reseeded, adminLock,
                 callbackVars, sinkVars, heard>>

\* FrameRate() writes straight into the cache, its UNKNOWN of a failure too.
SeedQuery ==
  /\ seed.pc = "query"
  /\ \E answer \in FrameRate :
       /\ cachedFrameRate' = answer[1]
       /\ seed' = [seed EXCEPT !.pc = "unlock", !.result = answer[2]]
  /\ reseeded' = TRUE
  /\ UNCHANGED <<halVars, told, frameRateLock, adminLock, callbackVars,
                 sinkVars, heard>>

\* Return on success, and after the last attempt; otherwise sleep once more.
TooManyAttempts == seed.attempt > MaxAttempts
LastAttempt == seed.attempt = MaxAttempts
SameAttempt(n) == n
NextAttempt(n) == n + 1

SeedUnlock ==
  /\ seed.pc = "unlock"
  /\ frameRateLock' = Nobody
  /\ seed' = IF seed.result = "ERROR_NONE" \/ LastAttempt
             THEN [seed EXCEPT !.pc = "done"]
             ELSE [seed EXCEPT !.pc = "sleep", !.attempt = NextAttempt(@)]
  /\ UNCHANGED <<halVars, cachedFrameRate, told, reseeded, adminLock,
                 callbackVars, sinkVars, heard>>

SeedThread == SeedSleep \/ SeedLock \/ SeedQuery \/ SeedUnlock

-----------------------------------------------------------------------------
(* Clients: Register and Unregister of a sink the caller holds a reference *)
(* to.  The duplicate check is an ASSERT, absent from release builds.      *)

RegisterLock(o) ==
  /\ client[o] = "idle" /\ own[o] /\ AdminLockFree
  /\ registrations < MaxRegistrations
  /\ registrations' = registrations + 1
  /\ adminLock' = o
  /\ client' = [client EXCEPT ![o] = "push"]
  /\ UNCHANGED <<halVars, rateVars, callbackVars, seed, observers, own, refs, heard>>

RegisterPush(o) ==
  /\ client[o] = "push"
  /\ observers' = Append(observers, o)
  /\ client' = [client EXCEPT ![o] = "addref"]
  /\ UNCHANGED <<halVars, rateVars, adminLock, callbackVars, seed, own, refs,
                 registrations, heard>>

NoAddRef(n) == n
AddRef(n) == n + 1

RegisterAddRef(o) ==
  /\ client[o] = "addref"
  /\ refs' = [refs EXCEPT ![o] = AddRef(@)]
  /\ adminLock' = Nobody
  /\ client' = [client EXCEPT ![o] = "idle"]
  /\ UNCHANGED <<halVars, rateVars, callbackVars, seed, observers, own,
                 registrations, heard>>

UnregisterLock(o) ==
  /\ client[o] = "idle" /\ own[o] /\ AdminLockFree
  /\ adminLock' = o
  /\ client' = [client EXCEPT ![o] = "find"]
  /\ UNCHANGED <<halVars, rateVars, callbackVars, seed, observers, own, refs,
                 registrations, heard>>

Registered(o) == \E i \in 1..Len(observers) : observers[i] = o

\* index == _observers.end() releases the lock and changes nothing.
UnregisterFind(o) ==
  /\ client[o] = "find"
  /\ IF Registered(o)
     THEN client' = [client EXCEPT ![o] = "release"] /\ adminLock' = adminLock
     ELSE client' = [client EXCEPT ![o] = "idle"] /\ adminLock' = Nobody
  /\ UNCHANGED <<halVars, rateVars, callbackVars, seed, observers, own, refs,
                 registrations, heard>>

KeepReference(n) == n
Release(n) == n - 1

UnregisterRelease(o) ==
  /\ client[o] = "release"
  /\ refs' = [refs EXCEPT ![o] = Release(@)]
  /\ client' = [client EXCEPT ![o] = "erase"]
  /\ UNCHANGED <<halVars, rateVars, adminLock, callbackVars, seed, observers,
                 own, registrations, heard>>

EraseEntry(o) == RemoveFirst(observers, o)

UnregisterErase(o) ==
  /\ client[o] = "erase"
  /\ observers' = EraseEntry(o)
  /\ adminLock' = Nobody
  /\ client' = [client EXCEPT ![o] = "idle"]
  /\ UNCHANGED <<halVars, rateVars, callbackVars, seed, own, refs,
                 registrations, heard>>

\* The client drops its own reference, registered or not (external).
DropReference(o) ==
  /\ client[o] = "idle" /\ own[o]
  /\ own' = [own EXCEPT ![o] = FALSE]
  /\ refs' = [refs EXCEPT ![o] = Release(@)]
  /\ UNCHANGED <<halVars, rateVars, adminLock, callbackVars, seed, observers,
                 client, registrations, heard>>

InCall(o) == RegisterPush(o) \/ RegisterAddRef(o) \/ UnregisterFind(o)
             \/ UnregisterRelease(o) \/ UnregisterErase(o)
Client(o) == RegisterLock(o) \/ UnregisterLock(o) \/ InCall(o) \/ DropReference(o)

\* Nothing left to do within the bounds.
AtRest ==
  /\ ~changing /\ pending = <<>> /\ seed.pc = "done"
  /\ \A d \in Dispatchers : pc[d] = "idle"
  /\ \A o \in Observers : client[o] = "idle"
Rest == AtRest /\ UNCHANGED vars

Next ==
  \/ BeginModeChange \/ EndModeChange \/ HotPlug
  \/ \E d \in Dispatchers : Dispatch(d)
  \/ SeedThread
  \/ \E o \in Observers : Client(o)
  \/ Rest

\* The threads run, a sink's Updated() returns, the platform finishes a mode
\* change it began, and _adminLock, which clients may take again and again,
\* is eventually handed to the callback waiting for it.
Fairness ==
  /\ WF_vars(EndModeChange)
  /\ \A d \in Dispatchers : WF_vars(Dispatch(d)) /\ SF_vars(AnnounceLock(d))
  /\ WF_vars(SeedThread)
  /\ \A o \in Observers : WF_vars(InCall(o))

Spec == Init /\ [][Next]_vars /\ Fairness
-----------------------------------------------------------------------------
(* Properties.                                                             *)

\* The type invariant.
TypeOK ==
  /\ hal \in Readings /\ changing \in BOOLEAN /\ changes \in Nat
  /\ pending \in Seq({"OnResolutionPreChange", "OnResolutionPostChange"})
  /\ cachedFrameRate \in Readings /\ told \in Readings /\ reseeded \in BOOLEAN
  /\ frameRateLock \in Dispatchers \union {Seeder, Nobody}
  /\ adminLock \in Dispatchers \union Observers \union {Nobody}
  /\ observers \in Seq(Observers)
  /\ pc \in [Dispatchers -> CallbackPCs]
  /\ newRate \in [Dispatchers -> Readings]
  /\ changed \in [Dispatchers -> BOOLEAN]
  /\ owed \in [Dispatchers -> Seq(Sources)]
  /\ index \in [Dispatchers -> Nat \ {0}]
  /\ seed \in [pc : SeedPCs, attempt : 1..MaxAttempts,
               result : {"ERROR_NONE", "ERROR_GENERAL"}]
  /\ client \in [Observers -> ClientPCs]
  /\ own \in [Observers -> BOOLEAN]
  /\ refs \in [Observers -> Int]
  /\ registrations \in Nat
  /\ heard \in [Observers -> Seq(Sources)]

\* A callback is inside IsFrameRateChanged's critical section exactly while it
\* owns _frameRateLock, and the seed thread likewise; ResolutionChangeImpl's
\* loop and the clients' calls own _adminLock; and a callback owes
\* announcements exactly while it is making them.
LocksAreHeld ==
  /\ \A d \in Dispatchers :
       /\ pc[d] \in {"query", "compare", "store"} <=> frameRateLock = d
       /\ pc[d] = "deliver" <=> adminLock = d
       /\ pc[d] \in {"announce", "deliver"} <=> owed[d] # <<>>
  /\ seed.pc \in {"query", "unlock"} <=> frameRateLock = Seeder
  /\ \A o \in Observers : client[o] # "idle" <=> adminLock = o

\* A callback that has decided whether the frame rate changed still has the
\* right answer when it overwrites the cache: neither the seed thread nor
\* another callback got between IsFrameRateChanged's comparison and its store.
DiffIsExact ==
  \A d \in Dispatchers :
    pc[d] = "store" => (changed[d] <=> newRate[d] # cachedFrameRate)

\* The cached rate is the one the last callback compared and stored, unless
\* CacheInitialFrameRateAsync has written it since: no other path moves the
\* baseline, so once the seed thread is done no difference is ever absorbed.
CacheFollowsDiffs == cachedFrameRate = told \/ reseeded

\* The sink ResolutionChangeImpl is about to call is alive, although clients
\* unregister and release it concurrently, may do so in either order, and may
\* have registered it twice.
CalledSinkIsAlive ==
  \A d \in Dispatchers :
    pc[d] = "deliver" /\ index[d] <= Len(observers) => refs[observers[index[d]]] > 0

\* Entries of _observers for one sink.
Entries(o) == Cardinality({i \in 1..Len(observers) : observers[i] = o})

\* Once a client is outside Register and Unregister, the implementation holds
\* as many references to its sink as _observers has entries for it: nothing
\* leaks and nothing is released twice.
ReferencesMatchEntries ==
  \A o \in Observers :
    client[o] = "idle" =>
      refs[o] = Entries(o) + (IF own[o] THEN 1 ELSE 0)

\* The same count at every statement of Register and Unregister: between
\* push_back and AddRef, and between Release and erase, _observers has one
\* entry more than the implementation holds references.
ReferencesAreCounted ==
  \A o \in Observers :
    /\ client[o] # "idle" => own[o]
    /\ refs[o] = Entries(o) + (IF own[o] THEN 1 ELSE 0)
                  - (IF client[o] \in {"addref", "erase"} THEN 1 ELSE 0)
    /\ client[o] \in {"release", "erase"} => Registered(o)

\* Each callback the platform delivers is answered in full: the thread gets
\* through both locks and all sinks, against clients that keep taking the lock.
CallbacksFinish ==
  \A d \in Dispatchers : pc[d] # "idle" ~> pc[d] = "idle"

\* The background thread ends, so the destructor's join() returns.
SeedEnds == <>(seed.pc = "done")

(* The atomic feed the backend implements.  An announcement takes effect   *)
(* when its loop gets _adminLock: the sinks still ahead of the iterator    *)
(* have, in the abstract, heard it already.                                *)
Ahead(o) ==
  IF adminLock \in Dispatchers
  THEN LET d == adminLock
       IN  [i \in 1..Cardinality({j \in index[d]..Len(observers) : observers[j] = o})
              |-> Head(owed[d])]
  ELSE <<>>
HeardOrAhead == [o \in Observers |-> heard[o] \o Ahead(o)]
StillOwed == [d \in Dispatchers |-> IF pc[d] = "deliver" THEN Tail(owed[d]) ELSE owed[d]]

Feed == INSTANCE EventFeed WITH
  baseline <- cachedFrameRate, owes <- StillOwed, heard <- HeardOrAhead

\* Statement-level callbacks, clients and seed thread together behave like the
\* atomic feed: every callback compares its reading with the cache and replaces
\* it in one indivisible exchange, announces FRAMERATE_CHANGE before
\* POST_RESOLUTION_CHANGE exactly if they differ, and every announcement reaches
\* the sinks registered at one instant, once per registration.
ImplementsFeed == Feed!Spec

-----------------------------------------------------------------------------
(* A claim of the repository's documents that the code does not keep.      *)

\* openspec/changes/displayinfo-framerate-change-event/specs/displayinfo/spec.md:28-29:
\* FRAMERATE_CHANGE is "fired whenever the active
\* frame rate of the primary video output changes".  A callback that reads
\* another rate than the previous callback did finds that it changed.
RateChangeIsSeen ==
  [][\A d \in Dispatchers :
       pc[d] = "compare" /\ pc'[d] = "store"
         /\ told \in Rates /\ newRate[d] \in Rates /\ newRate[d] # told
       => changed'[d]]_vars
=============================================================================
