---------------------------- MODULE DSLifecycle ----------------------------
(***************************************************************************)
(* Construction and destruction of DisplayInfoImplementation objects of    *)
(* the DeviceSettings backend, against device::Host's callbacks and the    *)
(* frame-rate seed thread.  The callbacks are member functions of one      *)
(* object but act on the static DisplayInfoImplementation::_instance, which *)
(* every constructor sets and every destructor clears, whichever object it *)
(* points to then.  A callback that goes through a null _instance ends the *)
(* process; one that is inside a freed object may end it or go on.         *)
(*                                                                         *)
(* device::Host is external: it calls its listeners one after the other    *)
(* and, as the destructor needs, does not return from UnRegister while it  *)
(* is calling them; nor, by the same lock, from Register (HostFree).       *)
(***************************************************************************)
EXTENDS Naturals, FiniteSets

CONSTANTS
  Instances,      \* objects constructed during a run
  None,           \* nullptr
  MaxEvents       \* bound: resolution changes

ASSUME NoneAssumption == None \notin Instances
ASSUME EventsAssumption == MaxEvents \in Nat

VARIABLES
  phase,      \* where each object is in its constructor or destructor
  _instance,  \* DisplayInfoImplementation::_instance
  seed,       \* CacheInitialFrameRateAsync's thread of each object
  listeners,  \* device::Host's listeners
  call,       \* the Host thread: listeners to call, the one being called, ...
  served,     \* objects whose sinks the callback under way has told
  events,     \* resolution changes so far
  cutOff      \* history: objects there were when another's destructor cleared _instance

vars == <<phase, _instance, seed, listeners, call, served, events, cutOff>>

Phases == {"none", "register", "spawn", "live", "join", "unregister", "clear", "freed"}
Exists == {i \in Instances : phase[i] \notin {"none", "freed"}}

Init ==
  /\ phase = [i \in Instances |-> "none"]
  /\ _instance = None
  /\ seed = [i \in Instances |-> "none"]
  /\ listeners = {}
  /\ call = [pc |-> "idle", todo |-> {}, self |-> None, target |-> None]
  /\ served = {}
  /\ events = 0
  /\ cutOff = {}

HostFree == call.pc = "idle"
Crashed == call.pc = "crashed"     \* the process is gone

-----------------------------------------------------------------------------
(* Constructor.                                                            *)

ForgetInstance(i) ==
  /\ phase[i] = "none" /\ ~Crashed
  /\ phase' = [phase EXCEPT ![i] = "register"]
  /\ UNCHANGED <<_instance, seed, listeners, call, served, events, cutOff>>

SetInstance(i) ==
  /\ phase[i] = "none" /\ ~Crashed
  /\ phase' = [phase EXCEPT ![i] = "register"]
  /\ _instance' = i
  /\ UNCHANGED <<seed, listeners, call, served, events, cutOff>>

\* Host::Register, or the exception the constructor swallows.
HostRegister(i) ==
  /\ phase[i] = "register" /\ HostFree
  /\ phase' = [phase EXCEPT ![i] = "spawn"]
  /\ \/ listeners' = listeners \union {i}
     \/ listeners' = listeners
  /\ UNCHANGED <<_instance, seed, call, served, events, cutOff>>

\* std::thread, or its std::system_error.
Spawn(i) ==
  /\ phase[i] = "spawn" /\ ~Crashed
  /\ phase' = [phase EXCEPT ![i] = "live"]
  /\ \E s \in {"running", "none"} : seed' = [seed EXCEPT ![i] = s]
  /\ UNCHANGED <<_instance, listeners, call, served, events, cutOff>>

-----------------------------------------------------------------------------
(* The seed thread: any number of attempts, each inside the object.        *)

SeedRetriesForever(i) ==
  seed[i] = "running" /\ ~Crashed /\ UNCHANGED vars

SeedStep(i) ==
  /\ seed[i] = "running" /\ ~Crashed
  /\ seed' = [seed EXCEPT ![i] = "ended"]
  /\ UNCHANGED <<phase, _instance, listeners, call, served, events, cutOff>>

-----------------------------------------------------------------------------
(* Destructor, run by whoever drops the last reference.                    *)

LastRelease(i) ==
  /\ phase[i] = "live" /\ ~Crashed
  /\ phase' = [phase EXCEPT ![i] = "join"]
  /\ UNCHANGED <<_instance, seed, listeners, call, served, events, cutOff>>

SeedDetached(i) == TRUE
SeedJoined(i) == seed[i] # "running"

JoinAndClear(i) ==
  /\ phase[i] = "join" /\ SeedJoined(i) /\ ~Crashed
  /\ phase' = [phase EXCEPT ![i] = "unregister"]
  /\ _instance' = None
  /\ UNCHANGED <<seed, listeners, call, served, events, cutOff>>

Join(i) ==
  /\ phase[i] = "join" /\ SeedJoined(i) /\ ~Crashed
  /\ phase' = [phase EXCEPT ![i] = "unregister"]
  /\ UNCHANGED <<_instance, seed, listeners, call, served, events, cutOff>>

ListenersKept(i) == listeners
ListenersWithout(i) == listeners \ {i}

HostUnRegister(i) ==
  /\ phase[i] = "unregister" /\ HostFree
  /\ listeners' = ListenersWithout(i)
  /\ phase' = [phase EXCEPT ![i] = "clear"]
  /\ UNCHANGED <<_instance, seed, call, served, events, cutOff>>

\* _instance = nullptr, then the members and the memory.
ClearInstance(i) ==
  /\ phase[i] = "clear" /\ ~Crashed
  /\ _instance' = None
  /\ phase' = [phase EXCEPT ![i] = "freed"]
  /\ cutOff' = cutOff \union (Exists \ {i})
  /\ UNCHANGED <<seed, listeners, call, served, events>>

-----------------------------------------------------------------------------
(* device::Host delivers OnResolutionPostChange to its listeners.          *)

HostEvent ==
  /\ call.pc = "idle" /\ events < MaxEvents
  /\ events' = events + 1
  /\ call' = [call EXCEPT !.pc = "next", !.todo = listeners]
  /\ served' = {}
  /\ UNCHANGED <<phase, _instance, seed, listeners, cutOff>>

\* Enter the next listener's member function and test _instance.
OnResolutionPostChange(i) ==
  /\ call.pc = "next" /\ i \in call.todo
  /\ call' = [call EXCEPT !.todo = @ \ {i}, !.self = i,
                          !.pc = IF _instance = None THEN "next" ELSE "diff"]
  /\ UNCHANGED <<phase, _instance, seed, listeners, served, events, cutOff>>

\* Each call through _instance reads the pointer again.
CallThrough(next) ==
  /\ call' = IF _instance = None THEN [call EXCEPT !.pc = "crashed", !.target = None]
                                 ELSE [call EXCEPT !.pc = next, !.target = _instance]
  /\ UNCHANGED <<phase, _instance, seed, listeners, events, cutOff>>

\* IsFrameRateChanged(),
EnterDiff == call.pc = "diff" /\ CallThrough("compare") /\ UNCHANGED served

\* ResolutionChangeImpl(FRAMERATE_CHANGE) when it returned true,
AnnounceRate == call.pc = "compare" /\ CallThrough("rate") /\ UNCHANGED served

\* and ResolutionChangeImpl(POST_RESOLUTION_CHANGE).
AnnouncePost ==
  /\ call.pc \in {"compare", "rate"} /\ CallThrough("post")
  /\ served' = served \union ({_instance} \ {None})

Inside == call.pc \in {"compare", "rate", "post"}

\* What a member function does to a freed object is undefined: it may end the
\* process here, or go on with the steps above.
UseAfterFree ==
  /\ Inside /\ phase[call.target] = "freed"
  /\ call' = [call EXCEPT !.pc = "crashed"]
  /\ UNCHANGED <<phase, _instance, seed, listeners, served, events, cutOff>>

Leave ==
  /\ call.pc = "post"
  /\ call' = [call EXCEPT !.pc = "next", !.target = None]
  /\ UNCHANGED <<phase, _instance, seed, listeners, served, events, cutOff>>

HostDone ==
  /\ call.pc = "next" /\ call.todo = {}
  /\ call' = [call EXCEPT !.pc = "idle", !.self = None]
  /\ UNCHANGED <<phase, _instance, seed, listeners, served, events, cutOff>>

HostStep ==
  \/ \E i \in Instances : OnResolutionPostChange(i)
  \/ EnterDiff \/ AnnounceRate \/ AnnouncePost \/ Leave \/ HostDone

Construct(i) == SetInstance(i) \/ HostRegister(i) \/ Spawn(i)
Destroy(i) == Join(i) \/ HostUnRegister(i) \/ ClearInstance(i)

\* Every object is gone and the platform has no more to say, or nothing runs.
Rest ==
  /\ \/ Crashed
     \/ HostFree /\ events = MaxEvents /\ \A i \in Instances : phase[i] = "freed"
  /\ UNCHANGED vars

Next ==
  \/ HostEvent \/ HostStep \/ UseAfterFree \/ Rest
  \/ \E i \in Instances : Construct(i) \/ SeedStep(i) \/ LastRelease(i) \/ Destroy(i)

\* Objects of any owner; DisplayInfoSystem adds the owners and the fairness.
Spec == Init /\ [][Next]_vars
-----------------------------------------------------------------------------
(* Properties.                                                             *)

TypeOK ==
  /\ phase \in [Instances -> Phases]
  /\ _instance \in Instances \union {None}
  /\ seed \in [Instances -> {"none", "running", "ended"}]
  /\ listeners \in SUBSET Instances
  /\ call \in [pc : {"idle", "next", "diff", "compare", "rate", "post", "crashed"},
               todo : SUBSET Instances,
               self : Instances \union {None}, target : Instances \union {None}]
  /\ call.pc = "idle" => call.todo = {} /\ call.self = None
  /\ served \in SUBSET Instances /\ cutOff \in SUBSET Instances
  /\ events \in 0..MaxEvents

\* device::Host never calls into a freed object, however objects overlap: the
\* destructor leaves device::Host first, and UnRegister waits for the callback
\* under way.  What the callback then calls through _instance exists as well, as
\* long as no other object's destructor has cleared the pointer beside it.
CallsAreSafe ==
  /\ call.self # None => phase[call.self] # "freed"
  /\ call.self \notin cutOff => ~Crashed /\ (Inside => phase[call.target] # "freed")

\* PlatformImplementation.cpp:195, "if (DisplayInfoImplementation::_instance)": a
\* callback that found the pointer set calls through an object each time.
TestedInstanceStays == ~Crashed /\ (Inside => phase[call.target] # "freed")

\* The destructor joins the seed thread first, so the thread never touches an
\* object whose teardown has gone on.
SeedStaysInside == \A i \in Instances : seed[i] = "running" => phase[i] \in {"live", "join"}

\* A released object is destroyed, if the process lives: neither join() nor
\* UnRegister blocks for ever.
DestructionEnds == \A i \in Instances : phase[i] = "join" ~> phase[i] = "freed" \/ Crashed
=============================================================================
