----------------------- MODULE DisplayInfoSystem_proofs -----------------------
(***************************************************************************)
(* Theorems about DSLifecycle, and about DisplayInfoSystem, which composes *)
(* it with DisplayInfoPlugin.  The seed thread stays inside its object     *)
(* however many objects there are, and a callback is safe until another    *)
(* object's destructor clears the static _instance beside it (the runs     *)
(* overlap and nullcall show what happens then).                           *)
(* Each step of the system is a step of both components or leaves them     *)
(* alone, so their invariants are the system's; what is the system's own   *)
(* is that an object lives exactly as long as somebody refers to it.       *)
(***************************************************************************)
EXTENDS DisplayInfoSystem, FiniteSetTheorems, TLAPS

PluginProofs == INSTANCE DisplayInfoPlugin_proofs

\* Every step of constructors, destructors and callbacks keeps the types.
LEMMA TypeStep == ASSUME TypeOK, [Next]_vars PROVE TypeOK'
<1> USE EventsAssumption DEF TypeOK, Phases
<1>1. ASSUME NEW i \in Instances, Construct(i) PROVE TypeOK'
  BY <1>1 DEF Construct, SetInstance, HostRegister, Spawn
<1>2. ASSUME NEW i \in Instances, SeedStep(i) \/ LastRelease(i) PROVE TypeOK'
  BY <1>2 DEF SeedStep, LastRelease
<1>3. ASSUME NEW i \in Instances, Destroy(i) PROVE TypeOK'
  BY <1>3 DEF Destroy, Join, HostUnRegister, ListenersWithout, ClearInstance, Exists
<1>4. CASE HostEvent
  <2>1. events' \in 0..MaxEvents
    BY <1>4 DEF HostEvent
  <2>2. call' = [call EXCEPT !.pc = "next", !.todo = listeners]
    BY <1>4 DEF HostEvent
  <2>3. call' \in [pc : {"idle", "next", "diff", "compare", "rate", "post", "crashed"},
                   todo : SUBSET Instances,
                   self : Instances \union {None}, target : Instances \union {None}]
    BY <2>2
  <2>4. call'.pc = "next"
    BY <2>2
  <2> QED BY <1>4, <2>1, <2>3, <2>4 DEF HostEvent
<1>5. ASSUME NEW i \in Instances, OnResolutionPostChange(i) PROVE TypeOK'
  BY <1>5 DEF OnResolutionPostChange
<1>6. CASE EnterDiff \/ AnnounceRate \/ AnnouncePost
  BY <1>6 DEF EnterDiff, AnnounceRate, AnnouncePost, CallThrough
<1>7. CASE Leave \/ HostDone \/ UseAfterFree
  BY <1>7 DEF Leave, HostDone, UseAfterFree, Inside
<1>8. CASE Rest \/ UNCHANGED vars
  BY <1>8 DEF Rest, vars
<1> QED BY <1>1, <1>2, <1>3, <1>4, <1>5, <1>6, <1>7, <1>8 DEF Next, HostStep

LEMMA TypeStart == ASSUME Init PROVE TypeOK
BY NoneAssumption, EventsAssumption DEF Init, TypeOK, Phases

\* Every reachable state of constructors, destructors and callbacks is well typed.
THEOREM TypeCorrect == Spec => []TypeOK
<1>1. Init => TypeOK
  BY TypeStart
<1>2. TypeOK /\ [Next]_vars => TypeOK'
  BY TypeStep
<1> QED BY <1>1, <1>2, PTL DEF Spec

\* The destructor's join keeps the seed thread inside its object, for any number
\* of objects that overlap in any way.
THEOREM SeedIsInside == Spec => []SeedStaysInside
<1>1. Init => SeedStaysInside
  BY DEF Init, SeedStaysInside
<1>2. TypeOK /\ SeedStaysInside /\ [Next]_vars => SeedStaysInside'
  <2> SUFFICES ASSUME TypeOK, SeedStaysInside, [Next]_vars PROVE SeedStaysInside'
    OBVIOUS
  <2> USE DEF TypeOK, SeedStaysInside
  <2>1. ASSUME NEW i \in Instances, Construct(i) PROVE SeedStaysInside'
    BY <2>1 DEF Construct, SetInstance, HostRegister, Spawn
  <2>2. ASSUME NEW i \in Instances, SeedStep(i) \/ LastRelease(i) PROVE SeedStaysInside'
    BY <2>2 DEF SeedStep, LastRelease
  <2>3. ASSUME NEW i \in Instances, Destroy(i) PROVE SeedStaysInside'
    BY <2>3 DEF Destroy, Join, SeedJoined, HostUnRegister, ClearInstance
  <2>4. CASE HostEvent \/ HostStep \/ UseAfterFree
    BY <2>4 DEF HostEvent, HostStep, OnResolutionPostChange, EnterDiff, AnnounceRate,
                AnnouncePost, CallThrough, Leave, HostDone, UseAfterFree
  <2>5. CASE Rest \/ UNCHANGED vars
    BY <2>5 DEF Rest, vars
  <2> QED BY <2>1, <2>2, <2>3, <2>4, <2>5 DEF Next
<1> QED BY <1>1, <1>2, TypeCorrect, PTL DEF Spec

\* device::Host knows no object that is gone or about to clear _instance.
ListenersExist == \A i \in listeners : phase[i] \in {"spawn", "live", "join", "unregister"}
InstanceExists == _instance # None => _instance \in Exists

\* What is left of an object that is freed: device::Host does not know it and
\* _instance does not point to it, for any number of objects.
LEMMA ForgottenInvariant == Spec => [](ListenersExist /\ InstanceExists)
<1> DEFINE Forgotten == ListenersExist /\ InstanceExists
<1>1. Init => Forgotten
  BY DEF Init, ListenersExist, InstanceExists
<1>2. TypeOK /\ Forgotten /\ [Next]_vars => Forgotten'
  <2> SUFFICES ASSUME TypeOK, Forgotten, [Next]_vars PROVE Forgotten'
    OBVIOUS
  <2> USE NoneAssumption DEF TypeOK, ListenersExist, InstanceExists, Exists
  <2>1. ASSUME NEW i \in Instances, Construct(i) PROVE Forgotten'
    BY <2>1 DEF Construct, SetInstance, HostRegister, Spawn
  <2>2. ASSUME NEW i \in Instances, SeedStep(i) \/ LastRelease(i) PROVE Forgotten'
    BY <2>2 DEF SeedStep, LastRelease
  <2>3. ASSUME NEW i \in Instances, Destroy(i) PROVE Forgotten'
    BY <2>3 DEF Destroy, Join, HostUnRegister, ListenersWithout, ClearInstance
  <2>4. CASE HostEvent \/ HostStep \/ UseAfterFree
    BY <2>4 DEF HostEvent, HostStep, OnResolutionPostChange, EnterDiff, AnnounceRate,
                AnnouncePost, CallThrough, Leave, HostDone, UseAfterFree
  <2>5. CASE Rest \/ UNCHANGED vars
    BY <2>5 DEF Rest, vars
  <2> QED BY <2>1, <2>2, <2>3, <2>4, <2>5 DEF Next
<1> QED BY <1>1, <1>2, TypeCorrect, PTL DEF Spec

-----------------------------------------------------------------------------
(* Objects that overlap.                                                   *)

\* While an object has not been cut off, _instance points to it or to a younger
\* object, and that one exists.
InstanceIsThere == \A i \in Exists \ cutOff : _instance \in Exists

\* A callback is made of registered listeners.
CallIsRegistered ==
  /\ call.todo \subseteq listeners
  /\ call.self # None => call.self \in listeners
  /\ call.pc \notin {"idle", "next"} => call.self # None

\* What a callback has entered exists, and it has not crashed.
TargetIsThere == call.self \notin cutOff => ~Crashed /\ (Inside => call.target \in Exists)

LifecycleInv ==
  TypeOK /\ InstanceIsThere /\ ListenersExist /\ CallIsRegistered /\ TargetIsThere

LEMMA LifecycleStep ==
  ASSUME LifecycleInv, TypeOK', [Next]_vars
  PROVE  LifecycleInv'
<1> USE NoneAssumption DEF LifecycleInv, InstanceIsThere, ListenersExist,
                           CallIsRegistered, TargetIsThere, TypeOK, Exists, Crashed, Inside
<1>1. ASSUME NEW i \in Instances, SetInstance(i) PROVE LifecycleInv'
  BY <1>1 DEF SetInstance
<1>2. ASSUME NEW i \in Instances, HostRegister(i) PROVE LifecycleInv'
  BY <1>2 DEF HostRegister, HostFree
<1>3. ASSUME NEW i \in Instances, Spawn(i) \/ LastRelease(i) \/ Join(i) PROVE LifecycleInv'
  BY <1>3 DEF Spawn, LastRelease, Join
<1>4. ASSUME NEW i \in Instances, SeedStep(i) PROVE LifecycleInv'
  BY <1>4 DEF SeedStep
<1>5. ASSUME NEW i \in Instances, HostUnRegister(i) PROVE LifecycleInv'
  BY <1>5 DEF HostUnRegister, HostFree, ListenersWithout
<1>6. ASSUME NEW i \in Instances, ClearInstance(i) PROVE LifecycleInv'
  <2>1. /\ phase[i] = "clear" /\ phase' = [phase EXCEPT ![i] = "freed"]
        /\ cutOff' = cutOff \union (Exists \ {i}) /\ UNCHANGED <<listeners, call>>
    BY <1>6 DEF ClearInstance
  <2>2. Exists' \ cutOff' = {}
    BY <2>1
  <2>3. call.self # None => call.self \in Exists \ {i}
    BY <2>1
  <2>4. InstanceIsThere' /\ ListenersExist' /\ CallIsRegistered'
    BY <2>1, <2>2
  <2>5. TargetIsThere'
    BY <2>1, <2>3
  <2> QED BY <2>4, <2>5
<1>7. CASE HostEvent
  BY <1>7 DEF HostEvent
<1>8. ASSUME NEW i \in Instances, OnResolutionPostChange(i) PROVE LifecycleInv'
  BY <1>8 DEF OnResolutionPostChange
<1>9. CASE EnterDiff \/ AnnounceRate \/ AnnouncePost
  <2>1. PICK next \in {"compare", "rate", "post"} : CallThrough(next)
    BY <1>9 DEF EnterDiff, AnnounceRate, AnnouncePost
  <2>2. call.self \in Exists /\ call.self \in listeners
    BY <1>9 DEF EnterDiff, AnnounceRate, AnnouncePost
  <2>3. call.self \notin cutOff => _instance \in Exists
    BY <2>2
  <2>4. CASE _instance = None
    <3>1. call' = [call EXCEPT !.pc = "crashed", !.target = None]
      BY <2>1, <2>4 DEF CallThrough
    <3>2. call'.pc = "crashed" /\ call'.todo = call.todo /\ call'.self = call.self
      BY <3>1
    <3> QED BY <2>1, <2>2, <2>3, <2>4, <3>2 DEF CallThrough
  <2>5. CASE _instance # None
    <3>1. call' = [call EXCEPT !.pc = next, !.target = _instance]
      BY <2>1, <2>5 DEF CallThrough
    <3>2. /\ call'.pc = next /\ call'.target = _instance
          /\ call'.todo = call.todo /\ call'.self = call.self
      BY <3>1
    <3> QED BY <2>1, <2>2, <2>3, <3>2 DEF CallThrough
  <2> QED BY <2>4, <2>5
<1>10. CASE Leave \/ HostDone
  <2>1. /\ UNCHANGED <<phase, _instance, seed, listeners, served, events, cutOff>>
        /\ call'.todo = call.todo /\ call'.pc \in {"idle", "next"}
        /\ call'.self = call.self \/ call'.self = None
    BY <1>10 DEF Leave, HostDone
  <2> QED BY <2>1
<1>11. CASE UseAfterFree
  <2>1. call.self \in cutOff /\ call' = [call EXCEPT !.pc = "crashed"]
    BY <1>11 DEF UseAfterFree
  <2> QED BY <1>11, <2>1 DEF UseAfterFree
<1>12. CASE Rest \/ UNCHANGED vars
  BY <1>12 DEF Rest, vars
<1> QED
  BY <1>1, <1>2, <1>3, <1>4, <1>5, <1>6, <1>7, <1>8, <1>9, <1>10, <1>11, <1>12
  DEF Next, Construct, Destroy, HostStep

LEMMA LifecycleInvariant == Spec => []LifecycleInv
<1>1. Init => LifecycleInv
  BY TypeStart, NoneAssumption
  DEF Init, LifecycleInv, TypeOK, InstanceIsThere, ListenersExist, CallIsRegistered,
      TargetIsThere, Exists, Crashed, Inside
<1>2. LifecycleInv /\ [Next]_vars => LifecycleInv'
  BY LifecycleStep, TypeStep DEF LifecycleInv
<1> QED BY <1>1, <1>2, PTL DEF Spec

\* However objects overlap, device::Host never calls into a freed object, and
\* OnResolutionPostChange goes through an object that exists each time, unless
\* another object's destructor has cleared _instance beside the one called.
THEOREM CallsStaySafe == Spec => []CallsAreSafe
<1>1. LifecycleInv => CallsAreSafe
  BY NoneAssumption
  DEF LifecycleInv, ListenersExist, CallIsRegistered, TargetIsThere, CallsAreSafe, TypeOK, Exists
<1> QED BY <1>1, LifecycleInvariant, PTL

-----------------------------------------------------------------------------
(* The plugin in the system.                                               *)

\* The instance of the module that holds the plugin's proofs is the plugin.
LEMMA SamePlugin ==
  /\ Plugin!Init <=> PluginProofs!Init
  /\ Plugin!Next <=> PluginProofs!Next
  /\ Plugin!vars = PluginProofs!vars
  /\ Plugin!Interfaces = PluginProofs!Interfaces
<1> USE DEF Plugin!pluginVars, PluginProofs!pluginVars,
            Plugin!Interfaces, PluginProofs!Interfaces
<1>1. Plugin!vars = PluginProofs!vars /\ Plugin!Interfaces = PluginProofs!Interfaces
  BY DEF Plugin!vars, PluginProofs!vars
<1>2. Plugin!Init <=> PluginProofs!Init
  BY DEF Plugin!Init, PluginProofs!Init
<1>3. (Plugin!Activate <=> PluginProofs!Activate)
      /\ (Plugin!Deactivate <=> PluginProofs!Deactivate)
      /\ (Plugin!RunJob <=> PluginProofs!RunJob)
  BY DEF Plugin!Activate, PluginProofs!Activate, Plugin!Deactivate, PluginProofs!Deactivate,
         Plugin!BeginDeactivate, PluginProofs!BeginDeactivate, Plugin!RunJob, PluginProofs!RunJob
<1>4. Plugin!Initialize <=> PluginProofs!Initialize
  BY DEF Plugin!Initialize, PluginProofs!Initialize,
         Plugin!RootSucceeds, PluginProofs!RootSucceeds,
         Plugin!RootFails, PluginProofs!RootFails, Plugin!Subscribe, PluginProofs!Subscribe,
         Plugin!Acquire, PluginProofs!Acquire, Plugin!Activated, PluginProofs!Activated,
         Plugin!RequiredIsMissing, PluginProofs!RequiredIsMissing,
         Plugin!DisplayIsMissing, PluginProofs!DisplayIsMissing,
         Plugin!Reachable, PluginProofs!Reachable, Plugin!OneMore, PluginProofs!OneMore
<1>5. Plugin!Deinitialize <=> PluginProofs!Deinitialize
  BY DEF Plugin!Deinitialize, PluginProofs!Deinitialize,
         Plugin!UnsubscribeShell, PluginProofs!UnsubscribeShell,
         Plugin!DropShellSink, PluginProofs!DropShellSink,
         Plugin!Unsubscribe, PluginProofs!Unsubscribe,
         Plugin!ReleaseHdr, PluginProofs!ReleaseHdr,
         Plugin!ReleaseGraphics, PluginProofs!ReleaseGraphics,
         Plugin!ReleaseDisplay, PluginProofs!ReleaseDisplay,
         Plugin!DropHandlers, PluginProofs!DropHandlers,
         Plugin!DropReference, PluginProofs!DropReference,
         Plugin!ReleaseConnection, PluginProofs!ReleaseConnection,
         Plugin!EndDeinitialize, PluginProofs!EndDeinitialize
<1>6. (Plugin!Crash <=> PluginProofs!Crash)
      /\ (Plugin!DeactivatedCompare <=> PluginProofs!DeactivatedCompare)
      /\ (Plugin!DeactivatedSubmit <=> PluginProofs!DeactivatedSubmit)
  BY DEF Plugin!Crash, PluginProofs!Crash, Plugin!IdMatches, PluginProofs!IdMatches,
         Plugin!DeactivatedCompare, PluginProofs!DeactivatedCompare,
         Plugin!DeactivatedSubmit, PluginProofs!DeactivatedSubmit
<1>7. ASSUME NEW x
      PROVE  (Plugin!ClientAcquires(x) <=> PluginProofs!ClientAcquires(x))
             /\ (Plugin!ClientReleases(x) <=> PluginProofs!ClientReleases(x))
  BY DEF Plugin!ClientAcquires, PluginProofs!ClientAcquires,
         Plugin!ClientReleases, PluginProofs!ClientReleases
<1>8. Plugin!Rest <=> PluginProofs!Rest
  BY DEF Plugin!Rest, PluginProofs!Rest, Plugin!vars, PluginProofs!vars
<1>9. Plugin!Next <=> PluginProofs!Next
  BY <1>1, <1>3, <1>4, <1>5, <1>6, <1>7, <1>8 DEF Plugin!Next, PluginProofs!Next
<1> QED BY <1>1, <1>2, <1>9

\* Each step of the system is a step of the plugin or invisible to it.
LEMMA StepOfPlugin == ASSUME [SystemNext]_systemVars PROVE [Plugin!Next]_(Plugin!vars)
<1>1. ASSUME UNCHANGED pluginState PROVE UNCHANGED Plugin!vars
  BY <1>1 DEF pluginState, Plugin!vars, Plugin!pluginVars
<1>2. CASE Activate \/ Deactivate
  BY <1>2 DEF Activate, Deactivate, Plugin!Next
<1>3. CASE \E i \in Instances : RootConstructs(i)
  BY <1>1, <1>3 DEF RootConstructs
<1>4. CASE RootReturns \/ Initialize
  BY <1>4 DEF RootReturns, Initialize, Plugin!Next, Plugin!Initialize
<1>5. CASE Deinitialize
  BY <1>5 DEF Deinitialize, Unwind, ReleaseConnection, EndDeinitialize,
              Plugin!Next, Plugin!Deinitialize
<1>6. ASSUME NEW x \in Wanted, ClientAcquires(x) \/ ClientReleases(x) PROVE Plugin!Next
  BY <1>6, WantedAssumption DEF ClientAcquires, ClientReleases, Plugin!Next
<1>7. CASE Background
  BY <1>1, <1>7 DEF Background
<1>8. CASE SystemRest \/ UNCHANGED systemVars
  BY <1>1, <1>8 DEF SystemRest, systemVars
<1> QED BY <1>2, <1>3, <1>4, <1>5, <1>6, <1>7, <1>8 DEF SystemNext

\* What PluginInv says of the pointers the plugin holds.
LEMMA PluginFacts ==
  ASSUME PluginProofs!PluginInv
  PROVE  /\ held \subseteq Plugin!Interfaces /\ clients \subseteq Plugin!Interfaces
         /\ shell = "deactivated" => held = {} /\ step = "none"
         /\ shell = "activated" => step = "none"
         /\ step \in {"root", "end"} => held = {}
         /\ step \in {"subscribe", "graphics", "hdr", "display", "done"} => "connection" \in held
         /\ step \in {"dropHdr", "releaseHdr", "dropGraphics", "releaseGraphics",
                      "releaseDisplay", "dropDisplay"} => "connection" \in held
         /\ step = "releaseConnection" => held = {"connection"}
<1> USE DEF PluginProofs!PluginInv, PluginProofs!OthersTyped, PluginProofs!PointersFollowSteps,
            PluginProofs!Interfaces, PluginProofs!AfterUnsubscribe, PluginProofs!AfterHdr,
            PluginProofs!AfterGraphics, PluginProofs!AfterDisplay
<1>1. held \subseteq Plugin!Interfaces /\ clients \subseteq Plugin!Interfaces
  BY DEF Plugin!Interfaces
<1>2. step = "releaseConnection" => held = {"connection"}
  OBVIOUS
<1>3. /\ shell = "deactivated" => held = {} /\ step = "none"
      /\ shell = "activated" => step = "none"
      /\ step \in {"root", "end"} => held = {}
  OBVIOUS
<1>4. step \in {"subscribe", "graphics", "hdr", "display", "done"} => "connection" \in held
  OBVIOUS
<1>5. step \in {"dropHdr", "releaseHdr", "dropGraphics", "releaseGraphics",
                "releaseDisplay", "dropDisplay"} => "connection" \in held
  OBVIOUS
<1> QED BY <1>1, <1>2, <1>3, <1>4, <1>5


-----------------------------------------------------------------------------
(* Owners and objects.                                                     *)

\* Somebody holds an interface of object i.
Referenced(i) ==
  \/ object = i /\ held # {}
  \/ \E x \in clients : clientObject[x] = i

\* An object lives exactly as long as an interface of it is held, but for the
\* moment between its constructor and Root's return.
OwnersInv ==
  /\ object \in Instances \union {None}
  /\ clientObject \in [Plugin!Interfaces -> Instances \union {None}]
  /\ held # {} => object # None
  /\ \A x \in clients : clientObject[x] # None
  /\ \A i \in Instances :
       /\ Referenced(i) => phase[i] = "live"
       /\ phase[i] = "live" => Referenced(i) \/ (object = i /\ step = "root")
       /\ phase[i] \in {"register", "spawn"} => object = i /\ step = "root"

SystemInv == TypeOK /\ PluginProofs!PluginInv /\ OwnersInv

LEMMA InterfacesAreFinite == IsFiniteSet(Plugin!Interfaces)
<1>1. IsFiniteSet({"connection"})
  BY FS_Singleton
<1>2. IsFiniteSet({"connection"} \union {"graphics"})
  BY <1>1, FS_AddElement
<1>3. IsFiniteSet(({"connection"} \union {"graphics"}) \union {"hdr"})
  BY <1>2, FS_AddElement
<1>4. IsFiniteSet((({"connection"} \union {"graphics"}) \union {"hdr"}) \union {"display"})
  BY <1>3, FS_AddElement
<1>5. Plugin!Interfaces = (({"connection"} \union {"graphics"}) \union {"hdr"}) \union {"display"}
  BY DEF Plugin!Interfaces
<1> QED BY <1>4, <1>5

LEMMA ClientsAreFinite ==
  ASSUME SystemInv, NEW S, S \subseteq clients
  PROVE  IsFiniteSet(S) /\ Cardinality(S) \in Nat /\ (Cardinality(S) = 0 <=> S = {})
<1>1. IsFiniteSet(Plugin!Interfaces)
  BY InterfacesAreFinite
<1>2. S \subseteq Plugin!Interfaces
  BY PluginFacts DEF SystemInv
<1>3. IsFiniteSet(S)
  BY <1>1, <1>2, FS_Subset
<1> QED BY <1>3, FS_CardinalityType, FS_EmptySet

\* _connectionProperties is the last reference when no client has one.
LEMMA LastOfConnection ==
  ASSUME SystemInv, step = "releaseConnection"
  PROVE  References(object) = 1 <=> \A x \in clients : clientObject[x] # object
<1> DEFINE S == {x \in clients : clientObject[x] = object}
<1>1. Cardinality(held) = 1
  BY PluginFacts, FS_Singleton DEF SystemInv
<1>2. Cardinality(S) \in Nat /\ (Cardinality(S) = 0 <=> S = {})
  BY ClientsAreFinite
<1>3. References(object) = 1 + Cardinality(S)
  BY <1>1 DEF References
<1> QED BY <1>2, <1>3

\* A client's interface is the last one when neither the plugin nor another
\* client has one of the same object.
LEMMA LastOfClient ==
  ASSUME SystemInv, NEW x \in clients
  PROVE  References(clientObject[x]) = 1 <=>
           /\ ~(object = clientObject[x] /\ held # {})
           /\ \A y \in clients \ {x} : clientObject[y] # clientObject[x]
<1> DEFINE i == clientObject[x]
           S == {y \in clients : clientObject[y] = i}
           H == IF object = i THEN Cardinality(held) ELSE 0
<1>1. Cardinality(S) \in Nat /\ IsFiniteSet(S) /\ x \in S
  BY ClientsAreFinite
<1>2. Cardinality(S \ {x}) = Cardinality(S) - 1
  BY <1>1, FS_RemoveElement
<1>3. Cardinality(S \ {x}) \in Nat /\ (Cardinality(S \ {x}) = 0 <=> S \ {x} = {})
  BY ClientsAreFinite
<1>4. H \in Nat /\ (H = 0 <=> ~(object = i /\ held # {}))
  <2>1. IsFiniteSet(held)
    BY InterfacesAreFinite, PluginFacts, FS_Subset DEF SystemInv
  <2> QED BY <2>1, FS_CardinalityType, FS_EmptySet
<1>5. References(i) = H + Cardinality(S)
  BY DEF References
<1> HIDE DEF H, S
<1>6. References(i) = 1 <=> H = 0 /\ Cardinality(S \ {x}) = 0
  BY <1>1, <1>2, <1>3, <1>4, <1>5
<1>7. S \ {x} = {} <=> \A y \in clients \ {x} : clientObject[y] # i
  BY DEF S
<1> QED BY <1>3, <1>4, <1>6, <1>7

\* Each step of the system is a step of DSLifecycle or invisible to it.
LEMMA StepOfLifecycle == ASSUME SystemInv, [SystemNext]_systemVars PROVE [Next]_vars
<1>1. CASE Activate \/ RootReturns \/ Initialize \/ Deactivate \/ Unwind \/ EndDeinitialize
           \/ SystemRest \/ UNCHANGED systemVars
  BY <1>1 DEF Activate, RootReturns, Initialize, Deactivate, Unwind, EndDeinitialize,
              SystemRest, systemVars
<1>2. CASE \E i \in Instances : RootConstructs(i)
  BY <1>2 DEF RootConstructs, Next, Construct
<1>3. CASE ReleaseConnection
  <2>1. step = "releaseConnection"
    BY <1>3 DEF ReleaseConnection, Plugin!ReleaseConnection
  <2>2. object \in Instances
    BY <2>1, PluginFacts DEF SystemInv, OwnersInv
  <2> QED BY <1>3, <2>2 DEF ReleaseConnection, DropsLast, Next
<1>4. ASSUME NEW x \in Wanted, ClientAcquires(x) PROVE [Next]_vars
  BY <1>4 DEF ClientAcquires
<1>5. ASSUME NEW x \in Wanted, ClientReleases(x) PROVE [Next]_vars
  <2>1. x \in clients
    BY <1>5 DEF ClientReleases, Plugin!ClientReleases
  <2>2. clientObject[x] \in Instances
    BY <2>1, PluginFacts DEF SystemInv, OwnersInv
  <2> QED BY <1>5, <2>2 DEF ClientReleases, DropsLast, Next
<1>6. CASE Background
  BY <1>6 DEF Background, Next
<1> QED BY <1>1, <1>2, <1>3, <1>4, <1>5, <1>6 DEF SystemNext, Deinitialize

\* OwnersInv is preserved: whoever drops the last reference starts the
\* destructor, and nobody else does.
LEMMA OwnersStep ==
  ASSUME SystemInv, TypeOK', PluginProofs!PluginInv', [SystemNext]_systemVars
  PROVE  OwnersInv'
<1> DEFINE owners == <<held, clients, object, clientObject>>
<1> USE NoneAssumption DEF SystemInv, TypeOK, Phases
<1>1. ASSUME UNCHANGED owners, phase' = phase, (step = "root") => (step' = "root")
      PROVE  OwnersInv'
  BY <1>1 DEF OwnersInv, Referenced
<1>2. CASE Activate \/ Deactivate
  <2>1. UNCHANGED owners /\ phase' = phase /\ step # "root"
    BY <1>2, PluginFacts DEF Activate, Deactivate, Plugin!Activate, Plugin!Deactivate,
                             Plugin!BeginDeactivate, Plugin!pluginVars, vars
  <2> QED BY <1>1, <2>1
<1>3. ASSUME NEW i \in Instances, RootConstructs(i) PROVE OwnersInv'
  <2>1. /\ held = {} /\ step = "root" /\ step' = "root" /\ object' = i
        /\ UNCHANGED <<held, clients, clientObject>>
    BY <1>3, PluginFacts DEF RootConstructs, pluginState
  <2>2. CASE object = None /\ SetInstance(i)
    <3>1. phase[i] = "none" /\ phase' = [phase EXCEPT ![i] = "register"]
      BY <2>2 DEF SetInstance
    <3> QED BY <2>1, <2>2, <3>1 DEF OwnersInv, Referenced
  <2>3. CASE object = i /\ (HostRegister(i) \/ Spawn(i))
    <3>1. \/ phase[i] = "register" /\ phase' = [phase EXCEPT ![i] = "spawn"]
          \/ phase[i] = "spawn" /\ phase' = [phase EXCEPT ![i] = "live"]
      BY <2>3 DEF HostRegister, Spawn
    <3> QED BY <2>1, <2>3, <3>1 DEF OwnersInv, Referenced
  <2> QED BY <1>3, <2>2, <2>3 DEF RootConstructs
<1>4. CASE RootReturns
  <2>1. UNCHANGED <<clients, object, clientObject, phase>> /\ step' # "root"
    BY <1>4 DEF RootReturns, Plugin!RootSucceeds, Plugin!RootFails, vars
  <2>2. CASE object # None /\ phase[object] = "live" /\ Plugin!RootSucceeds
    <3>1. held' = {"connection"}
      BY <2>2 DEF Plugin!RootSucceeds
    <3> QED BY <2>1, <2>2, <3>1 DEF OwnersInv, Referenced
  <2>3. CASE object = None /\ Plugin!RootFails
    <3>1. held' = held
      BY <2>3 DEF Plugin!RootFails
    <3> QED BY <2>1, <2>3, <3>1 DEF OwnersInv, Referenced
  <2> QED BY <1>4, <2>2, <2>3 DEF RootReturns
<1>5. ASSUME UNCHANGED <<clients, object, clientObject, phase>>, step # "root",
             held = {} <=> held' = {}
      PROVE  OwnersInv'
  BY <1>5 DEF OwnersInv, Referenced
<1>6. CASE Initialize
  <2>1. UNCHANGED <<clients, object, clientObject, phase>>
    BY <1>6 DEF Initialize, Plugin!Subscribe, Plugin!Activated, Plugin!Acquire,
                Plugin!pluginVars, vars
  <2>2. step \in {"subscribe", "graphics", "hdr", "display", "done"} /\ held \subseteq held'
    BY <1>6 DEF Initialize, Plugin!Subscribe, Plugin!Activated, Plugin!Acquire, Plugin!pluginVars
  <2>3. "connection" \in held
    BY <2>2, PluginFacts
  <2> QED BY <1>5, <2>1, <2>2, <2>3
<1>7. CASE Unwind
  <2>1. UNCHANGED <<clients, object, clientObject, phase>>
    BY <1>7 DEF Unwind, Plugin!UnsubscribeShell, Plugin!Unsubscribe, Plugin!ReleaseHdr,
                Plugin!ReleaseGraphics, Plugin!ReleaseDisplay, Plugin!DropHandlers,
                Plugin!DropReference, Plugin!pluginVars, vars
  <2>2. CASE held' = held
    <3>1. step # "root"
      BY <1>7 DEF Unwind, Plugin!UnsubscribeShell, Plugin!Unsubscribe, Plugin!ReleaseHdr,
                  Plugin!ReleaseGraphics, Plugin!ReleaseDisplay, Plugin!DropHandlers,
                  Plugin!DropReference
    <3> QED BY <1>5, <2>1, <2>2, <3>1
  <2>3. CASE held' # held
    <3>1. /\ step \in {"releaseHdr", "releaseGraphics", "releaseDisplay"}
          /\ held' \in {held \ {"hdr"}, held \ {"graphics"}, held \ {"display"}}
      BY <1>7, <2>3 DEF Unwind, Plugin!UnsubscribeShell, Plugin!Unsubscribe, Plugin!ReleaseHdr,
                        Plugin!ReleaseGraphics, Plugin!ReleaseDisplay, Plugin!DropHandlers,
                        Plugin!DropReference, Plugin!pluginVars
    <3>2. "connection" \in held /\ "connection" \in held'
      BY <3>1, PluginFacts
    <3> QED BY <1>5, <2>1, <3>1, <3>2
  <2> QED BY <2>2, <2>3
<1>8. CASE ReleaseConnection
  <2>1. /\ step = "releaseConnection" /\ held = {"connection"} /\ held' = {} /\ step' = "end"
        /\ object' \in {object, None} /\ UNCHANGED <<clients, clientObject>>
    BY <1>8, PluginFacts DEF ReleaseConnection, Plugin!ReleaseConnection
  <2>2. object \in Instances /\ phase[object] = "live"
    BY <2>1 DEF OwnersInv, Referenced
  <2>3. CASE \A x \in clients : clientObject[x] # object
    <3>1. References(object) = 1
      BY <2>1, <2>3, LastOfConnection
    <3>2. phase' = [phase EXCEPT ![object] = "join"]
      BY <1>8, <3>1 DEF ReleaseConnection, DropsLast, LastRelease
    <3> QED BY <2>1, <2>2, <2>3, <3>2 DEF OwnersInv, Referenced
  <2>4. CASE ~(\A x \in clients : clientObject[x] # object)
    <3>1. References(object) # 1
      BY <2>1, <2>4, LastOfConnection
    <3>2. phase' = phase
      BY <1>8, <3>1 DEF ReleaseConnection, DropsLast, vars
    <3> QED BY <2>1, <2>2, <2>4, <3>2 DEF OwnersInv, Referenced
  <2> QED BY <2>3, <2>4
<1>9. CASE EndDeinitialize
  <2>1. /\ held = {} /\ held' = {} /\ object' = None /\ step # "root"
        /\ UNCHANGED <<clients, clientObject, phase>>
    BY <1>9, PluginFacts DEF EndDeinitialize, Plugin!EndDeinitialize, vars
  <2> QED BY <2>1 DEF OwnersInv, Referenced
<1>10. ASSUME NEW x \in Wanted, ClientAcquires(x) PROVE OwnersInv'
  <2>1. /\ held # {} /\ x \notin clients /\ clients' = clients \union {x}
        /\ clientObject' = [clientObject EXCEPT ![x] = object]
        /\ UNCHANGED <<held, object, phase, step>> /\ x \in Plugin!Interfaces
    BY <1>10, WantedAssumption DEF ClientAcquires, Plugin!ClientAcquires, Plugin!pluginVars, vars
  <2>2. object \in Instances
    BY <2>1 DEF OwnersInv
  <2>3. \A i \in Instances : Referenced(i)' <=> Referenced(i)
    BY <2>1, <2>2, PluginFacts DEF OwnersInv, Referenced
  <2> QED BY <2>1, <2>2, <2>3, PluginFacts DEF OwnersInv
<1>11. ASSUME NEW x \in Wanted, ClientReleases(x) PROVE OwnersInv'
  <2>1. /\ x \in clients /\ clients' = clients \ {x}
        /\ clientObject' = [clientObject EXCEPT ![x] = None]
        /\ UNCHANGED <<held, object, step>> /\ x \in Plugin!Interfaces
    BY <1>11, WantedAssumption DEF ClientReleases, Plugin!ClientReleases, Plugin!pluginVars
  <2>2. PICK i \in Instances : i = clientObject[x]
    BY <2>1 DEF OwnersInv
  <2>3. phase[i] = "live"
    BY <2>1, <2>2 DEF OwnersInv, Referenced
  <2>4. \A y \in clients' : y \in clients /\ y # x /\ clientObject'[y] = clientObject[y]
    BY <2>1, PluginFacts DEF OwnersInv
  <2>5. \A j \in Instances \ {i} : Referenced(j)' <=> Referenced(j)
    BY <2>1, <2>2, <2>4 DEF Referenced
  <2>6. Referenced(i)' <=> References(i) # 1
    <3>1. References(i) = 1 <=> /\ ~(object = i /\ held # {})
                                /\ \A y \in clients \ {x} : clientObject[y] # i
      BY <2>1, <2>2, LastOfClient
    <3> QED BY <2>1, <2>4, <3>1 DEF Referenced
  <2>7. /\ phase'[i] = IF References(i) = 1 THEN "join" ELSE "live"
        /\ \A j \in Instances \ {i} : phase'[j] = phase[j]
    <3>1. IF References(i) = 1 THEN phase' = [phase EXCEPT ![i] = "join"] ELSE phase' = phase
      BY <1>11, <2>2 DEF ClientReleases, DropsLast, LastRelease, vars
    <3> QED BY <2>3, <3>1
  <2>8. ASSUME NEW j \in Instances
        PROVE  /\ Referenced(j)' => phase'[j] = "live"
               /\ phase'[j] = "live" => Referenced(j)' \/ (object' = j /\ step' = "root")
               /\ phase'[j] \in {"register", "spawn"} => object' = j /\ step' = "root"
    BY <2>1, <2>5, <2>6, <2>7 DEF OwnersInv
  <2>9. /\ object' \in Instances \union {None}
        /\ clientObject' \in [Plugin!Interfaces -> Instances \union {None}]
        /\ held' # {} => object' # None
        /\ \A y \in clients' : clientObject'[y] # None
    BY <2>1, <2>4 DEF OwnersInv
  <2> QED BY <2>8, <2>9 DEF OwnersInv
<1>12. CASE Background
  <2>1. UNCHANGED <<held, clients, object, clientObject, step>>
    BY <1>12 DEF Background, pluginState
  <2>2. CASE phase' = phase
    BY <1>1, <2>1, <2>2
  <2>3. ASSUME NEW i \in Instances, Destroy(i) PROVE OwnersInv'
    <3>1. /\ phase[i] \in {"join", "unregister", "clear"}
          /\ \E p \in {"unregister", "clear", "freed"} : phase' = [phase EXCEPT ![i] = p]
      BY <2>3 DEF Destroy, Join, HostUnRegister, ClearInstance
    <3> QED BY <2>1, <3>1 DEF OwnersInv, Referenced
  <2>4. CASE HostEvent \/ HostStep \/ UseAfterFree \/ \E i \in Instances : SeedStep(i)
    BY <2>2, <2>4 DEF HostEvent, HostStep, OnResolutionPostChange, EnterDiff, AnnounceRate,
                      AnnouncePost, CallThrough, Leave, HostDone, UseAfterFree, SeedStep
  <2> QED BY <1>12, <2>3, <2>4 DEF Background
<1>13. CASE SystemRest \/ UNCHANGED systemVars
  BY <1>1, <1>13 DEF SystemRest, systemVars, vars, pluginState
<1> QED
  BY <1>2, <1>3, <1>4, <1>6, <1>7, <1>8, <1>9, <1>10, <1>11, <1>12, <1>13
  DEF SystemNext, Deinitialize

LEMMA SystemInvariant == SystemSpec => []SystemInv
<1>1. SystemInit => SystemInv
  <2> SUFFICES ASSUME SystemInit PROVE SystemInv
    OBVIOUS
  <2>1. TypeOK
    BY TypeStart DEF SystemInit
  <2>2. PluginProofs!PluginInv
    BY SamePlugin, PluginProofs!PluginStart, ActivationsAssumption DEF SystemInit
  <2>3. OwnersInv
    BY DEF SystemInit, Init, Plugin!Init, OwnersInv, Referenced
  <2> QED BY <2>1, <2>2, <2>3 DEF SystemInv
<1>2. SystemInv /\ [SystemNext]_systemVars => SystemInv'
  <2> SUFFICES ASSUME SystemInv, [SystemNext]_systemVars PROVE SystemInv'
    OBVIOUS
  <2>1. TypeOK'
    BY StepOfLifecycle, TypeStep DEF SystemInv
  <2>2. PluginProofs!PluginInv'
    <3>1. [PluginProofs!Next]_(PluginProofs!vars)
      BY StepOfPlugin, SamePlugin
      DEF Plugin!vars, PluginProofs!vars, Plugin!pluginVars, PluginProofs!pluginVars
    <3> QED BY <3>1, PluginProofs!PluginStep, ActivationsAssumption DEF SystemInv
  <2>3. OwnersInv'
    BY <2>1, <2>2, OwnersStep
  <2> QED BY <2>1, <2>2, <2>3 DEF SystemInv
<1> QED BY <1>1, <1>2, PTL DEF SystemSpec

\* DisplayInfo.cpp:46-160: owned by the plugin and its clients, objects are
\* constructed, called back and destroyed as DSLifecycle says: what holds of any
\* owner holds of these.
THEOREM ObjectsOfPlugin == SystemSpec => Spec
<1>1. SystemInit => Init
  BY DEF SystemInit
<1>2. SystemInv /\ [SystemNext]_systemVars => [Next]_vars
  BY StepOfLifecycle
<1> QED BY <1>1, <1>2, SystemInvariant, PTL DEF SystemSpec, Spec

\* DisplayInfo.cpp:46-160: the plugin does in the system what it does by itself.
THEOREM PluginOfSystem == SystemSpec => Plugin!Init /\ [][Plugin!Next]_(Plugin!vars)
<1>1. SystemInit => Plugin!Init
  BY DEF SystemInit
<1>2. [SystemNext]_systemVars => [Plugin!Next]_(Plugin!vars)
  BY StepOfPlugin
<1> QED BY <1>1, <1>2, PTL DEF SystemSpec

InterfacesAreLive ==
  /\ held # {} => phase[object] = "live"
  /\ \A x \in clients : phase[clientObject[x]] = "live"

\* DisplayInfo.cpp:113-150: no interface outlives its object; what the plugin or a
\* client holds is never being destroyed, whoever else lets go.
THEOREM HeldIsLive == SystemSpec => []InterfacesAreLive
<1>1. SystemInv => InterfacesAreLive
  BY PluginFacts DEF SystemInv, OwnersInv, Referenced, InterfacesAreLive
<1> QED BY <1>1, SystemInvariant, PTL

\* DisplayInfo.cpp:108-160 over PlatformImplementation.cpp:83-134: a deactivated
\* plugin without clients has left nothing in its process, for any number of
\* activations and of objects, overlapping or not.
THEOREM SystemLeavesNothing == SystemSpec => []NothingIsLeft
<1>1. SystemInv /\ SeedStaysInside /\ ListenersExist /\ InstanceExists => NothingIsLeft
  <2> SUFFICES ASSUME SystemInv, SeedStaysInside, ListenersExist, InstanceExists,
                      shell = "deactivated", clients = {},
                      Exists \subseteq {i \in Instances : phase[i] = "live"}
               PROVE  /\ Exists = {} /\ listeners = {} /\ _instance = None
                      /\ \A i \in Instances : seed[i] # "running"
    BY DEF NothingIsLeft
  <2>1. held = {} /\ step # "root"
    BY PluginFacts DEF SystemInv
  <2>2. \A i \in Instances : phase[i] # "live"
    BY <2>1 DEF SystemInv, OwnersInv, Referenced
  <2>3. Exists = {}
    BY <2>2
  <2>4. listeners = {} /\ \A i \in Instances : seed[i] # "running"
    BY <2>3 DEF Exists, ListenersExist, SeedStaysInside, SystemInv, TypeOK
  <2> QED BY <2>3, <2>4 DEF InstanceExists
<1> QED BY <1>1, SystemInvariant, ObjectsOfPlugin, SeedIsInside, ForgottenInvariant, PTL

-----------------------------------------------------------------------------
(* The object of the plugin is the youngest one.                           *)

\* So _instance points to it until it is cut off, and when it has been called in
\* the course of a change it has been told.
ObjectIsCurrent == object \in Exists \ cutOff => _instance = object

ObjectIsServed ==
  ~HostFree /\ ~Crashed /\ object \in listeners \ cutOff =>
    \/ object \in call.todo \union served
    \/ call.self = object /\ call.pc \in {"diff", "compare", "rate"}

ObjectInv == ObjectIsCurrent /\ ObjectIsServed

LEMMA ObjectStep ==
  ASSUME SystemInv, LifecycleInv, ObjectInv, [SystemNext]_systemVars
  PROVE  ObjectInv'
<1> USE NoneAssumption DEF LifecycleInv, InstanceIsThere, ListenersExist, CallIsRegistered,
                           TypeOK, Exists, ObjectInv, ObjectIsCurrent, ObjectIsServed,
                           HostFree, Crashed
<1>1. ASSUME object' \in {object, None}, UNCHANGED vars PROVE ObjectInv'
  BY <1>1 DEF vars
<1>2. ASSUME object' \in {object, None}, NEW i \in Instances, LastRelease(i) PROVE ObjectInv'
  BY <1>2 DEF LastRelease
<1>3. CASE Activate \/ RootReturns \/ Initialize \/ Deactivate \/ Unwind \/ EndDeinitialize
           \/ SystemRest \/ UNCHANGED systemVars
  BY <1>1, <1>3 DEF Activate, RootReturns, Initialize, Deactivate, Unwind, EndDeinitialize,
                    SystemRest, systemVars
<1>4. ASSUME NEW i \in Instances, RootConstructs(i) PROVE ObjectInv'
  BY <1>4 DEF RootConstructs, SetInstance, HostRegister, Spawn
<1>5. CASE ReleaseConnection
  <2>1. object \in Instances /\ object' \in {object, None}
    BY <1>5, PluginFacts DEF ReleaseConnection, Plugin!ReleaseConnection, SystemInv, OwnersInv
  <2> QED BY <1>1, <1>2, <1>5, <2>1 DEF ReleaseConnection, DropsLast
<1>6. ASSUME NEW x \in Wanted, ClientAcquires(x) \/ ClientReleases(x) PROVE ObjectInv'
  <2>1. CASE ClientAcquires(x)
    BY <1>1, <2>1 DEF ClientAcquires
  <2>2. CASE ClientReleases(x)
    <3>1. clientObject[x] \in Instances
      BY <2>2, PluginFacts DEF ClientReleases, Plugin!ClientReleases, SystemInv, OwnersInv
    <3> QED BY <1>1, <1>2, <2>2, <3>1 DEF ClientReleases, DropsLast
  <2> QED BY <1>6, <2>1, <2>2
<1>7. CASE Background
  <2>1. object' = object
    BY <1>7 DEF Background
  <2>2. CASE HostEvent
    BY <2>1, <2>2 DEF HostEvent
  <2>3. ASSUME NEW i \in Instances, OnResolutionPostChange(i) PROVE ObjectInv'
    <3>1. /\ call.pc = "next" /\ i \in call.todo /\ UNCHANGED <<phase, _instance, listeners, served, cutOff>>
          /\ call'.todo = call.todo \ {i} /\ call'.self = i
          /\ call'.pc = IF _instance = None THEN "next" ELSE "diff"
      BY <2>3 DEF OnResolutionPostChange
    <3> QED BY <2>1, <3>1
  <2>4. CASE EnterDiff \/ AnnounceRate
    <3>1. PICK next \in {"compare", "rate"} : CallThrough(next)
      BY <2>4 DEF EnterDiff, AnnounceRate
    <3>2. /\ UNCHANGED <<phase, _instance, listeners, served, cutOff>>
          /\ call.pc \in {"diff", "compare"}
      BY <2>4 DEF EnterDiff, AnnounceRate, CallThrough
    <3>3. /\ call'.todo = call.todo /\ call'.self = call.self
          /\ call'.pc \in {"crashed", "compare", "rate"}
      BY <3>1 DEF CallThrough
    <3> QED BY <2>1, <3>2, <3>3
  <2>5. CASE AnnouncePost
    <3>1. /\ call.self # None => call'.self = call.self
          /\ call'.todo = call.todo /\ call'.pc \in {"crashed", "post"}
          /\ call'.pc = "post" => served' = served \union {_instance}
      BY <2>5 DEF AnnouncePost, CallThrough
    <3>2. call.pc \in {"compare", "rate"} /\ UNCHANGED <<phase, _instance, listeners, cutOff>>
      BY <2>5 DEF AnnouncePost, CallThrough
    <3> QED BY <2>1, <3>1, <3>2
  <2>6. CASE Leave \/ HostDone \/ UseAfterFree
    BY <2>1, <2>6 DEF Leave, HostDone, UseAfterFree
  <2>7. ASSUME NEW i \in Instances, SeedStep(i) \/ Join(i) PROVE ObjectInv'
    BY <2>1, <2>7 DEF SeedStep, Join
  <2>8. ASSUME NEW i \in Instances, HostUnRegister(i) PROVE ObjectInv'
    BY <2>1, <2>8 DEF HostUnRegister
  <2>9. ASSUME NEW i \in Instances, ClearInstance(i) PROVE ObjectInv'
    BY <2>1, <2>9 DEF ClearInstance
  <2> QED BY <1>7, <2>2, <2>3, <2>4, <2>5, <2>6, <2>7, <2>8, <2>9 DEF Background, HostStep, Destroy
<1> QED BY <1>3, <1>4, <1>5, <1>6, <1>7 DEF SystemNext, Deinitialize

\* PlatformImplementation.cpp:192-204: a change that has been delivered has
\* reached the object behind an activated plugin, unless an older object's
\* destructor has cut it off.
THEOREM PluginIsTold == SystemSpec => UndisturbedPluginHears
<1>1. SystemInit => ObjectInv
  BY NoneAssumption DEF SystemInit, Init, ObjectInv, ObjectIsCurrent, ObjectIsServed, HostFree, Exists
<1>2. SystemInv /\ LifecycleInv /\ ObjectInv /\ [SystemNext]_systemVars => ObjectInv'
  BY ObjectStep
<1>3. ObjectInv =>
        [HostDone /\ shell = "activated" /\ object \in listeners \ cutOff => object \in served]_systemVars
  BY DEF ObjectInv, ObjectIsServed, HostDone, HostFree, Crashed
<1> QED BY <1>1, <1>2, <1>3, SystemInvariant, LifecycleInvariant, ObjectsOfPlugin, PTL
        DEF SystemSpec, UndisturbedPluginHears

\* What CallsStaySafe and SeedIsInside say of any owner, they say of the plugin
\* and its clients, whatever objects the clients keep.
THEOREM SystemCallsAreSafe == SystemSpec => [](CallsAreSafe /\ SeedStaysInside)
BY ObjectsOfPlugin, CallsStaySafe, SeedIsInside, PTL
=============================================================================
