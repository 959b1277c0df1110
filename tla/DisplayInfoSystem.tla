------------------------- MODULE DisplayInfoSystem -------------------------
(***************************************************************************)
(* The DisplayInfo plugin in process (root.mode "Off", the default), on    *)
(* the DeviceSettings backend: DisplayInfoPlugin composed with             *)
(* DSLifecycle.  Root constructs a DisplayInfoImplementation on the thread *)
(* that activates the plugin; every interface the plugin or a client holds *)
(* is a reference to such an object; and whoever drops the last reference  *)
(* runs its destructor before the release returns.  Meanwhile device::Host *)
(* calls back, the seed threads run, and a client may keep an interface,   *)
(* and the object behind it, while the plugin is deactivated and activated *)
(* again with another object.                                              *)
(*                                                                         *)
(* In process the object implements all four interfaces, and a callback    *)
(* that crashes takes plugin and clients with it: a dead process beside a  *)
(* living plugin is DisplayInfoPlugin's own run.                           *)
(***************************************************************************)
EXTENDS DSLifecycle

CONSTANTS
  MaxActivations, \* bound: activations of the plugin
  Wanted          \* bound: interfaces that clients ask for

VARIABLES
  shell, step, message, _service, _connectionId, held, handlers, shellSink,
  displaySink, refs, clients, outOfProcess, process, alive, deactivated, jobs,
  activations,    \* DisplayInfoPlugin's
  object,         \* the object behind the plugin's pointers
  clientObject    \* the object behind each interface a client holds

Plugin == INSTANCE DisplayInfoPlugin

ASSUME WantedAssumption == Wanted \subseteq Plugin!Interfaces
ASSUME ActivationsAssumption == MaxActivations \in Nat

pluginState == <<shell, step, message, _service, _connectionId, held, handlers,
                 shellSink, displaySink, refs, clients, outOfProcess, process,
                 alive, deactivated, jobs, activations>>
systemVars == <<vars, pluginState, object, clientObject>>

SystemInit ==
  /\ Init /\ Plugin!Init /\ ~outOfProcess
  /\ object = None
  /\ clientObject = [x \in Plugin!Interfaces |-> None]

\* References to object i, over its four interfaces.
References(i) ==
  (IF object = i THEN Cardinality(held) ELSE 0)
    + Cardinality({x \in clients : clientObject[x] = i})

\* Release: whoever finds the count at one runs the destructor.
DropsLast(i) == IF References(i) = 1 THEN LastRelease(i) ELSE UNCHANGED vars

-----------------------------------------------------------------------------
(* Activation.                                                             *)

Activate == ~Crashed /\ Plugin!Activate /\ UNCHANGED <<vars, object, clientObject>>

\* service->Root: the constructor, then the pointer.
RootConstructs(i) ==
  /\ step = "root"
  /\ \/ object = None /\ SetInstance(i)
     \/ object = i /\ (HostRegister(i) \/ Spawn(i))
  /\ object' = i
  /\ UNCHANGED <<pluginState, clientObject>>

RootReturns ==
  /\ ~Crashed
  /\ \/ object # None /\ phase[object] = "live" /\ Plugin!RootSucceeds
     \/ object = None /\ Plugin!RootFails
  /\ UNCHANGED <<vars, object, clientObject>>

Initialize ==
  /\ ~Crashed
  /\ \/ Plugin!Subscribe \/ Plugin!Activated
     \/ Plugin!Acquire("graphics", "hdr") \/ Plugin!Acquire("hdr", "display")
     \/ Plugin!Acquire("display", "done")
  /\ UNCHANGED <<vars, object, clientObject>>

-----------------------------------------------------------------------------
(* Deactivation.                                                           *)

Deactivate == ~Crashed /\ Plugin!Deactivate /\ UNCHANGED <<vars, object, clientObject>>

\* While _connectionProperties is held, no other release is the last.
Unwind ==
  /\ ~Crashed
  /\ \/ Plugin!UnsubscribeShell \/ Plugin!Unsubscribe
     \/ Plugin!ReleaseHdr \/ Plugin!ReleaseGraphics \/ Plugin!ReleaseDisplay
  /\ UNCHANGED <<vars, object, clientObject>>

\* The pointer is dropped; object is kept while the destructor runs.
ReleaseConnection ==
  /\ ~Crashed /\ Plugin!ReleaseConnection
  /\ DropsLast(object)
  /\ object' = IF References(object) = 1 THEN object ELSE None
  /\ UNCHANGED clientObject

\* Release has returned: at once, or after the destructor it ran.
Released == object # None => phase[object] = "freed"

EndDeinitialize ==
  /\ ~Crashed /\ Released /\ Plugin!EndDeinitialize
  /\ object' = None
  /\ UNCHANGED <<vars, clientObject>>

Deinitialize == Unwind \/ ReleaseConnection \/ EndDeinitialize

-----------------------------------------------------------------------------
(* Clients, which know nothing of the plugin's state.                      *)

ClientAcquires(x) ==
  /\ ~Crashed /\ Plugin!ClientAcquires(x)
  /\ clientObject' = [clientObject EXCEPT ![x] = object]
  /\ UNCHANGED <<vars, object>>

ClientReleases(x) ==
  /\ ~Crashed /\ Plugin!ClientReleases(x)
  /\ DropsLast(clientObject[x])
  /\ clientObject' = [clientObject EXCEPT ![x] = None]
  /\ UNCHANGED object

-----------------------------------------------------------------------------
(* device::Host, the seed threads and the destructors go on by themselves. *)

Background ==
  /\ \/ HostEvent \/ HostStep \/ UseAfterFree
     \/ \E i \in Instances : SeedStep(i) \/ Destroy(i)
  /\ UNCHANGED <<pluginState, object, clientObject>>

SystemRest ==
  /\ \/ Crashed
     \/ Plugin!Rest /\ HostFree /\ events = MaxEvents /\ Exists = {}
  /\ UNCHANGED systemVars

SystemNext ==
  \/ Activate \/ (\E i \in Instances : RootConstructs(i)) \/ RootReturns \/ Initialize
  \/ Deactivate \/ Deinitialize
  \/ \E x \in Wanted : ClientAcquires(x) \/ ClientReleases(x)
  \/ Background \/ SystemRest

\* Threads run as long as the process does, and the Host thread that has
\* finished its calls lets a waiting UnRegister in; nobody has to activate,
\* deactivate or let go of an interface, and no use of a freed object has to end
\* the process.
SystemFairness ==
  /\ WF_systemVars(\E i \in Instances : RootConstructs(i))
  /\ WF_systemVars(RootReturns \/ Initialize) /\ WF_systemVars(Deinitialize)
  /\ WF_systemVars(HostStep /\ UNCHANGED <<pluginState, object, clientObject>>)
  /\ \A i \in Instances :
       /\ WF_systemVars(SeedStep(i) /\ UNCHANGED <<pluginState, object, clientObject>>)
       /\ WF_systemVars(Destroy(i) /\ UNCHANGED <<pluginState, object, clientObject>>)
       /\ SF_systemVars(HostUnRegister(i) /\ UNCHANGED <<pluginState, object, clientObject>>)

SystemSpec == SystemInit /\ [][SystemNext]_systemVars /\ SystemFairness
-----------------------------------------------------------------------------
(* Properties.                                                             *)

\* A deactivated plugin that no client holds an interface of has left nothing
\* in its process: the object is freed, its seed thread has ended, device::Host
\* does not know it any more and _instance is null again, although the
\* destructor may have run in Deinitialize or on a client's thread.
NothingIsLeft ==
  shell = "deactivated" /\ clients = {} /\ Exists \subseteq {i \in Instances : phase[i] = "live"} =>
    /\ Exists = {} /\ listeners = {} /\ _instance = None
    /\ \A i \in Instances : seed[i] # "running"

\* Deactivation ends, if the process lives, although the last release joins the
\* seed thread and waits for the callback device::Host is making.
DeactivationEnds == shell = "deactivating" ~> shell = "deactivated" \/ Crashed

\* openspec/specs/displayinfo.spec.md:37, REQ-F-02: the plugin "MUST fire an
\* `updated` event whenever the display connection or resolution state changes".
\* When a change has been delivered, the object of the activated plugin has been
\* told if device::Host knows it.
PluginHearsChanges ==
  [][HostDone /\ shell = "activated" /\ object \in listeners => object \in served]_systemVars

\* The same of an object beside which no older one was destroyed: a client that
\* keeps an old object, without letting go of it, cuts nothing off.
UndisturbedPluginHears ==
  [][HostDone /\ shell = "activated" /\ object \in listeners \ cutOff => object \in served]_systemVars
=============================================================================
