------------------------- MODULE DisplayInfoPlugin -------------------------
(***************************************************************************)
(* The DisplayInfo plugin's Initialize, Deinitialize and Deactivated       *)
(* against Thunder: the shell that activates and deactivates it, the       *)
(* process DisplayInfoImplementation may run in and which may die at any   *)
(* moment, the JSON-RPC handlers, clients that obtain the aggregated       *)
(* interfaces, and the deactivation job that follows a crash.              *)
(*                                                                         *)
(* Out of process each interface is a proxy with its own reference count;  *)
(* in process the four interfaces share the count of one object.           *)
(***************************************************************************)
EXTENDS Naturals

CONSTANTS MaxActivations  \* bound: activations of the plugin

ASSUME BoundAssumption == MaxActivations \in Nat

Interfaces == {"connection", "graphics", "hdr", "display"}

VARIABLES
  shell,          \* the shell's state of the plugin
  step,           \* where Initialize or Deinitialize is
  message,        \* Initialize's error message is not empty
  _service,       \* the pointer is set, and one reference held
  _connectionId,
  held,           \* interface pointers that are not null
  handlers,       \* interfaces whose JSON-RPC methods are registered
  shellSink,      \* _notification is registered with the shell
  displaySink,    \* _notification is registered with the implementation
  refs,           \* references to each interface, clients' included
  clients,        \* interfaces a client holds a reference to
  outOfProcess,   \* root.mode
  process,        \* the implementation's connection id, 0 when there is none
  alive,          \* that process is running
  deactivated,    \* DisplayInfo::Deactivated's thread
  jobs,           \* deactivation jobs in the worker pool
  activations

pluginVars == <<message, _service, _connectionId, held, handlers, shellSink, displaySink>>
vars == <<shell, step, pluginVars, refs, clients, outOfProcess, process, alive,
          deactivated, jobs, activations>>

Init ==
  /\ shell = "deactivated" /\ step = "none" /\ message = FALSE
  /\ _service = FALSE /\ _connectionId = 0
  /\ held = {} /\ handlers = {} /\ shellSink = FALSE /\ displaySink = FALSE
  /\ refs = [x \in Interfaces |-> 0] /\ clients = {}
  /\ outOfProcess \in BOOLEAN
  /\ process = 0 /\ alive = FALSE
  /\ deactivated = "none" /\ jobs = 0
  /\ activations = 0

\* Whether an interface can still be called.
Exists(x) == IF outOfProcess THEN refs[x] > 0
                             ELSE \E y \in Interfaces : refs[y] > 0
Reachable == outOfProcess => alive

-----------------------------------------------------------------------------
(* Initialize.                                                             *)

\* Lines 57-60; the shell calls Initialize only when deactivated.
Activate ==
  /\ shell = "deactivated" /\ activations < MaxActivations
  /\ shell' = "activating" /\ step' = "root"
  /\ activations' = activations + 1
  /\ message' = FALSE /\ _service' = TRUE /\ shellSink' = TRUE
  /\ UNCHANGED <<_connectionId, held, handlers, displaySink, refs, clients,
                 outOfProcess, process, alive, deactivated, jobs>>

RootSucceeds ==
  /\ step = "root"
  /\ held' = {"connection"} /\ refs' = [refs EXCEPT !["connection"] = @ + 1]
  /\ IF outOfProcess
     THEN process' = activations /\ alive' = TRUE /\ _connectionId' = activations
     ELSE UNCHANGED <<process, alive, _connectionId>>
  /\ step' = "subscribe"
  /\ UNCHANGED <<shell, message, _service, handlers, shellSink, displaySink,
                 clients, outOfProcess, deactivated, jobs, activations>>

RootFails ==
  /\ step = "root"
  /\ message' = TRUE /\ step' = "unsubscribeShell"
  /\ UNCHANGED <<shell, _service, _connectionId, held, handlers, shellSink,
                 displaySink, refs, clients, outOfProcess, process, alive,
                 deactivated, jobs, activations>>

\* Register the sink (a dead process cannot), the handlers, and Configure.
Subscribe ==
  /\ step = "subscribe"
  /\ displaySink' = Reachable
  /\ handlers' = handlers \union {"connection"}
  /\ step' = "graphics"
  /\ UNCHANGED <<shell, message, _service, _connectionId, held, shellSink, refs,
                 clients, outOfProcess, process, alive, deactivated, jobs, activations>>

OneMore(n) == n + 1

\* QueryInterface and the registration that follows; then the next step.
Acquire(x, next) ==
  /\ step = x /\ Reachable
  /\ held' = held \union {x}
  /\ refs' = [refs EXCEPT ![x] = OneMore(@)]
  /\ handlers' = handlers \union {x}
  /\ step' = next
  /\ UNCHANGED <<shell, message, _service, _connectionId, shellSink, displaySink,
                 clients, outOfProcess, process, alive, deactivated, jobs, activations>>

RequiredIsMissing(x) ==
  /\ step = x
  /\ message' = TRUE /\ step' = "unsubscribeShell"
  /\ UNCHANGED <<shell, _service, _connectionId, held, handlers, shellSink,
                 displaySink, refs, clients, outOfProcess, process, alive,
                 deactivated, jobs, activations>>

DisplayIsMissing ==
  /\ step = "display"
  /\ step' = "done"
  /\ UNCHANGED <<shell, pluginVars, refs, clients, outOfProcess, process, alive,
                 deactivated, jobs, activations>>

Activated ==
  /\ step = "done" /\ shell' = "activated" /\ step' = "none"
  /\ UNCHANGED <<pluginVars, refs, clients, outOfProcess, process, alive,
                 deactivated, jobs, activations>>

Initialize ==
  \/ RootSucceeds \/ RootFails \/ Subscribe
  \/ Acquire("graphics", "hdr") \/ RequiredIsMissing("graphics")
  \/ Acquire("hdr", "display") \/ RequiredIsMissing("hdr")
  \/ Acquire("display", "done") \/ DisplayIsMissing
  \/ Activated

-----------------------------------------------------------------------------
(* Deinitialize, called by the shell or by Initialize itself.              *)

KeepShellSink == shellSink' = shellSink
DropShellSink == deactivated = "none" /\ shellSink' = FALSE

\* Unregister does not return while the shell is calling _notification.
UnsubscribeShell ==
  /\ step = "unsubscribeShell" /\ DropShellSink
  /\ step' = IF "connection" \in held THEN "unsubscribe" ELSE "end"
  /\ UNCHANGED <<shell, message, _service, _connectionId, held, handlers,
                 displaySink, refs, clients, outOfProcess, process, alive,
                 deactivated, jobs, activations>>

Unsubscribe ==
  /\ step = "unsubscribe"
  /\ displaySink' = FALSE /\ handlers' = handlers \ {"connection"}
  /\ step' = "dropHdr"
  /\ UNCHANGED <<shell, message, _service, _connectionId, held, shellSink, refs,
                 clients, outOfProcess, process, alive, deactivated, jobs, activations>>

\* Drop the handlers of x, then in a second step its reference; skip both when
\* the pointer is null.
DropHandlers(x, here, then, skip) ==
  /\ step = here
  /\ IF x \in held THEN handlers' = handlers \ {x} /\ step' = then
                   ELSE handlers' = handlers /\ step' = skip
  /\ UNCHANGED <<shell, message, _service, _connectionId, held, shellSink,
                 displaySink, refs, clients, outOfProcess, process, alive,
                 deactivated, jobs, activations>>

DropReference(x, here, then) ==
  /\ step = here
  /\ refs' = [refs EXCEPT ![x] = @ - 1]
  /\ held' = held \ {x}
  /\ step' = then
  /\ UNCHANGED <<shell, message, _service, _connectionId, handlers, shellSink,
                 displaySink, clients, outOfProcess, process, alive, deactivated,
                 jobs, activations>>

ReleaseHdrFirst ==
  \/ DropReference("hdr", "dropHdr", "releaseHdr")
  \/ /\ step = "releaseHdr" /\ handlers' = handlers \ {"hdr"} /\ step' = "dropGraphics"
     /\ UNCHANGED <<shell, message, _service, _connectionId, held, shellSink,
                    displaySink, refs, clients, outOfProcess, process, alive,
                    deactivated, jobs, activations>>
ReleaseHdr ==
  \/ DropHandlers("hdr", "dropHdr", "releaseHdr", "dropGraphics")
  \/ DropReference("hdr", "releaseHdr", "dropGraphics")

ForgetGraphics == DropHandlers("graphics", "dropGraphics", "releaseDisplay", "releaseDisplay")
ReleaseGraphics ==
  \/ DropHandlers("graphics", "dropGraphics", "releaseGraphics", "releaseDisplay")
  \/ DropReference("graphics", "releaseGraphics", "releaseDisplay")

\* The optional interface: Release comes before Unregister.
ReleaseDisplay ==
  \/ /\ "display" \in held /\ DropReference("display", "releaseDisplay", "dropDisplay")
  \/ /\ "display" \notin held
     /\ step = "releaseDisplay" /\ step' = "releaseConnection"
     /\ UNCHANGED <<shell, pluginVars, refs, clients, outOfProcess, process, alive,
                    deactivated, jobs, activations>>
  \/ /\ step = "dropDisplay"
     /\ handlers' = handlers \ {"display"} /\ step' = "releaseConnection"
     /\ UNCHANGED <<shell, message, _service, _connectionId, held, shellSink,
                    displaySink, refs, clients, outOfProcess, process, alive,
                    deactivated, jobs, activations>>

\* _connectionProperties->Release() and connection->Terminate().
ReleaseConnection ==
  /\ step = "releaseConnection"
  /\ refs' = [refs EXCEPT !["connection"] = @ - 1]
  /\ held' = held \ {"connection"}
  /\ process' = 0 /\ alive' = FALSE
  /\ step' = "end"
  /\ UNCHANGED <<shell, message, _service, _connectionId, handlers, shellSink,
                 displaySink, clients, outOfProcess, deactivated, jobs, activations>>

\* _connectionId = 0, _service->Release(); back in the shell.
EndDeinitialize ==
  /\ step = "end"
  /\ _connectionId' = 0 /\ _service' = FALSE
  /\ step' = "none" /\ shell' = "deactivated"
  /\ UNCHANGED <<message, held, handlers, shellSink, displaySink, refs, clients,
                 outOfProcess, process, alive, deactivated, jobs, activations>>

Deinitialize ==
  UnsubscribeShell \/ Unsubscribe \/ ReleaseHdr \/ ReleaseGraphics
  \/ ReleaseDisplay \/ ReleaseConnection \/ EndDeinitialize

BeginDeactivate ==
  /\ shell' = "deactivating" /\ step' = "unsubscribeShell"
  /\ UNCHANGED <<pluginVars, refs, clients, outOfProcess, process, alive,
                 deactivated, activations>>

\* The controller deactivates the plugin (external).
Deactivate == shell = "activated" /\ BeginDeactivate /\ jobs' = jobs

-----------------------------------------------------------------------------
(* A crash of the implementation's process and what follows it.            *)

Crash ==
  /\ alive /\ alive' = FALSE
  /\ deactivated' = IF shellSink THEN "entered" ELSE deactivated
  /\ UNCHANGED <<shell, step, pluginVars, refs, clients, outOfProcess, process,
                 jobs, activations>>

IdNeverMatches == FALSE
IdMatches == _connectionId = process

\* DisplayInfo::Deactivated: compare the id,
DeactivatedCompare ==
  /\ deactivated = "entered"
  /\ deactivated' = IF IdMatches THEN "matched" ELSE "none"
  /\ UNCHANGED <<shell, step, pluginVars, refs, clients, outOfProcess, process,
                 alive, jobs, activations>>

\* then use _service to submit the job.
DeactivatedSubmit ==
  /\ deactivated = "matched"
  /\ deactivated' = "none"
  /\ jobs' = jobs + 1
  /\ UNCHANGED <<shell, step, pluginVars, refs, clients, outOfProcess, process,
                 alive, activations>>

\* The worker pool runs the job between two transitions of the shell; it has no
\* effect on a plugin that is deactivated already.
RunJob ==
  /\ jobs > 0 /\ jobs' = jobs - 1
  /\ \/ shell = "activated" /\ BeginDeactivate
     \/ /\ shell = "deactivated"
        /\ UNCHANGED <<shell, step, pluginVars, refs, clients, outOfProcess,
                       process, alive, deactivated, activations>>

-----------------------------------------------------------------------------
(* Clients of the aggregated interfaces (INTERFACE_AGGREGATE).             *)

ClientAcquires(x) ==
  /\ shell = "activated" /\ x \in held \ clients
  /\ clients' = clients \union {x}
  /\ refs' = [refs EXCEPT ![x] = @ + 1]
  /\ UNCHANGED <<shell, step, pluginVars, outOfProcess, process, alive,
                 deactivated, jobs, activations>>

ClientReleases(x) ==
  /\ x \in clients
  /\ clients' = clients \ {x}
  /\ refs' = [refs EXCEPT ![x] = @ - 1]
  /\ UNCHANGED <<shell, step, pluginVars, outOfProcess, process, alive,
                 deactivated, jobs, activations>>

Rest ==
  /\ shell = "deactivated" /\ activations = MaxActivations
  /\ clients = {} /\ jobs = 0
  /\ UNCHANGED vars

Next ==
  \/ Activate \/ Initialize \/ Deactivate \/ Deinitialize
  \/ Crash \/ DeactivatedCompare \/ DeactivatedSubmit \/ RunJob
  \/ \E x \in Interfaces : ClientAcquires(x) \/ ClientReleases(x)
  \/ Rest

\* Threads run and the worker pool runs its jobs; nothing makes the process
\* crash, a client let go, or the controller act.
Fairness ==
  /\ WF_vars(Initialize) /\ WF_vars(Deinitialize)
  /\ WF_vars(DeactivatedCompare) /\ WF_vars(DeactivatedSubmit) /\ WF_vars(RunJob)

Spec == Init /\ [][Next]_vars /\ Fairness
-----------------------------------------------------------------------------
(* Properties.                                                             *)

TypeOK ==
  /\ shell \in {"deactivated", "activating", "activated", "deactivating"}
  /\ step \in {"none", "root", "subscribe", "graphics", "hdr", "display", "done",
               "unsubscribeShell", "unsubscribe", "dropHdr", "releaseHdr",
               "dropGraphics", "releaseGraphics", "releaseDisplay", "dropDisplay",
               "releaseConnection", "end"}
  /\ {message, _service, shellSink, displaySink, outOfProcess, alive} \subseteq BOOLEAN
  /\ _connectionId \in 0..MaxActivations /\ process \in 0..MaxActivations
  /\ held \subseteq Interfaces /\ handlers \subseteq Interfaces /\ clients \subseteq Interfaces
  /\ refs \in [Interfaces -> 0..2]
  /\ deactivated \in {"none", "entered", "matched"}
  /\ jobs \in Nat /\ activations \in 0..MaxActivations

\* A deactivated plugin holds nothing, whichever acquisition failed and
\* whenever the process died: no pointer, reference, handler, registration or
\* process is left behind, and the assertions at the head of Initialize hold.
CleanWhenDeactivated ==
  shell = "deactivated" =>
    /\ held = {} /\ handlers = {} /\ ~shellSink /\ ~displaySink
    /\ ~_service /\ _connectionId = 0 /\ process = 0
    /\ \A x \in Interfaces : refs[x] = IF x \in clients THEN 1 ELSE 0

\* The JSON-RPC methods of the required interfaces are never registered while
\* the interface behind them is gone, in Initialize's failure paths included.
RequiredHandlersAreBacked == \A x \in handlers \ {"display"} : Exists(x)

\* ASSERT(_service != nullptr) in DisplayInfo::Deactivated: Deinitialize cannot
\* clear the pointer between the comparison of the id and its use.
DeactivatedFindsService == deactivated = "matched" => _service

\* A plugin whose process has died is deactivated.
CrashDeactivates ==
  shell = "activated" /\ outOfProcess /\ ~alive ~> shell = "deactivated"
=============================================================================
