----------------------- MODULE DisplayInfoPlugin_proofs -----------------------
(***************************************************************************)
(* Theorems about DisplayInfoPlugin.  PluginInv says at each step of       *)
(* Initialize and Deinitialize which pointers are set, whose handlers may  *)
(* be registered and what the shell and the process still know of us; it   *)
(* is needed because a deactivation may start from any of Initialize's     *)
(* failures, with the process dead or alive.                               *)
(***************************************************************************)
EXTENDS DisplayInfoPlugin, TLAPS

One(x, S) == IF x \in S THEN 1 ELSE 0

\* Steps of Deinitialize after each of its statements.
AfterUnsubscribe == {"dropHdr", "releaseHdr", "dropGraphics", "releaseGraphics",
                     "releaseDisplay", "dropDisplay", "releaseConnection", "end"}
AfterHdr == AfterUnsubscribe \ {"dropHdr", "releaseHdr"}
AfterGraphics == AfterHdr \ {"dropGraphics", "releaseGraphics"}
AfterDisplay == {"dropDisplay", "releaseConnection"}

\* The plugin holds one reference on each pointer that is set, a client one.
ReferencesCounted == \A x \in Interfaces : refs[x] = One(x, held) + One(x, clients)

\* Initialize fills the pointers in order, Deinitialize empties them.
PointersFollowSteps ==
  /\ shell \in {"deactivated", "activated"} <=> step = "none"
  /\ shell = "deactivated" \/ step \in {"root", "end"} => held = {}
  /\ step \in {"subscribe", "graphics"} => held = {"connection"}
  /\ step = "hdr" => held = {"connection", "graphics"}
  /\ step = "display" => held = {"connection", "graphics", "hdr"}
  /\ held # {} => "connection" \in held
  /\ step \in {"done", "unsubscribe"} \union (AfterUnsubscribe \ {"end"}) \/ shell = "activated"
       => "connection" \in held
  /\ step = "releaseHdr" => "hdr" \in held
  /\ step \in AfterHdr => "hdr" \notin held
  /\ step = "releaseGraphics" => "graphics" \in held
  /\ step \in AfterGraphics => "graphics" \notin held
  /\ step \in AfterDisplay => "display" \notin held

\* Handlers are registered behind a pointer that is set and dropped before it,
\* but for IDisplayProperties'.
HandlersFollowPointers ==
  /\ \A x \in handlers : x \in held \/ (x = "display" /\ step = "dropDisplay")
  /\ step \in AfterUnsubscribe => "connection" \notin handlers
  /\ step = "releaseHdr" => "hdr" \notin handlers
  /\ step = "releaseGraphics" => "graphics" \notin handlers

\* The shell, the process and _service.
RegistrationsFollowSteps ==
  /\ displaySink => "connection" \in held /\ step \notin AfterUnsubscribe
  /\ shellSink => _service /\ step \notin AfterUnsubscribe \union {"unsubscribe"}
  /\ deactivated # "none" => shellSink
  /\ _service <=> shell # "deactivated"
  /\ shell = "deactivated" => _connectionId = 0
  /\ "connection" \notin held => process = 0

\* TypeOK in three parts.
FlagsTyped == {message, _service, shellSink, displaySink, outOfProcess, alive} \subseteq BOOLEAN
ReferencesTyped == refs \in [Interfaces -> 0..2]
OthersTyped ==
  /\ shell \in {"deactivated", "activating", "activated", "deactivating"}
  /\ step \in {"none", "root", "subscribe", "graphics", "hdr", "display", "done",
               "unsubscribeShell", "unsubscribe"} \union AfterUnsubscribe
  /\ _connectionId \in 0..MaxActivations /\ process \in 0..MaxActivations
  /\ held \subseteq Interfaces /\ handlers \subseteq Interfaces /\ clients \subseteq Interfaces
  /\ deactivated \in {"none", "entered", "matched"}
  /\ jobs \in Nat /\ activations \in 0..MaxActivations

PluginInv ==
  /\ FlagsTyped /\ ReferencesTyped /\ OthersTyped /\ ReferencesCounted
  /\ PointersFollowSteps /\ HandlersFollowPointers
  /\ RegistrationsFollowSteps

-----------------------------------------------------------------------------
\* PluginInv is inductive.
LEMMA PluginStep == ASSUME PluginInv, [Next]_vars PROVE PluginInv'
<1> USE BoundAssumption
    DEF PluginInv, FlagsTyped, ReferencesTyped, OthersTyped, ReferencesCounted, PointersFollowSteps, HandlersFollowPointers,
        RegistrationsFollowSteps, One, Interfaces, AfterUnsubscribe, AfterHdr,
        AfterGraphics, AfterDisplay, pluginVars
<1>1. CASE Activate
  <2>1. FlagsTyped'
    BY <1>1 DEF Activate
  <2>2. ReferencesTyped'
    BY <1>1 DEF Activate
  <2>3. OthersTyped'
    BY <1>1 DEF Activate
  <2>4. ReferencesCounted'
    BY <1>1 DEF Activate
  <2>5. PointersFollowSteps'
    BY <1>1 DEF Activate
  <2>6. HandlersFollowPointers'
    BY <1>1 DEF Activate
  <2>7. RegistrationsFollowSteps'
    BY <1>1 DEF Activate
  <2> QED BY <2>1, <2>2, <2>3, <2>4, <2>5, <2>6, <2>7
<1>2. CASE RootSucceeds
  <2>1. FlagsTyped'
    BY <1>2 DEF RootSucceeds
  <2>2. ReferencesTyped'
    BY <1>2 DEF RootSucceeds
  <2>3. OthersTyped'
    BY <1>2 DEF RootSucceeds
  <2>4. ReferencesCounted'
    BY <1>2 DEF RootSucceeds
  <2>5. PointersFollowSteps'
    BY <1>2 DEF RootSucceeds
  <2>6. HandlersFollowPointers'
    BY <1>2 DEF RootSucceeds
  <2>7. RegistrationsFollowSteps'
    BY <1>2 DEF RootSucceeds
  <2> QED BY <2>1, <2>2, <2>3, <2>4, <2>5, <2>6, <2>7
<1>3. CASE RootFails
  BY <1>3 DEF RootFails
<1>4. CASE Subscribe
  <2>1. FlagsTyped'
    <3>1. (outOfProcess => alive) \in BOOLEAN
      BY Zenon
    <3> QED BY <1>4, <3>1, Zenon DEF Subscribe, Reachable
  <2>2. ReferencesTyped'
    BY <1>4 DEF Subscribe
  <2>3. OthersTyped'
    BY <1>4 DEF Subscribe
  <2>4. ReferencesCounted'
    BY <1>4 DEF Subscribe
  <2>5. PointersFollowSteps'
    BY <1>4 DEF Subscribe
  <2>6. HandlersFollowPointers'
    BY <1>4 DEF Subscribe
  <2>7. RegistrationsFollowSteps'
    BY <1>4 DEF Subscribe
  <2> QED BY <2>1, <2>2, <2>3, <2>4, <2>5, <2>6, <2>7
<1>5. CASE Acquire("graphics", "hdr")
  BY <1>5 DEF Acquire, OneMore
<1>6. CASE Acquire("hdr", "display")
  BY <1>6 DEF Acquire, OneMore
<1>7. CASE Acquire("display", "done")
  BY <1>7 DEF Acquire, OneMore
<1>8. CASE RequiredIsMissing("graphics") \/ RequiredIsMissing("hdr")
  BY <1>8 DEF RequiredIsMissing
<1>9. CASE DisplayIsMissing \/ Activated
  BY <1>9 DEF DisplayIsMissing, Activated
<1>10. CASE UnsubscribeShell
  BY <1>10 DEF UnsubscribeShell, DropShellSink
<1>11. CASE Unsubscribe
  BY <1>11 DEF Unsubscribe
<1>12. CASE ReleaseHdr
  <2>1. FlagsTyped'
    BY <1>12 DEF ReleaseHdr, DropHandlers, DropReference
  <2>2. ReferencesTyped'
    BY <1>12 DEF ReleaseHdr, DropHandlers, DropReference
  <2>3. OthersTyped'
    BY <1>12 DEF ReleaseHdr, DropHandlers, DropReference
  <2>4. ReferencesCounted'
    BY <1>12 DEF ReleaseHdr, DropHandlers, DropReference
  <2>5. PointersFollowSteps'
    BY <1>12 DEF ReleaseHdr, DropHandlers, DropReference
  <2>6. HandlersFollowPointers'
    BY <1>12 DEF ReleaseHdr, DropHandlers, DropReference
  <2>7. RegistrationsFollowSteps'
    BY <1>12 DEF ReleaseHdr, DropHandlers, DropReference
  <2> QED BY <2>1, <2>2, <2>3, <2>4, <2>5, <2>6, <2>7
<1>13. CASE ReleaseGraphics
  <2>1. FlagsTyped'
    BY <1>13 DEF ReleaseGraphics, DropHandlers, DropReference
  <2>2. ReferencesTyped'
    BY <1>13 DEF ReleaseGraphics, DropHandlers, DropReference
  <2>3. OthersTyped'
    BY <1>13 DEF ReleaseGraphics, DropHandlers, DropReference
  <2>4. ReferencesCounted'
    BY <1>13 DEF ReleaseGraphics, DropHandlers, DropReference
  <2>5. PointersFollowSteps'
    BY <1>13 DEF ReleaseGraphics, DropHandlers, DropReference
  <2>6. HandlersFollowPointers'
    BY <1>13 DEF ReleaseGraphics, DropHandlers, DropReference
  <2>7. RegistrationsFollowSteps'
    BY <1>13 DEF ReleaseGraphics, DropHandlers, DropReference
  <2> QED BY <2>1, <2>2, <2>3, <2>4, <2>5, <2>6, <2>7
<1>14. CASE ReleaseDisplay
  <2>1. FlagsTyped'
    BY <1>14 DEF ReleaseDisplay, DropReference
  <2>2. ReferencesTyped'
    BY <1>14 DEF ReleaseDisplay, DropReference
  <2>3. OthersTyped'
    BY <1>14 DEF ReleaseDisplay, DropReference
  <2>4. ReferencesCounted'
    BY <1>14 DEF ReleaseDisplay, DropReference
  <2>5. PointersFollowSteps'
    BY <1>14 DEF ReleaseDisplay, DropReference
  <2>6. HandlersFollowPointers'
    BY <1>14 DEF ReleaseDisplay, DropReference
  <2>7. RegistrationsFollowSteps'
    BY <1>14 DEF ReleaseDisplay, DropReference
  <2> QED BY <2>1, <2>2, <2>3, <2>4, <2>5, <2>6, <2>7
<1>15. CASE ReleaseConnection
  <2>1. FlagsTyped'
    BY <1>15 DEF ReleaseConnection
  <2>2. ReferencesTyped'
    BY <1>15 DEF ReleaseConnection
  <2>3. OthersTyped'
    BY <1>15 DEF ReleaseConnection
  <2>4. ReferencesCounted'
    BY <1>15 DEF ReleaseConnection
  <2>5. PointersFollowSteps'
    BY <1>15 DEF ReleaseConnection
  <2>6. HandlersFollowPointers'
    BY <1>15 DEF ReleaseConnection
  <2>7. RegistrationsFollowSteps'
    BY <1>15 DEF ReleaseConnection
  <2> QED BY <2>1, <2>2, <2>3, <2>4, <2>5, <2>6, <2>7
<1>16. CASE EndDeinitialize
  BY <1>16 DEF EndDeinitialize
<1>17. CASE Deactivate
  BY <1>17 DEF Deactivate, BeginDeactivate
<1>18. CASE Crash
  BY <1>18 DEF Crash
<1>19. CASE DeactivatedCompare \/ DeactivatedSubmit
  <2>1. FlagsTyped'
    BY <1>19 DEF DeactivatedCompare, DeactivatedSubmit
  <2>2. ReferencesTyped'
    BY <1>19 DEF DeactivatedCompare, DeactivatedSubmit
  <2>3. OthersTyped'
    <3>1. jobs' \in Nat /\ deactivated' \in {"none", "entered", "matched"}
      BY <1>19 DEF DeactivatedCompare, DeactivatedSubmit
    <3> QED BY <1>19, <3>1 DEF DeactivatedCompare, DeactivatedSubmit
  <2>4. ReferencesCounted'
    BY <1>19 DEF DeactivatedCompare, DeactivatedSubmit
  <2>5. PointersFollowSteps'
    BY <1>19 DEF DeactivatedCompare, DeactivatedSubmit
  <2>6. HandlersFollowPointers'
    BY <1>19 DEF DeactivatedCompare, DeactivatedSubmit
  <2>7. RegistrationsFollowSteps'
    BY <1>19 DEF DeactivatedCompare, DeactivatedSubmit
  <2> QED BY <2>1, <2>2, <2>3, <2>4, <2>5, <2>6, <2>7
<1>20. CASE RunJob
  <2>1. FlagsTyped'
    BY <1>20 DEF RunJob, BeginDeactivate
  <2>2. ReferencesTyped'
    BY <1>20 DEF RunJob, BeginDeactivate
  <2>3. OthersTyped'
    <3>1. jobs' \in Nat
      BY <1>20 DEF RunJob
    <3>2. CASE BeginDeactivate
      BY <3>1, <3>2 DEF BeginDeactivate
    <3> QED BY <1>20, <3>1, <3>2 DEF RunJob
  <2>4. ReferencesCounted'
    BY <1>20 DEF RunJob, BeginDeactivate
  <2>5. PointersFollowSteps'
    BY <1>20 DEF RunJob, BeginDeactivate
  <2>6. HandlersFollowPointers'
    BY <1>20 DEF RunJob, BeginDeactivate
  <2>7. RegistrationsFollowSteps'
    BY <1>20 DEF RunJob, BeginDeactivate
  <2> QED BY <2>1, <2>2, <2>3, <2>4, <2>5, <2>6, <2>7
<1>21. ASSUME NEW x \in Interfaces, ClientAcquires(x) \/ ClientReleases(x) PROVE PluginInv'
  <2>1. FlagsTyped'
    BY <1>21 DEF ClientAcquires, ClientReleases
  <2>2. ReferencesTyped'
    BY <1>21 DEF ClientAcquires, ClientReleases
  <2>3. OthersTyped'
    BY <1>21 DEF ClientAcquires, ClientReleases
  <2>4. ReferencesCounted'
    BY <1>21 DEF ClientAcquires, ClientReleases
  <2>5. PointersFollowSteps'
    BY <1>21 DEF ClientAcquires, ClientReleases
  <2>6. HandlersFollowPointers'
    BY <1>21 DEF ClientAcquires, ClientReleases
  <2>7. RegistrationsFollowSteps'
    BY <1>21 DEF ClientAcquires, ClientReleases
  <2> QED BY <2>1, <2>2, <2>3, <2>4, <2>5, <2>6, <2>7
<1>22. CASE Rest \/ UNCHANGED vars
  <2>1. FlagsTyped'
    BY <1>22 DEF Rest, vars
  <2>2. ReferencesTyped'
    BY <1>22 DEF Rest, vars
  <2>3. OthersTyped'
    BY <1>22 DEF Rest, vars
  <2>4. ReferencesCounted'
    BY <1>22 DEF Rest, vars
  <2>5. PointersFollowSteps'
    BY <1>22 DEF Rest, vars
  <2>6. HandlersFollowPointers'
    BY <1>22 DEF Rest, vars
  <2>7. RegistrationsFollowSteps'
    BY <1>22 DEF Rest, vars
  <2> QED BY <2>1, <2>2, <2>3, <2>4, <2>5, <2>6, <2>7
<1> QED
  BY <1>1, <1>2, <1>3, <1>4, <1>5, <1>6, <1>7, <1>8, <1>9, <1>10, <1>11, <1>12, <1>13, <1>14, <1>15, <1>16, <1>17, <1>18, <1>19, <1>20, <1>21, <1>22
  DEF Next, Initialize, Deinitialize

-----------------------------------------------------------------------------
\* PluginInv holds at the start.
LEMMA PluginStart == ASSUME Init PROVE PluginInv
<1> USE BoundAssumption
    DEF Init, PluginInv, FlagsTyped, ReferencesTyped, OthersTyped, ReferencesCounted,
        PointersFollowSteps, HandlersFollowPointers, RegistrationsFollowSteps, One,
        Interfaces, AfterUnsubscribe, AfterHdr, AfterGraphics, AfterDisplay
<1>1. FlagsTyped
  BY Zenon
<1> QED BY <1>1

\* PluginInv holds throughout, for any number of activations, crashes and clients.
THEOREM PluginInvariant == Spec => []PluginInv
<1>1. Init => PluginInv
  BY PluginStart
<1>2. PluginInv /\ [Next]_vars => PluginInv'
  BY PluginStep
<1> QED BY <1>1, <1>2, PTL DEF Spec

\* Every reachable state of the plugin is well typed; in particular no
\* interface is released twice or more often than it was acquired.
THEOREM TypeCorrect == Spec => []TypeOK
<1>1. PluginInv => TypeOK
  BY DEF PluginInv, FlagsTyped, ReferencesTyped, OthersTyped, TypeOK, AfterUnsubscribe
<1> QED BY <1>1, PluginInvariant, PTL

\* Deinitialize leaves nothing behind, whichever acquisition failed and whenever
\* the process died.
THEOREM DeactivatedIsClean == Spec => []CleanWhenDeactivated
<1>1. PluginInv => CleanWhenDeactivated
  BY DEF PluginInv, FlagsTyped, ReferencesCounted, PointersFollowSteps, One,
         HandlersFollowPointers, RegistrationsFollowSteps, CleanWhenDeactivated, AfterUnsubscribe
<1> QED BY <1>1, PluginInvariant, PTL

\* The JSON-RPC methods of the required interfaces never outlive the interface.
THEOREM HandlersAreBacked == Spec => []RequiredHandlersAreBacked
<1>1. PluginInv => RequiredHandlersAreBacked
  <2> SUFFICES ASSUME PluginInv, NEW x \in handlers, x # "display" PROVE Exists(x)
    BY DEF RequiredHandlersAreBacked
  <2>1. x \in Interfaces /\ x \in held
    BY DEF PluginInv, OthersTyped, HandlersFollowPointers
  <2>2. refs[x] > 0
    BY <2>1 DEF PluginInv, ReferencesCounted, One
  <2> QED BY <2>1, <2>2 DEF Exists
<1> QED BY <1>1, PluginInvariant, PTL

\* DisplayInfo::Deactivated never finds _service null between comparing the id
\* and submitting the job.
THEOREM ServiceIsThere == Spec => []DeactivatedFindsService
<1>1. PluginInv => DeactivatedFindsService
  BY DEF PluginInv, FlagsTyped, RegistrationsFollowSteps, DeactivatedFindsService
<1> QED BY <1>1, PluginInvariant, PTL
=============================================================================
