------------------------- MODULE LinuxEvents_proofs -------------------------
(***************************************************************************)
(* Proofs about LinuxEvents, for every queue limit, every number of        *)
(* changes, either behaviour of the thread after Core::infinite, and a     *)
(* destructor that comes at any moment.                                    *)
(***************************************************************************)
EXTENDS LinuxEvents, TLAPS

IInv == TypeOK /\ WakesHaveEntries /\ ExtractNeverBlocks

\* Appending to and taking from a queue, with the lengths.
LEMMA Queueing ==
  ASSUME NEW S, NEW q \in Seq(S)
  PROVE /\ \A e \in S : Append(q, e) \in Seq(S) /\ Len(Append(q, e)) = Len(q) + 1
        /\ Len(q) \in Nat
        /\ q # <<>> => Head(q) \in S /\ Tail(q) \in Seq(S) /\ Len(Tail(q)) = Len(q) - 1
                       /\ Len(q) > 0
  OBVIOUS

\* Nothing has been announced at the start and the thread waits.
LEMMA InitIInv == Init => IInv
<1> SUFFICES ASSUME Init PROVE IInv
  OBVIOUS
<1>1. TypeOK
  <2>1. Never \in [Parts -> Nat]
    BY DEF Never
  <2>2. <<>> \in Seq(DevTypes) /\ <<>> \in Seq(Sources) /\ <<>> \in Seq(Nat)
    OBVIOUS
  <2>3. worker \in [pc : WorkerPCs, event : Sources] /\ worker.pc = "lock"
    BY DEF Init, WorkerPCs, Sources
  <2> QED
    <3>1. changes \in 0..MaxChanges
      BY BoundsAssumption DEF Init
    <3>2. world \in [Parts -> Nat] /\ announced \in [Parts -> Nat]
      BY <2>1 DEF Init
    <3>3. messages \in Seq(DevTypes) /\ queue \in Seq(Sources)
      BY <2>2 DEF Init
    <3>4. receiver \in {"idle", "set", "dangling"} /\ arrived \in BOOLEAN /\ owner \in Stages
      BY DEF Init, Stages
    <3>5. configure \in [pc : ConfigurePCs, built : Readings]
      BY <2>2 DEF Init, ConfigurePCs, Readings, Blank
    <3> QED
      BY <2>3, <3>1, <3>2, <3>3, <3>4, <3>5 DEF TypeOK
<1>2. WakesHaveEntries /\ ExtractNeverBlocks
  BY DEF Init, WakesHaveEntries, ExtractNeverBlocks, Count
<1> QED
  BY <1>1, <1>2 DEF IInv

\* Reading a part of the display leaves the last reading behind.
LEMMA ReadingIsTyped ==
  ASSUME world \in [Parts -> Nat], NEW d \in Readings
  PROVE  /\ WithConnector(d) \in Readings /\ WithConnector(d).connector = world["connector"]
         /\ WithHDCP(d) \in Readings /\ WithHDCP(d).hdcp = world["hdcp"]
         /\ WithHDCP(d).connector = d.connector /\ WithHDCP(d).edid = d.edid
         /\ \A e \in WithEDID(d) :
              /\ e \in Readings /\ e.connector = d.connector /\ e.hdcp = d.hdcp
              /\ e.edid # <<>> => e.edid[Len(e.edid)] = world["edid"]
<1>1. d \in [connector : Nat, hdcp : Nat, edid : Seq(Nat)]
  BY DEF Readings
<1>2. world["connector"] \in Nat /\ world["hdcp"] \in Nat /\ world["edid"] \in Nat
  BY DEF Parts
<1>3. PICK bytes \in Seq(Nat) : bytes = d.edid
  BY <1>1
<1>4. /\ Append(bytes, world["edid"]) \in Seq(Nat) /\ <<>> \in Seq(Nat)
      /\ Len(Append(bytes, world["edid"])) = Len(bytes) + 1
      /\ Append(bytes, world["edid"])[Len(bytes) + 1] = world["edid"]
  BY <1>2, <1>3
<1>5. \A s \in Seq(Nat) : /\ [d EXCEPT !.edid = s] \in Readings
                          /\ [d EXCEPT !.edid = s].edid = s
                          /\ [d EXCEPT !.edid = s].connector = d.connector
                          /\ [d EXCEPT !.edid = s].hdcp = d.hdcp
  BY <1>1 DEF Readings
<1>6. WithEDID(d) = {[d EXCEPT !.edid = Append(bytes, world["edid"])], [d EXCEPT !.edid = <<>>]}
  BY <1>3 DEF WithEDID
<1>7. \A e \in WithEDID(d) :
        /\ e \in Readings /\ e.connector = d.connector /\ e.hdcp = d.hdcp
        /\ e.edid # <<>> => e.edid[Len(e.edid)] = world["edid"]
  BY <1>4, <1>5, <1>6
<1> QED BY <1>1, <1>2, <1>7 DEF WithConnector, WithHDCP, Readings

\* Every step keeps the types.
LEMMA NextTypeOK == TypeOK /\ [Next]_vars => TypeOK'
<1> SUFFICES ASSUME TypeOK, [Next]_vars PROVE TypeOK'
  OBVIOUS
<1> USE BoundsAssumption DEF kernel
<1>1. ASSUME NEW d \in DevTypes, Change(d) PROVE TypeOK'
  <2>1. world' \in [Parts -> Nat]
    BY <1>1 DEF Change, TypeOK
  <2>2. messages' \in Seq(DevTypes)
    <3>1. messages \in Seq(DevTypes) /\ messages' \in {messages, Append(messages, d)}
      BY <1>1 DEF Change, TypeOK
    <3>2. Append(messages, d) \in Seq(DevTypes)
      BY <3>1, Queueing
    <3> QED
      BY <3>1, <3>2
  <2>3. changes' \in 0..MaxChanges
    BY <1>1 DEF Change, TypeOK
  <2> QED
    BY <2>1, <2>2, <2>3, <1>1 DEF TypeOK, Change
<1>2. CASE ReceiveData
  <2>1. messages' \in Seq(DevTypes)
    BY <1>2, Queueing DEF ReceiveData, TypeOK
  <2>2. queue' \in Seq(Sources)
    <3>1. SourceOf(Head(messages)) \in Sources
      BY DEF SourceOf, Sources
    <3>2. queue \in Seq(Sources) /\ queue' \in {queue, Append(queue, SourceOf(Head(messages)))}
      BY <1>2 DEF ReceiveData, TypeOK
    <3>3. Append(queue, SourceOf(Head(messages))) \in Seq(Sources)
      BY <3>1, <3>2, Queueing
    <3> QED
      BY <3>2, <3>3
  <2>3. announced' \in [Parts -> Nat]
    BY <1>2 DEF ReceiveData, TypeOK
  <2>4. receiver' \in {"idle", "set", "dangling"}
    BY <1>2 DEF ReceiveData, TypeOK
  <2> QED
    BY <2>1, <2>2, <2>3, <2>4, <1>2 DEF TypeOK, ReceiveData
<1>3. CASE SetArrived
  BY <1>3 DEF SetArrived, TypeOK
<1>4. CASE Lock
  BY <1>4 DEF Lock, TypeOK, Goto, Elsewhere, WorkerPCs
<1>5. CASE ResetEvent
  BY <1>5 DEF ResetEvent, AfterReset, TypeOK, Goto, Elsewhere, WorkerPCs
<1>6. CASE Extract
  <2>1. Head(queue) \in Sources /\ queue' \in Seq(Sources)
    BY <1>6, Queueing DEF Extract, TypeOK
  <2> QED
    BY <2>1, <1>6 DEF Extract, TypeOK, Elsewhere, WorkerPCs, Sources
<1>7. CASE QueryDisplayProperties
  BY <1>7 DEF QueryDisplayProperties, TypeOK, Goto, Elsewhere, WorkerPCs
<1>8. CASE Reauthenticate
  BY <1>8 DEF Reauthenticate, AfterHdcp, TypeOK, Goto, Elsewhere, WorkerPCs, Sources
<1>9. CASE QueryEDID
  BY <1>9 DEF QueryEDID, TypeOK, Goto, Elsewhere, WorkerPCs
<1>10. CASE Return
  BY <1>10, AfterAssumption DEF Return, TypeOK, Goto, Elsewhere, WorkerPCs
<1>11. CASE Configure
  <2>1. configure' \in [pc : ConfigurePCs, built : Readings]
    <3>1. configure.built \in Readings /\ world \in [Parts -> Nat]
      BY DEF TypeOK
    <3>2. Blank \in Readings
      BY DEF Blank, Readings
    <3>3. \E pc \in ConfigurePCs, d \in Readings : configure' = [pc |-> pc, built |-> d]
      BY <1>11, <3>1, <3>2, ReadingIsTyped
      DEF Configure, ConstructDisplay, SetDisplay, Built, ConfigurePCs
    <3> QED BY <3>3
  <2> QED BY <2>1, <1>11 DEF Configure, TypeOK
<1>12. CASE CheckRunning \/ WorkerDangles
  BY <1>12 DEF CheckRunning, WorkerDangles, TypeOK, Goto, Elsewhere, WorkerPCs
<1>13. CASE ReceiverDangles
  BY <1>13 DEF ReceiverDangles, TypeOK
<1>14. CASE Destroy
  BY <1>14 DEF Destroy, Stop, ReleaseProperties, DestroyDisplay, WakeWorker, Signalled,
     DestroyQueue, JoinWorker, CloseSocket, Reach, TypeOK, Stages
<1>15. CASE UNCHANGED vars
  BY <1>15 DEF vars, TypeOK
<1> QED
  BY <1>1, <1>2, <1>3, <1>4, <1>5, <1>6, <1>7, <1>8, <1>9, <1>10, <1>11, <1>12, <1>13, <1>14,
     <1>15 DEF Next, Receiver, Worker, Rest

\* Every step keeps an entry in the queue for each wake-up on its way: a step
\* that adds a wake-up adds its entry first, and setting an event that is set
\* already, or resetting it, only loses wake-ups.  The destructor's SetEvent has
\* no entry, but comes after Stop, and a stopped thread extracts nothing.
LEMMA NextWakes == IInv /\ [Next]_vars => WakesHaveEntries' /\ ExtractNeverBlocks'
<1> SUFFICES ASSUME TypeOK, WakesHaveEntries, ExtractNeverBlocks, [Next]_vars
             PROVE  WakesHaveEntries' /\ ExtractNeverBlocks'
  BY DEF IInv
<1> DEFINE pend == Count(receiver = "set")
           woken == Count(arrived /\ worker.pc # "reset")
           taken == Count(worker.pc \in {"reset", "check", "extract"})
<1> USE DEF kernel
<1>0. Len(queue) \in Nat /\ (queue = <<>> <=> Len(queue) = 0)
  BY Queueing DEF TypeOK
<1>1. ASSUME UNCHANGED <<receiver, queue, arrived, owner>>,
             worker.pc \notin {"reset", "check", "extract"},
             worker'.pc \notin {"reset", "check", "extract"}
      PROVE  WakesHaveEntries' /\ ExtractNeverBlocks'
  BY <1>1 DEF WakesHaveEntries, ExtractNeverBlocks, Count, SetEventDone
<1>2. ASSUME UNCHANGED <<receiver, queue, arrived, worker, owner>>
      PROVE  WakesHaveEntries' /\ ExtractNeverBlocks'
  BY <1>2 DEF WakesHaveEntries, ExtractNeverBlocks, SetEventDone
<1>3. CASE ReceiveData
  <2>1. CASE UNCHANGED <<queue, receiver>>
    BY <2>1, <1>2, <1>3 DEF ReceiveData
  <2>2. CASE receiver = "idle" /\ receiver' = "set" /\ Len(queue') = Len(queue) + 1
             /\ queue' # <<>>
    BY <2>2, <1>0, <1>3 DEF ReceiveData, WakesHaveEntries, ExtractNeverBlocks, Count, SetEventDone
  <2>3. SourceOf(Head(messages)) \in Sources
    BY DEF SourceOf, Sources
  <2> QED
    BY <2>1, <2>2, <2>3, <1>0, <1>3, Queueing DEF ReceiveData, TypeOK
<1>4. CASE SetArrived
  BY <1>4, <1>0 DEF SetArrived, WakesHaveEntries, ExtractNeverBlocks, Count, SetEventDone
<1>5. CASE Lock
  <2>1. worker.pc = "lock" /\ worker'.pc = "reset" /\ arrived
        /\ UNCHANGED <<receiver, queue, arrived, owner>>
    BY <1>5 DEF Lock, Goto, Elsewhere, TypeOK
  <2> QED
    BY <2>1, <1>0 DEF WakesHaveEntries, ExtractNeverBlocks, Count, SetEventDone
<1>6. CASE ResetEvent
  <2>1. /\ worker.pc = "reset" /\ worker'.pc = "check" /\ ~arrived'
        /\ UNCHANGED <<receiver, queue, owner>>
    BY <1>6 DEF ResetEvent, AfterReset, Goto, Elsewhere, TypeOK
  <2> QED
    BY <2>1, <1>0 DEF WakesHaveEntries, ExtractNeverBlocks, Count, SetEventDone
<1>7. CASE CheckRunning
  <2>1. worker.pc = "check" /\ UNCHANGED <<receiver, queue, arrived, owner>>
    BY <1>7 DEF CheckRunning, Elsewhere
  <2>2. CASE owner = "alive" /\ worker'.pc = "extract"
    BY <2>1, <2>2, <1>0 DEF WakesHaveEntries, ExtractNeverBlocks, Count, SetEventDone
  <2>3. CASE worker'.pc = "return"
    BY <2>1, <2>3, <1>0 DEF WakesHaveEntries, ExtractNeverBlocks, Count, SetEventDone
  <2> QED
    BY <2>2, <2>3, <1>7 DEF CheckRunning, IsRunning, Goto, TypeOK
<1>8. CASE Extract
  <2>1. /\ worker.pc = "extract" /\ worker'.pc \notin {"reset", "check", "extract"}
        /\ UNCHANGED <<receiver, arrived, owner>>
    BY <1>8 DEF Extract, Elsewhere, TypeOK
  <2>2. Len(queue') = Len(queue) - 1
    BY <1>8, Queueing DEF Extract, TypeOK
  <2> QED
    BY <2>1, <2>2, <1>0 DEF WakesHaveEntries, ExtractNeverBlocks, Count, SetEventDone
<1>9. CASE QueryDisplayProperties \/ Reauthenticate \/ QueryEDID
  BY <1>9, <1>1 DEF QueryDisplayProperties, Reauthenticate, QueryEDID, AfterHdcp, Goto,
                    Elsewhere, TypeOK
<1>10. CASE Return
  <2>1. /\ worker.pc \in {"return", "parked"} /\ worker'.pc \in {"lock", "parked", "over"}
        /\ UNCHANGED <<receiver, queue, arrived, owner>>
    BY <1>10, AfterAssumption DEF Return, Goto, Elsewhere, TypeOK
  <2> QED
    BY <2>1, <1>1
<1>11. CASE WorkerDangles
  <2>1. worker'.pc = "dangling" /\ UNCHANGED <<receiver, queue, arrived, owner>>
    BY <1>11 DEF WorkerDangles, Goto, Elsewhere, TypeOK
  <2>2. worker.pc # "reset" \/ SetEventDone
    BY <1>11 DEF WorkerDangles, Touches, QueueGone, DisplayGone, SetEventDone
  <2> QED
    BY <2>1, <2>2, <1>0 DEF WakesHaveEntries, ExtractNeverBlocks, Count, SetEventDone
<1>12. CASE ReceiverDangles
  BY <1>12, <1>0 DEF ReceiverDangles, QueueGone, WakesHaveEntries, ExtractNeverBlocks, SetEventDone
<1>13. CASE Destroy
  <2>1. UNCHANGED <<receiver, queue, worker>>
    BY <1>13 DEF Destroy, Stop, ReleaseProperties, DestroyDisplay, WakeWorker, DestroyQueue,
       JoinWorker, CloseSocket, Reach
  <2>2. SetEventDone' \/ (~SetEventDone /\ arrived' = arrived)
    BY <1>13 DEF Destroy, Stop, ReleaseProperties, DestroyDisplay, WakeWorker, DestroyQueue,
       JoinWorker, CloseSocket, Reach, SetEventDone
  <2> QED
    BY <2>1, <2>2 DEF WakesHaveEntries, ExtractNeverBlocks, SetEventDone
<1>14. CASE (\E d \in DevTypes : Change(d)) \/ Configure \/ UNCHANGED vars
  BY <1>14, <1>2 DEF Change, Configure, vars
<1> QED
  BY <1>3, <1>4, <1>5, <1>6, <1>7, <1>8, <1>9, <1>10, <1>11, <1>12, <1>13, <1>14
  DEF Next, Receiver, Worker, Rest

\* The invariant of the event queue holds in every reachable state.
LEMMA Invariant == Spec => []IInv
<1>1. IInv /\ [Next]_vars => IInv'
  BY NextTypeOK, NextWakes DEF IInv
<1> QED
  BY InitIInv, <1>1, PTL DEF Spec

\* The socket thread and the event thread keep every variable in its type; in
\* particular only an HDMI_CHANGE rereads the connector and the EDID.
THEOREM TypeCorrect == Spec => []TypeOK
<1>1. IInv => TypeOK
  BY DEF IInv
<1> QED
  BY Invariant, <1>1, PTL

\* EventQueue::Worker never waits in Extract for an entry, whatever the order in
\* which Post pushes and signals, the worker waits, resets and takes, and the
\* destructor stops the thread and wakes it.
THEOREM WorkerNeverStarves == Spec => []ExtractNeverBlocks
<1>1. IInv => ExtractNeverBlocks
  BY DEF IInv
<1> QED
  BY Invariant, <1>1, PTL

\* Until the destructor wakes the thread, each wake-up on its way has an entry of
\* its own in the queue.
THEOREM WakesAreBacked == Spec => []WakesHaveEntries
<1>1. IInv => WakesHaveEntries
  BY DEF IInv
<1> QED
  BY Invariant, <1>1, PTL

-----------------------------------------------------------------------------
(* An empty queue is fresh.  While the object lives, each part of the      *)
(* display that is not up to date is still to be read, by the event in     *)
(* hand or by one in the queue.                                            *)

Queued == \E i \in 1..Len(queue) : queue[i] = "HDMI_CHANGE"

FreshConnector == display.connector >= announced["connector"]
FreshHdcp == display.hdcp >= announced["hdcp"]
FreshEdid == display.edid # <<>> => display.edid[Len(display.edid)] >= announced["edid"]

ToBeRead ==
  display # Null /\ owner = "alive" =>
    /\ FreshConnector \/ Queued \/ worker.pc = "query"
    /\ FreshHdcp \/ queue # <<>> \/ worker.pc \in {"query", "reauthenticate"}
    /\ FreshEdid \/ Queued \/ worker.pc \in {"query", "edid"}
         \/ (worker.pc = "reauthenticate" /\ worker.event = "HDMI_CHANGE")

\* Before Configure has set _display no entry is taken, or the thread dies of it.
ToBeTaken ==
  display = Null /\ worker.pc # "crashed" =>
    /\ announced["connector"] = 0 \/ Queued
    /\ announced["hdcp"] = 0 \/ queue # <<>>
    /\ announced["edid"] = 0 \/ Queued

DisplayTyped == display \in Readings \union {Null}
AnnouncedHappened == \A p \in Parts : announced[p] <= world[p]

ConfigureSetsOnce == configure.pc # "done" => display = Null

ReadsSomething == worker.pc \in {"query", "reauthenticate", "edid"} => display # Null

FreshInv == DisplayTyped /\ ReadsSomething /\ AnnouncedHappened /\ ToBeRead /\ ToBeTaken

\* What is in a queue after an entry is added or taken.
LEMMA QueueContents ==
  ASSUME TypeOK
  PROVE  /\ \A e \in Sources : queue' = Append(queue, e) =>
              queue' # <<>> /\ (Queued' <=> Queued \/ e = "HDMI_CHANGE")
         /\ queue # <<>> /\ queue' = Tail(queue) /\ Head(queue) # "HDMI_CHANGE" =>
              (Queued' <=> Queued)
         /\ Queued => queue # <<>>
<1>1. queue \in Seq(Sources) /\ Len(queue) \in Nat
  BY Queueing DEF TypeOK
<1>2. ASSUME NEW e \in Sources, queue' = Append(queue, e)
      PROVE  queue' # <<>> /\ (Queued' <=> Queued \/ e = "HDMI_CHANGE")
  <2>1. /\ Len(queue') = Len(queue) + 1 /\ queue' # <<>>
        /\ \A i \in 1..Len(queue) : queue'[i] = queue[i]
        /\ queue'[Len(queue) + 1] = e
    BY <1>1, <1>2
  <2> QED BY <1>1, <2>1 DEF Queued
<1>3. ASSUME queue # <<>>, queue' = Tail(queue), Head(queue) # "HDMI_CHANGE"
      PROVE  Queued' <=> Queued
  <2>1. /\ Len(queue') = Len(queue) - 1 /\ Len(queue) > 0 /\ queue[1] # "HDMI_CHANGE"
        /\ \A i \in 1..Len(queue) - 1 : queue'[i] = queue[i + 1]
    BY <1>1, <1>3
  <2>2. ASSUME NEW i \in 1..Len(queue), queue[i] = "HDMI_CHANGE" PROVE Queued'
    <3>1. i - 1 \in 1..Len(queue') /\ queue'[i - 1] = queue[i]
      BY <1>1, <2>1, <2>2
    <3> QED BY <2>2, <3>1 DEF Queued
  <2>3. ASSUME NEW i \in 1..Len(queue'), queue'[i] = "HDMI_CHANGE" PROVE Queued
    <3>1. i + 1 \in 1..Len(queue) /\ queue'[i] = queue[i + 1]
      BY <1>1, <2>1
    <3> QED BY <2>3, <3>1 DEF Queued
  <2> QED BY <2>2, <2>3 DEF Queued
<1> QED BY <1>1, <1>2, <1>3 DEF Queued

\* Configure sets _display, and nothing unsets it.
LEMMA SetsOnce ==
  ASSUME ReadsSomething, ConfigureSetsOnce, [Next]_vars
  PROVE  ConfigureSetsOnce'
<1> USE DEF ConfigureSetsOnce, kernel, Elsewhere
<1>1. ASSUME UNCHANGED <<display, configure>> PROVE ConfigureSetsOnce'
  BY <1>1
<1>2. CASE (\E d \in DevTypes : Change(d)) \/ Receiver \/ Destroy \/ Rest \/ UNCHANGED vars
  BY <1>1, <1>2 DEF Change, Receiver, ReceiveData, SetArrived, ReceiverDangles, Destroy, Stop,
     ReleaseProperties, DestroyDisplay, WakeWorker, DestroyQueue, JoinWorker, CloseSocket, Reach,
     Rest, vars
<1>3. CASE QueryDisplayProperties \/ Reauthenticate \/ QueryEDID
  BY <1>3 DEF QueryDisplayProperties, Reauthenticate, QueryEDID, ReadsSomething
<1>4. CASE Lock \/ ResetEvent \/ CheckRunning \/ Extract \/ Return \/ WorkerDangles
  BY <1>1, <1>4 DEF Lock, ResetEvent, CheckRunning, Extract, Return, WorkerDangles
<1>5. CASE Configure
  BY <1>5 DEF Configure, ConstructDisplay, SetDisplay, Built
<1> QED BY <1>2, <1>3, <1>4, <1>5 DEF Next, Worker

LEMMA NextFresh ==
  ASSUME TypeOK, TypeOK', ConfigureSetsOnce, FreshInv, [Next]_vars
  PROVE  FreshInv'
<1> USE DEF FreshInv, kernel, Elsewhere
<1>1. ASSUME UNCHANGED <<world, queue, display, announced>>,
             owner' = "alive" => owner = "alive",
             \/ worker.pc \notin {"query", "reauthenticate", "edid"}
             \/ owner' # "alive"
             \/ worker' = worker,
             worker'.pc \in {"query", "reauthenticate", "edid"} => worker' = worker,
             worker.pc = "crashed" => worker'.pc = "crashed"
      PROVE  FreshInv'
  BY <1>1 DEF DisplayTyped, ReadsSomething, AnnouncedHappened, ToBeRead, ToBeTaken, Queued, FreshConnector, FreshHdcp, FreshEdid
<1>2. ASSUME NEW d \in DevTypes, Change(d) PROVE FreshInv'
  <2>1. AnnouncedHappened'
    BY <1>2 DEF Change, AnnouncedHappened, TypeOK
  <2> QED BY <1>2, <2>1 DEF Change, DisplayTyped, ReadsSomething, ToBeRead, ToBeTaken, Queued, FreshConnector, FreshHdcp,
              FreshEdid
<1>3. CASE ReceiveData
  <2> DEFINE devtype == Head(messages)
  <2>1. UNCHANGED <<world, worker, display, owner>>
    BY <1>3 DEF ReceiveData
  <2>2. CASE UNCHANGED <<queue, announced>>
    BY <1>1, <2>1, <2>2
  <2>3. CASE devtype = "hdcp" /\ queue' = Append(queue, "HDCP_CHANGE")
             /\ announced' = [announced EXCEPT !["hdcp"] = world["hdcp"]]
    <3>1. queue' # <<>> /\ (Queued' <=> Queued)
      BY <2>3, QueueContents DEF Sources
    <3>2. AnnouncedHappened'
      BY <2>1, <2>3 DEF AnnouncedHappened, TypeOK, Parts
    <3>3. announced'["connector"] = announced["connector"] /\ announced'["edid"] = announced["edid"]
      BY <2>3 DEF TypeOK, Parts
    <3> QED BY <2>1, <3>1, <3>2, <3>3 DEF DisplayTyped, ReadsSomething, ToBeRead, ToBeTaken, FreshConnector, FreshEdid
  <2>4. CASE queue' = Append(queue, "HDMI_CHANGE") /\ announced' = world
    <3>1. queue' # <<>> /\ Queued'
      BY <2>4, QueueContents DEF Sources
    <3>2. AnnouncedHappened'
      BY <2>1, <2>4 DEF AnnouncedHappened, TypeOK
    <3> QED BY <2>1, <3>1, <3>2 DEF DisplayTyped, ReadsSomething, ToBeRead, ToBeTaken
  <2>5. \/ UNCHANGED <<queue, announced>>
        \/ devtype \in {"hdcp", "drm_minor"} /\ queue' = Append(queue, SourceOf(devtype))
           /\ announced' = [p \in Parts |-> IF p \in PartsOf(devtype) THEN world[p]
                                           ELSE announced[p]]
    BY <1>3 DEF ReceiveData
  <2>6. world \in [Parts -> Nat] /\ announced \in [Parts -> Nat]
    BY DEF TypeOK
  <2>7. CASE devtype = "hdcp" /\ ~ UNCHANGED <<queue, announced>>
    <3>1. announced' = [announced EXCEPT !["hdcp"] = world["hdcp"]]
      BY <2>5, <2>6, <2>7 DEF PartsOf, Parts
    <3>2. queue' = Append(queue, "HDCP_CHANGE")
      BY <2>5, <2>7 DEF SourceOf
    <3> QED BY <2>3, <2>7, <3>1, <3>2
  <2>8. CASE devtype = "drm_minor" /\ ~ UNCHANGED <<queue, announced>>
    <3>1. announced' = [p \in Parts |-> world[p]]
      BY <2>5, <2>8 DEF PartsOf
    <3>2. announced' = world
      BY <2>6, <3>1
    <3>3. queue' = Append(queue, "HDMI_CHANGE")
      BY <2>5, <2>8 DEF SourceOf
    <3> QED BY <2>4, <3>2, <3>3
  <2> QED BY <2>2, <2>5, <2>7, <2>8
<1>4. CASE SetArrived \/ ReceiverDangles
  BY <1>1, <1>4 DEF SetArrived, ReceiverDangles
<1>5. CASE Lock \/ ResetEvent \/ CheckRunning \/ Return
  BY <1>1, <1>5, AfterAssumption DEF Lock, ResetEvent, CheckRunning, Return, Goto, TypeOK
<1>6. CASE WorkerDangles
  BY <1>1, <1>6 DEF WorkerDangles, Touches, DisplayGone, QueueGone, Goto, TypeOK
<1>7. CASE Extract
  <2>1. UNCHANGED <<world, display, announced, owner>> /\ queue # <<>> /\ queue' = Tail(queue)
    BY <1>7 DEF Extract
  <2>2. display # Null =>
          /\ Head(queue) = "HDMI_CHANGE" => worker'.pc = "query"
          /\ Head(queue) # "HDMI_CHANGE" => worker'.pc = "reauthenticate"
    BY <1>7, <2>1, Queueing DEF Extract, TypeOK, Sources
  <2>3. display = Null => worker'.pc = "crashed"
    BY <1>7 DEF Extract
  <2>4. Head(queue) # "HDMI_CHANGE" => (Queued' <=> Queued)
    BY <2>1, QueueContents
  <2>5. worker.pc = "extract"
    BY <1>7 DEF Extract
  <2> QED BY <2>1, <2>2, <2>3, <2>4, <2>5 DEF DisplayTyped, ReadsSomething, AnnouncedHappened, ToBeRead,
              ToBeTaken, FreshConnector, FreshEdid
<1>8. CASE QueryDisplayProperties
  <2>1. /\ UNCHANGED <<world, queue, announced, owner>> /\ worker.pc = "query"
        /\ worker'.pc = "reauthenticate" /\ worker'.event = "HDMI_CHANGE"
        /\ display' = WithConnector(display)
    BY <1>8 DEF QueryDisplayProperties, Goto, TypeOK
  <2>2. /\ display \in Readings /\ display' \in Readings
        /\ display'.connector = world["connector"]
    BY <2>1, ReadingIsTyped DEF ReadsSomething, DisplayTyped, TypeOK
  <2>3. FreshConnector'
    BY <2>1, <2>2 DEF FreshConnector, AnnouncedHappened, TypeOK, Parts
  <2> QED BY <2>1, <2>2, <2>3, NullAssumption
          DEF DisplayTyped, ReadsSomething, AnnouncedHappened, ToBeRead, ToBeTaken
<1>9. CASE Reauthenticate
  <2>1. /\ UNCHANGED <<world, queue, announced, owner>> /\ worker.pc = "reauthenticate"
        /\ worker.event = "HDMI_CHANGE" => worker'.pc = "edid"
        /\ display' = WithHDCP(display)
    BY <1>9 DEF Reauthenticate, AfterHdcp, Goto, TypeOK
  <2>2. /\ display \in Readings /\ display' \in Readings /\ display'.hdcp = world["hdcp"]
        /\ display'.connector = display.connector /\ display'.edid = display.edid
    BY <2>1, ReadingIsTyped DEF ReadsSomething, DisplayTyped, TypeOK
  <2>3. FreshHdcp'
    BY <2>1, <2>2 DEF FreshHdcp, AnnouncedHappened, TypeOK, Parts
  <2>4. (FreshConnector' <=> FreshConnector) /\ (FreshEdid' <=> FreshEdid) /\ (Queued' <=> Queued)
    BY <2>1, <2>2 DEF FreshConnector, FreshEdid, Queued
  <2> QED BY <2>1, <2>2, <2>3, <2>4, NullAssumption
          DEF DisplayTyped, ReadsSomething, AnnouncedHappened, ToBeRead, ToBeTaken
<1>10. CASE QueryEDID
  <2>1. /\ UNCHANGED <<world, queue, announced, owner>> /\ worker.pc = "edid"
        /\ worker'.pc = "return"
        /\ display' \in WithEDID(display)
    BY <1>10 DEF QueryEDID, Goto, TypeOK
  <2>2. /\ display \in Readings /\ display' \in Readings
        /\ display'.connector = display.connector /\ display'.hdcp = display.hdcp
        /\ display'.edid # <<>> => display'.edid[Len(display'.edid)] = world["edid"]
    BY <2>1, ReadingIsTyped DEF ReadsSomething, DisplayTyped, TypeOK
  <2>3. FreshEdid'
    BY <2>1, <2>2 DEF FreshEdid, AnnouncedHappened, TypeOK, Parts
  <2>4. (FreshConnector' <=> FreshConnector) /\ (FreshHdcp' <=> FreshHdcp) /\ (Queued' <=> Queued)
    BY <2>1, <2>2 DEF FreshConnector, FreshHdcp, Queued
  <2> QED BY <2>1, <2>2, <2>3, <2>4, NullAssumption
          DEF DisplayTyped, ReadsSomething, AnnouncedHappened, ToBeRead, ToBeTaken
<1>11. CASE Configure
  <2>1. UNCHANGED <<world, announced, queue, worker, owner>> /\ worker.pc # "crashed"
    BY <1>11 DEF Configure
  <2>2. CASE ConstructDisplay
    BY <1>1, <2>1, <2>2 DEF ConstructDisplay
  <2>3. CASE SetDisplay
    <3>1. /\ display' \in Readings /\ display' # Null
          /\ display'.connector \in Nat /\ display'.hdcp \in Nat /\ display'.edid \in Seq(Nat)
      BY <2>3, NullAssumption DEF SetDisplay, TypeOK, Readings
    <3>2. display'.edid # <<>> => display'.edid[Len(display'.edid)] \in Nat
      BY <3>1
    <3>3. announced["connector"] \in Nat /\ announced["hdcp"] \in Nat /\ announced["edid"] \in Nat
      BY DEF TypeOK, Parts
    <3>4. display = Null => /\ FreshConnector' \/ Queued'
                            /\ FreshHdcp' \/ queue # <<>>
                            /\ FreshEdid' \/ Queued'
      BY <2>1, <3>1, <3>2, <3>3
      DEF ToBeTaken, FreshConnector, FreshHdcp, FreshEdid, Queued
    <3>5. display = Null
      BY <1>11, <2>3 DEF ConfigureSetsOnce, SetDisplay
    <3> QED BY <2>1, <3>1, <3>4, <3>5
            DEF DisplayTyped, ReadsSomething, AnnouncedHappened, ToBeRead, ToBeTaken
  <2> QED BY <1>11, <2>2, <2>3 DEF Configure
<1>12. CASE Destroy
  <2>1. UNCHANGED <<world, queue, display, announced, worker>> /\ owner' # "alive"
    BY <1>12 DEF Destroy, Stop, ReleaseProperties, DestroyDisplay, WakeWorker, DestroyQueue,
       JoinWorker, CloseSocket, Reach
  <2> QED BY <1>1, <2>1
<1>13. CASE UNCHANGED vars
  BY <1>1, <1>13 DEF vars
<1> QED
  BY <1>2, <1>3, <1>4, <1>5, <1>6, <1>7, <1>8, <1>9, <1>10, <1>11, <1>12, <1>13
  DEF Next, Receiver, Worker, Rest

\* With the queue empty and the thread back from its work, the display's
\* properties are as new as every message Post has accepted, for any queue limit
\* and any order of hdcp and drm_minor messages.
THEOREM EmptyQueueFresh == Spec => []EmptyQueueIsFresh
<1>1. Init => FreshInv /\ ConfigureSetsOnce
  BY NullAssumption
  DEF Init, FreshInv, ConfigureSetsOnce, DisplayTyped, ReadsSomething, AnnouncedHappened,
      ToBeRead, ToBeTaken, Never, Parts
<1>2. TypeOK /\ TypeOK' /\ FreshInv /\ ConfigureSetsOnce /\ [Next]_vars =>
        FreshInv' /\ ConfigureSetsOnce'
  BY NextFresh, SetsOnce DEF FreshInv
<1>3. TypeOK /\ FreshInv => EmptyQueueIsFresh
  BY QueueContents DEF FreshInv, ToBeRead, FreshConnector, FreshHdcp, FreshEdid, EmptyQueueIsFresh
<1> QED BY <1>1, <1>2, <1>3, TypeCorrect, PTL DEF Spec
=============================================================================
