---------------------------- MODULE LinuxEvents ----------------------------
(***************************************************************************)
(* Display changes in the Linux/DRM backend: the kernel announces a change *)
(* by a udev message, the socket thread queues it (UdevObserverType,       *)
(* EventQueue::Post) and the EventQueue thread reads the connector, the    *)
(* HDCP level and the EDID again (EventQueue::Worker, DisplayProperties).  *)
(* Queries answer from what was read last.  The destructor stops the       *)
(* thread, and the members then go one after the other, the last declared  *)
(* first, while both threads may still use them.                           *)
(*                                                                         *)
(* Core::QueueType, Core::Event and Core::Thread are external.  The event  *)
(* is manual-reset.  Post may refuse an entry when the queue is at its     *)
(* limit.  Worker returns Core::infinite, the time to the thread's next    *)
(* turn: AfterInfinite says whether there is one.  Stop ends the turns and *)
(* does not wait; ~Thread and the closing of the socket wait.  Using a     *)
(* member that is gone leaves a thread dangling.                           *)
(***************************************************************************)
EXTENDS Naturals, Sequences

CONSTANTS
  Null,           \* nullptr
  Limit,          \* _eventQueue(4, *this)
  AfterInfinite,  \* subset of {"lock", "parked"}: what Worker's thread does next
  MaxChanges      \* bound: changes of the display

ASSUME BoundsAssumption == Limit \in Nat \ {0} /\ MaxChanges \in Nat
\* What DisplayProperties has read: the number of the change it saw of each part.
Readings == [connector : Nat, hdcp : Nat, edid : Seq(Nat)]
ASSUME NullAssumption == Null \notin Readings
ASSUME AfterAssumption == AfterInfinite \subseteq {"lock", "parked"} /\ AfterInfinite # {}

VARIABLES
  world,      \* how often each part of the display has changed
  messages,   \* udev messages not received yet
  receiver,   \* the socket thread in EventQueue::Post
  queue,      \* _eventQueue
  arrived,    \* _arrived
  worker,     \* the EventQueue thread: where it is, and the event it handles
  display,    \* _display: what was read last, Null until Configure has set it
  configure,  \* Configure: where it is, and the DisplayProperties it builds
  announced,  \* world as of the last accepted event about each part
  changes,    \* udev messages sent so far
  owner       \* how far the destructor of the object has come

kernel == <<world, messages, changes>>
vars == <<kernel, receiver, queue, arrived, worker, display, configure, announced, owner>>

Parts == {"connector", "hdcp", "edid"}
DevTypes == {"hdcp", "drm_minor", "other"}
Sources == {"HDCP_CHANGE", "HDMI_CHANGE"}
WorkerPCs == {"lock", "reset", "check", "extract", "query", "reauthenticate", "edid",
              "return", "parked", "over", "crashed", "dangling"}
Stages == {"alive", "stopped", "released", "undisplayed", "woken", "unqueued", "joined", "gone",
           "crashed"}
ConfigurePCs == {"begin", "reauthenticate", "edid", "set", "done"}
Never == [p \in Parts |-> 0]
Blank == [connector |-> 0, hdcp |-> 0, edid |-> <<>>]

Init ==
  /\ world = Never /\ announced = Never
  /\ messages = <<>> /\ queue = <<>>
  /\ receiver = "idle" /\ arrived = FALSE
  /\ worker = [pc |-> "lock", event |-> "HDMI_CHANGE"]
  /\ display = Null /\ configure = [pc |-> "begin", built |-> Blank]
  /\ changes = 0 /\ owner = "alive"

\* The parts a message of the kernel is about.
PartsOf(devtype) ==
  CASE devtype = "hdcp" -> {"hdcp"}
    [] devtype = "drm_minor" -> Parts
    [] OTHER -> {}

\* The kernel: a change and its message, which the socket may drop and the
\* bloom-filter test of ReceiveData may reject.
Change(devtype) ==
  /\ changes < MaxChanges
  /\ changes' = changes + 1
  /\ world' = [p \in Parts |-> IF p \in PartsOf(devtype) THEN world[p] + 1 ELSE world[p]]
  /\ messages' \in {messages, Append(messages, devtype)}
  /\ UNCHANGED <<receiver, queue, arrived, worker, display, configure, announced, owner>>
-----------------------------------------------------------------------------
(* The socket thread.                                                      *)

Swapped(devtype) == IF devtype = "hdcp" THEN "HDMI_CHANGE" ELSE "HDCP_CHANGE"
SourceOf(devtype) == IF devtype = "hdcp" THEN "HDCP_CHANGE" ELSE "HDMI_CHANGE"

DisplayGone == owner \in {"undisplayed", "woken", "unqueued", "joined", "gone"}
QueueGone == owner \in {"unqueued", "joined", "gone"}
SetEventDone == owner \in {"woken", "unqueued", "joined", "gone"}

\* ReceiveData calls the callback registered for the devtype, if there is one,
\* and that Post, which enters the queue or refuses.
ReceiveData ==
  /\ messages # <<>> /\ receiver = "idle" /\ ~QueueGone
  /\ messages' = Tail(messages)
  /\ LET devtype == Head(messages)
         source == SourceOf(devtype)
     IN \/ /\ devtype \in {"hdcp", "drm_minor"}
           /\ queue' = Append(queue, source)
           /\ announced' = [p \in Parts |-> IF p \in PartsOf(devtype) THEN world[p]
                                            ELSE announced[p]]
           /\ receiver' = "set"
        \/ /\ devtype \in {"hdcp", "drm_minor"} => Len(queue) >= Limit
           /\ UNCHANGED <<queue, announced, receiver>>
  /\ UNCHANGED <<world, arrived, worker, display, configure, changes, owner>>

SetArrived ==
  /\ receiver = "set" /\ ~QueueGone
  /\ arrived' = TRUE
  /\ receiver' = "idle"
  /\ UNCHANGED <<kernel, queue, worker, display, configure, announced, owner>>

\* _udevObserver outlives _eventQueue, which its callback posts to.
ReceiverDangles ==
  /\ QueueGone /\ owner # "gone"
  /\ \/ receiver = "set"
     \/ receiver = "idle" /\ messages # <<>> /\ Head(messages) \in {"hdcp", "drm_minor"}
  /\ receiver' = "dangling"
  /\ UNCHANGED <<kernel, queue, arrived, worker, display, configure, announced, owner>>
-----------------------------------------------------------------------------
(* The EventQueue thread.                                                  *)

Goto(pc) == worker' = [worker EXCEPT !.pc = pc]
Elsewhere == <<kernel, receiver, configure, announced, owner>>

\* The thread's next statement uses a member that is gone.
Touches ==
  \/ DisplayGone /\ worker.pc \in {"query", "reauthenticate", "edid"}
  \/ QueueGone /\ (worker.pc \in {"reset", "extract"} \/ (worker.pc = "lock" /\ arrived))

WorkerDangles ==
  /\ Touches
  /\ Goto("dangling")
  /\ UNCHANGED <<Elsewhere, queue, arrived, display>>

Lock ==
  /\ worker.pc = "lock" /\ arrived
  /\ Goto("reset")
  /\ UNCHANGED <<Elsewhere, queue, arrived, display>>

ResetForgotten == arrived
AfterReset == FALSE

ResetEvent ==
  /\ worker.pc = "reset"
  /\ arrived' = AfterReset
  /\ Goto("check")
  /\ UNCHANGED <<Elsewhere, queue, display>>

RunsOn == TRUE
IsRunning == owner = "alive"

CheckRunning ==
  /\ worker.pc = "check"
  /\ Goto(IF IsRunning THEN "extract" ELSE "return")
  /\ UNCHANGED <<Elsewhere, queue, arrived, display>>

\* Extract(eventType, Core::infinite): one entry, however many there are.
Extract ==
  /\ worker.pc = "extract" /\ queue # <<>>
  /\ queue' = Tail(queue)
  /\ worker' = [pc |-> IF display = Null THEN "crashed"
                       ELSE IF Head(queue) = "HDCP_CHANGE" THEN "reauthenticate" ELSE "query",
                event |-> Head(queue)]
  /\ UNCHANGED <<Elsewhere, arrived, display>>

\* RequeryProperties reads the three parts in three lock sections.  _edid is not
\* cleared: the bytes of the file are pushed behind those of earlier reads, and
\* a file that cannot be opened empties it.
WithConnector(d) == [d EXCEPT !.connector = world["connector"]]
WithHDCP(d) == [d EXCEPT !.hdcp = world["hdcp"]]
WithEDID(d) == {[d EXCEPT !.edid = Append(@, world["edid"])], [d EXCEPT !.edid = <<>>]}

QueryDisplayProperties ==
  /\ worker.pc = "query"
  /\ display' = WithConnector(display)
  /\ Goto("reauthenticate")
  /\ UNCHANGED <<Elsewhere, queue, arrived>>

AlwaysEdid(source) == "edid"
AfterHdcp(source) == IF source = "HDCP_CHANGE" THEN "return" ELSE "edid"

Reauthenticate ==
  /\ worker.pc = "reauthenticate"
  /\ display' = WithHDCP(display)
  /\ Goto(AfterHdcp(worker.event))
  /\ UNCHANGED <<Elsewhere, queue, arrived>>

QueryEDID ==
  /\ worker.pc = "edid"
  /\ display' \in WithEDID(display)
  /\ Goto("return")
  /\ UNCHANGED <<Elsewhere, queue, arrived>>

\* Stop() ends a thread at its next turn, one that sleeps too.
Return ==
  /\ worker.pc = "return" \/ (worker.pc = "parked" /\ owner # "alive")
  /\ IF owner = "alive" THEN \E next \in AfterInfinite : Goto(next) ELSE Goto("over")
  /\ UNCHANGED <<Elsewhere, queue, arrived, display>>

Worker ==
  \/ ~Touches /\ \/ Lock \/ ResetEvent \/ CheckRunning \/ Extract \/ QueryDisplayProperties
                 \/ Reauthenticate \/ QueryEDID \/ Return
  \/ WorkerDangles
Receiver == ReceiveData \/ SetArrived \/ ReceiverDangles
-----------------------------------------------------------------------------
(* Configure, on the thread that activates the plugin, while the other     *)
(* threads already run: DisplayProperties's constructor reads the three    *)
(* parts, and only then is _display set.                                   *)

Built(pc, d) == configure' = [pc |-> pc, built |-> d]

ConstructDisplay ==
  /\ \/ configure.pc = "begin" /\ Built("reauthenticate", WithConnector(configure.built))
     \/ configure.pc = "reauthenticate" /\ Built("edid", WithHDCP(configure.built))
     \/ configure.pc = "edid" /\ \E d \in WithEDID(configure.built) : Built("set", d)
  /\ UNCHANGED display

SetDisplay ==
  /\ configure.pc = "set"
  /\ display' = configure.built
  /\ Built("done", Blank)

Configure ==
  /\ worker.pc # "crashed" /\ owner = "alive"
  /\ ConstructDisplay \/ SetDisplay
  /\ UNCHANGED <<kernel, receiver, queue, arrived, worker, announced, owner>>
-----------------------------------------------------------------------------
(* Destruction.                                                            *)

Reach(stage) ==
  /\ owner' = stage
  /\ UNCHANGED <<kernel, receiver, queue, worker, display, configure, announced>>

\* Nobody releases the object inside its Configure.  _activity.Revoke() has no
\* job to wait for.
Stop ==
  /\ owner = "alive" /\ worker.pc # "crashed" /\ configure.pc \in {"begin", "done"}
  /\ Reach("stopped") /\ UNCHANGED arrived

\* _graphics->Release() and _hdr->Release(), null before Configure.
ReleaseProperties ==
  /\ owner = "stopped"
  /\ Reach(IF display = Null THEN "crashed" ELSE "released")
  /\ UNCHANGED arrived

DestroyDisplay == owner = "released" /\ Reach("undisplayed") /\ UNCHANGED arrived

Unsignalled == arrived
Signalled == TRUE

\* ~EventQueue wakes the thread; its members go before ~Thread waits for it.
WakeWorker == owner = "undisplayed" /\ Reach("woken") /\ arrived' = Signalled
DestroyQueue == owner = "woken" /\ Reach("unqueued") /\ UNCHANGED arrived
JoinWorker == owner = "unqueued" /\ worker.pc = "over" /\ Reach("joined") /\ UNCHANGED arrived
CloseSocket == owner = "joined" /\ receiver = "idle" /\ Reach("gone") /\ UNCHANGED arrived

Destroy ==
  \/ Stop \/ ReleaseProperties \/ DestroyDisplay \/ WakeWorker \/ DestroyQueue
  \/ JoinWorker \/ CloseSocket

\* The threads wait for changes that will not come, or the process is gone.
Rest ==
  /\ \/ worker.pc \in {"parked", "over", "crashed", "dangling"}
     \/ worker.pc = "lock" /\ ~arrived
  /\ UNCHANGED vars

Next == (\E d \in DevTypes : Change(d)) \/ Receiver \/ Worker \/ Configure \/ Destroy \/ Rest

\* A destructor that has begun goes on.
Fairness == WF_vars(Worker) /\ WF_vars(Receiver) /\ WF_vars(owner # "alive" /\ Destroy)
Spec == Init /\ [][Next]_vars /\ Fairness
-----------------------------------------------------------------------------
(* Properties.                                                             *)

TypeOK ==
  /\ world \in [Parts -> Nat] /\ announced \in [Parts -> Nat]
  /\ messages \in Seq(DevTypes) /\ queue \in Seq(Sources)
  /\ receiver \in {"idle", "set", "dangling"} /\ arrived \in BOOLEAN
  /\ worker \in [pc : WorkerPCs, event : Sources]
  /\ worker.pc \in {"query", "edid"} => worker.event = "HDMI_CHANGE"
  /\ configure \in [pc : ConfigurePCs, built : Readings]
  /\ changes \in 0..MaxChanges /\ owner \in Stages

\* The thread never sits in Extract: each wake-up it takes stands for at least
\* one entry nobody else removes, so the infinite wait there, which Stop()
\* could not end, never starts.
ExtractNeverBlocks == worker.pc = "extract" => queue # <<>>

\* Why: each wake-up on its way, one to be set, one set and not yet taken, and
\* one taken and not yet spent, has an entry of its own in the queue, until the
\* destructor sets the event without an entry, which only a stopped thread sees.
Count(b) == IF b THEN 1 ELSE 0
WakesHaveEntries ==
  ~SetEventDone => Count(receiver = "set") + Count(arrived /\ worker.pc # "reset")
    + Count(worker.pc \in {"reset", "check", "extract"}) <= Len(queue)

\* Once the queue is empty and the thread is back, each part has been read
\* after the last change whose message was accepted: rereading in three
\* separate lock sections, in Configure before anyone can see the result, and
\* the HDCP level alone for an hdcp message, leaves nothing behind.
EmptyQueueIsFresh ==
  worker.pc \in {"lock", "parked"} /\ queue = <<>> /\ display # Null /\ owner = "alive" =>
    /\ display.connector >= announced["connector"]
    /\ display.hdcp >= announced["hdcp"]
    /\ display.edid # <<>> => display.edid[Len(display.edid)] >= announced["edid"]

\* A thread that has been woken gets round to it, unless it has been left
\* waiting after Core::infinite, has been stopped, or died for want of a display.
WakeIsServed == arrived ~> (~arrived \/ worker.pc \in {"parked", "crashed"} \/ owner # "alive")

\* The destructor ends: the event it sets without an entry finds a thread that
\* waits in Lock and sends it home, never into the infinite Extract, whatever
\* the thread was doing when Stop came; unless a thread uses what is gone.
DestructionEnds ==
  owner = "stopped" ~> \/ owner \in {"gone", "crashed"}
                       \/ worker.pc = "dangling" \/ receiver = "dangling"

-----------------------------------------------------------------------------
(* What the documents say and the code does not do.                        *)

\* .github/instructions/Pluginlifecycle.instructions.md:189, "Threads must be
\* joined or safely terminated.": no thread uses a member that is gone.
ThreadsEndSafely == worker.pc # "dangling" /\ receiver # "dangling"
=============================================================================
