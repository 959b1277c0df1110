----------------------------- MODULE RPIEvents -----------------------------
(***************************************************************************)
(* Display changes in the Raspberry Pi backend.  VideoCore calls           *)
(* DisplayCallback with the reason of a change, the callback submits       *)
(* _activity, and the job's Dispatch asks for the display state and the    *)
(* EDID and tells the sinks.  The constructor runs a Dispatch of its own   *)
(* before it registers the callback.  It writes the members one after the  *)
(* other and without the lock; the getters, which take no lock, may read   *)
(* between any two of its steps.                                           *)
(*                                                                         *)
(* VideoCore, Core::WorkerPool::JobType and ExtendedDisplayIdentification  *)
(* are external.  A job submitted while it runs is run once more; no       *)
(* callback starts after bcm_host_deinit; a job is over when its JobType   *)
(* is gone.  A display is known by its kind and the number of the change   *)
(* that brought it.                                                        *)
(***************************************************************************)
EXTENDS Naturals, FiniteSets, Sequences, SequencesExt

CONSTANTS
  Sinks,      \* notification sinks of the clients
  MaxChanges  \* bound: changes of the display

ASSUME ChangesAssumption == MaxChanges \in Nat

VARIABLES
  tv,        \* the display VideoCore sees now
  notices,   \* changes VideoCore has not called back for
  announced, \* number of the last change a callback was made for
  object,    \* the object: constructing, ready, closing, gone
  runner,    \* the threads inside Dispatch: where, and their tvState and index
  lock,      \* _adminLock: the thread that holds it, or "free"
  members,   \* _width, _height, _connected, _audioPassthrough: the display
             \* each was written from
  edid,      \* _EDID: the display each segment was read from
  failed,    \* what the last Dispatch could not read
  job,       \* _activity
  observers, \* _observers
  heard      \* per sink: what the getters said when it was last told

outside == <<tv, notices, announced>>
clients == <<observers, heard>>
vars == <<outside, object, runner, lock, members, edid, failed, job, clients>>

Runners == {"constructor", "worker"}
Kinds == {"none", "hdmi", "dvi", "sdtv", "sdtv_mode"}
Displays == [kind : Kinds, change : 0..MaxChanges]
Members == {"width", "height", "connected", "passthrough"}

\* VC_HDMI_ATTACHED, or VC_SDTV_ATTACHED with VC_SDTV_NTSC or VC_SDTV_PAL.
Connected(d) == d.kind \in {"hdmi", "dvi", "sdtv_mode"}
Sized(d) == d.kind # "none"
\* ExtendedDisplayIdentification::Segments, from the first segment's bytes.
Segments(d) == IF d.kind = "hdmi" THEN 2 ELSE 1

NoDisplay == [kind |-> "none", change |-> 0]
Idle == [pc |-> "off", tvState |-> NoDisplay, index |-> 0]
NoMembers == [m \in Members |-> NoDisplay]
\* What a sink that asks the getters from inside Updated is told.
Unheard == [members |-> NoMembers, edid |-> <<>>]

Init ==
  /\ \E kind \in Kinds : tv = [kind |-> kind, change |-> 0]
  /\ notices = <<>> /\ announced = 0
  /\ object = "constructing"
  /\ runner = [r \in Runners |-> IF r = "constructor" THEN [Idle EXCEPT !.pc = "query"]
                                 ELSE Idle]
  /\ lock = "free" /\ job = "idle"
  /\ members = NoMembers
  /\ edid = <<>> /\ failed = {}
  /\ observers = <<>> /\ heard = [s \in Sinks |-> Unheard]
-----------------------------------------------------------------------------
(* VideoCore and the job's state.                                          *)

Change(kind) ==
  /\ tv.change < MaxChanges /\ kind # tv.kind
  /\ kind = "sdtv_mode" => tv.kind = "sdtv"
  /\ tv' = [kind |-> kind, change |-> tv.change + 1]
  /\ notices' = IF object = "ready" THEN Append(notices, tv') ELSE notices
  /\ UNCHANGED <<announced, object, runner, lock, members, edid, failed, job, clients>>

Submitted(j) == CASE j = "running" -> "again" [] j = "idle" -> "submitted" [] OTHER -> j
Ended(j) == IF j = "again" THEN "submitted" ELSE "idle"

\* The reasons DisplayCallback does not ignore, by the display they bring.
ListedButUnplugged == {"hdmi", "dvi", "sdtv"}
Listed == {"none", "hdmi", "dvi", "sdtv"}

DisplayCallback ==
  /\ notices # <<>> /\ object = "ready"
  /\ notices' = Tail(notices)
  /\ job' = IF Head(notices).kind \in Listed THEN Submitted(job) ELSE job
  /\ announced' = IF Head(notices).kind = "sdtv_mode" THEN announced ELSE Head(notices).change
  /\ UNCHANGED <<tv, object, runner, lock, members, edid, failed, clients>>
-----------------------------------------------------------------------------
(* Dispatch, in the constructor and in the job.                            *)

At(r, pc) == runner[r].pc = pc
Goto(r, pc) == runner' = [runner EXCEPT ![r].pc = pc]

RunJob ==
  /\ job = "submitted"
  /\ job' = "running"
  /\ Goto("worker", "query")
  /\ UNCHANGED <<outside, object, lock, members, edid, failed, clients>>

\* vc_tv_get_display_state fills the local tvState or fails; a size of zero is
\* not taken over.
GetDisplayState(r) ==
  /\ At(r, "query")
  /\ \/ /\ runner' = [runner EXCEPT ![r] = [pc |-> IF Sized(tv) THEN "width" ELSE "connected",
                                            tvState |-> tv, index |-> 0]]
        /\ failed' = {}
     \/ Goto(r, "lock") /\ failed' = {"state"}
  /\ UNCHANGED <<outside, object, lock, members, edid, job, clients>>

\* One member after the other, and none of them under the lock.
After == [width |-> "height", height |-> "connected", connected |-> "passthrough",
          passthrough |-> "lock"]

StoreMember(r) ==
  \E m \in Members :
    /\ At(r, m)
    /\ members' = [members EXCEPT ![m] = runner[r].tvState]
    /\ Goto(r, After[m])
    /\ UNCHANGED <<outside, object, lock, edid, failed, job, clients>>

LockAndClear(r) ==
  /\ At(r, "lock") /\ lock = "free"
  /\ lock' = r
  /\ IF Connected(members.connected)
     THEN /\ runner' = [runner EXCEPT ![r] = [pc |-> "edid", tvState |-> NoDisplay, index |-> 1]]
          /\ UNCHANGED edid
     ELSE Goto(r, "tell") /\ edid' = <<>>
  /\ UNCHANGED <<outside, object, members, failed, job, clients>>

\* The EDID with the bytes of segment index put in place.
WithSegment(index, bytes) ==
  SubSeq(edid, 1, index - 1) \o <<bytes>> \o SubSeq(edid, index + 1, Len(edid))

\* The loop goes on while there are segments and each was read in full.
FirstSegmentOnly(index, first) == FALSE
OneTooMany(index, first) == index <= Segments(first)
MoreSegments(index, first) == index < Segments(first)

ReadSegment(r) ==
  /\ At(r, "edid")
  /\ LET index == runner[r].index
     IN \/ /\ tv.kind \in {"hdmi", "dvi"}
           /\ edid' = WithSegment(index, tv)
           /\ runner' = [runner EXCEPT ![r] =
                IF MoreSegments(index, edid'[1]) THEN [@ EXCEPT !.index = index + 1]
                ELSE [@ EXCEPT !.pc = "tell"]]
           /\ UNCHANGED failed
        \/ /\ Goto(r, "tell") /\ failed' = failed \union {"edid"}
           /\ UNCHANGED edid
  /\ UNCHANGED <<outside, object, lock, members, job, clients>>

\* What the getters answer; Raw gives as many segments as the first one says.
Answers == [members |-> members,
            edid |-> IF edid = <<>> THEN <<>>
                     ELSE SubSeq(edid, 1, Min({Len(edid), Segments(edid[1])}))]

\* Every sink hears HDMI_CHANGE under the lock, and may ask the getters.
ToldIfConnected(s) == s \in Range(observers) /\ Connected(members.connected)
Told(s) == s \in Range(observers)

TellSinks(r) ==
  /\ At(r, "tell")
  /\ heard' = [s \in Sinks |-> IF Told(s) THEN Answers ELSE heard[s]]
  /\ lock' = "free"
  /\ runner' = [runner EXCEPT ![r] = Idle]
  /\ job' = IF r = "worker" THEN Ended(job) ELSE job
  /\ UNCHANGED <<outside, object, members, edid, failed, observers>>

Dispatch(r) ==
  \/ GetDisplayState(r) \/ StoreMember(r) \/ LockAndClear(r) \/ ReadSegment(r) \/ TellSinks(r)
-----------------------------------------------------------------------------
(* The object and its clients.                                             *)

\* vc_tv_register_callback, the constructor's last statement.
RegisterFirst == TRUE
MayRegister == At("constructor", "off")

RegisterCallback ==
  /\ object = "constructing" /\ MayRegister
  /\ object' = "ready"
  /\ UNCHANGED <<outside, runner, lock, members, edid, failed, job, clients>>

HostDeinit ==
  /\ object = "ready" /\ At("constructor", "off")
  /\ object' = "closing" /\ notices' = <<>>
  /\ UNCHANGED <<tv, announced, runner, lock, members, edid, failed, job, clients>>

\* ~JobType: the job is revoked or has ended.
DestroyMembers ==
  /\ object = "closing" /\ At("worker", "off")
  /\ object' = "gone" /\ job' = "idle" /\ observers' = <<>>
  /\ UNCHANGED <<outside, runner, lock, members, edid, failed, heard>>

Register(s) ==
  /\ object = "ready" /\ lock = "free" /\ Len(observers) <= Cardinality(Sinks)
  /\ observers' = Append(observers, s)
  /\ heard' = IF Told(s) THEN heard ELSE [heard EXCEPT ![s] = Unheard]
  /\ UNCHANGED <<outside, object, runner, lock, members, edid, failed, job>>

Unregister(s) ==
  /\ object = "ready" /\ lock = "free" /\ s \in Range(observers)
  /\ observers' = RemoveFirst(observers, s)
  /\ UNCHANGED <<outside, object, runner, lock, members, edid, failed, job, heard>>

Rest ==
  /\ job = "idle" /\ notices = <<>> /\ object \in {"ready", "gone"} /\ tv.change = MaxChanges
  /\ UNCHANGED vars

Next ==
  \/ \E kind \in Kinds : Change(kind)
  \/ DisplayCallback \/ RunJob \/ (\E r \in Runners : Dispatch(r))
  \/ RegisterCallback \/ HostDeinit \/ DestroyMembers
  \/ (\E s \in Sinks : Register(s) \/ Unregister(s)) \/ Rest

Fairness ==
  /\ WF_vars(DisplayCallback) /\ WF_vars(RunJob)
  /\ \A r \in Runners : WF_vars(Dispatch(r))
Spec == Init /\ [][Next]_vars /\ Fairness
-----------------------------------------------------------------------------
(* Properties.                                                             *)

TypeOK ==
  /\ tv \in Displays /\ notices \in Seq(Displays) /\ announced \in 0..MaxChanges
  /\ object \in {"constructing", "ready", "closing", "gone"}
  /\ runner \in [Runners -> [pc : {"off", "query", "lock", "edid", "tell"} \union Members,
                             tvState : Displays, index : 0..2]]
  /\ lock \in Runners \union {"free"}
  /\ members \in [Members -> Displays] /\ edid \in Seq(Displays)
  /\ failed \subseteq {"state", "edid"}
  /\ job \in {"idle", "submitted", "running", "again"}
  /\ observers \in Seq(Sinks)
  /\ \A r \in Runners : At(r, "tell") \/ At(r, "edid") <=> lock = r

Quiet == \A r \in Runners : At(r, "off")

\* Once every callback has been made and the job has run, what the getters
\* answer is no older than the last change VideoCore called back for: neither
\* a change during Dispatch, nor one between two segments of the EDID, nor the
\* segments of an earlier display stay behind, unless the last Dispatch could
\* not read them.
SettledIsCurrent ==
  Quiet /\ notices = <<>> /\ job = "idle" /\ object = "ready" =>
    /\ "state" \notin failed => members.connected.change >= announced
    /\ Connected(members.connected) /\ "edid" \notin failed =>
         \A k \in 1..Len(Answers.edid) : Answers.edid[k].change >= announced

\* A thread is inside Dispatch at one of the places in P.
Inside(P) == \E r \in Runners : runner[r].pc \in P

\* What a getter on another thread may read.  Width and height are of two
\* displays only between their two stores, connection and passthrough only
\* between theirs, and the size is not that of the connected display only until
\* _connected is stored: a Dispatch leaves no mixture of two displays behind,
\* although every store is made without the lock.
TornOnlyWhileStoring ==
  /\ members.width # members.height => Inside({"height"})
  /\ members.connected # members.passthrough => Inside({"passthrough"})
  /\ Sized(members.connected) /\ members.width # members.connected =>
       Inside({"height", "connected"})

\* _EDID is cleared exactly when the display is gone.  A getter finds an EDID
\* without a connected display only from the store of _connected to the clear
\* under the lock; and once the Dispatch is over, the EDID of a connected
\* display that could be read has all its segments.
EdidMatchesConnection ==
  /\ ~Connected(members.connected) /\ edid # <<>> => Inside({"passthrough", "lock"})
  /\ Quiet /\ Connected(members.connected) /\ failed = {} =>
       edid # <<>> /\ Len(Answers.edid) = Segments(edid[1])

\* A sink is told after everything has been read: what a sink asked from inside
\* Updated is what the getters go on answering to anyone, until the next
\* Dispatch has stored something.
SinksAgreeWithGetters ==
  (\A r \in Runners : runner[r].pc \in {"off", "query", "width"}) =>
    \A s \in Range(observers) : heard[s] \in {Unheard, Answers}

\* A change called back for reaches every registered sink, and the sink finds
\* it when it asks.
ChangesAreHeard ==
  \A s \in Sinks : \A n \in 1..MaxChanges :
    job \in {"submitted", "again"} /\ announced = n /\ s \in Range(observers)
      ~> \/ heard[s].members.connected.change >= n \/ s \notin Range(observers)
         \/ failed # {} \/ object # "ready"
=============================================================================
