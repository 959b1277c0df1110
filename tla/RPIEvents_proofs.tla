-------------------------- MODULE RPIEvents_proofs --------------------------
(***************************************************************************)
(* Theorems about RPIEvents.  Dispatch stores its members outside the lock *)
(* and tests _connected inside; that no mixture of two displays is left    *)
(* behind and that the EDID still fits the connection rests on             *)
(* OneRunner: the constructor's Dispatch is over before a job can be       *)
(* submitted, and a job does not overlap itself.  That the answers are     *)
(* current rests on ReadingsAreNew: a callback that makes a reading old    *)
(* submits the job again in the same step.                                 *)
(***************************************************************************)
EXTENDS RPIEvents, ListLemmas, SequenceTheorems, TLAPS

\* A thread is inside Dispatch only when no other is.
OneRunner ==
  /\ ~At("constructor", "off") => object = "constructing"
  /\ object = "constructing" => At("worker", "off") /\ job = "idle"
  /\ ~At("worker", "off") <=> job \in {"running", "again"}

\* Where Dispatch is between the segments of the EDID and before it tells.
SegmentsFollowLoop ==
  \A r \in Runners :
    /\ At(r, "edid") =>
         /\ Connected(members.connected) /\ runner[r].index \in 1..2
         /\ runner[r].index = 2 => edid # <<>> /\ Segments(edid[1]) = 2
    /\ At(r, "tell") =>
         /\ ~Connected(members.connected) => edid = <<>>
         /\ Connected(members.connected) /\ failed = {} =>
              edid # <<>> /\ Len(edid) >= Segments(edid[1])

\* And when no Dispatch runs.
SettledEdid ==
  Quiet =>
    /\ ~Connected(members.connected) => edid = <<>>
    /\ Connected(members.connected) /\ failed = {} =>
         edid # <<>> /\ Len(edid) >= Segments(edid[1])

\* Storing a segment keeps the ones before it.
LEMMA WithSegmentProperties ==
  ASSUME edid \in Seq(Displays), NEW d \in Displays, NEW i \in 1..2, i = 2 => edid # <<>>
  PROVE  /\ WithSegment(i, d) \in Seq(Displays)
         /\ WithSegment(i, d) # <<>> /\ Len(WithSegment(i, d)) >= i
         /\ WithSegment(i, d)[i] = d
         /\ i = 2 => WithSegment(i, d)[1] = edid[1]
<1> DEFINE before == SubSeq(edid, 1, i - 1)
           after == SubSeq(edid, i + 1, Len(edid))
<1>1. Len(edid) \in Nat /\ Len(edid) >= i - 1
  BY EmptySeq
<1>2. before \in Seq(Displays) /\ Len(before) = i - 1
      /\ \A j \in 1..i - 1 : before[j] = edid[j]
  BY <1>1
<1>3. after \in Seq(Displays) /\ Len(after) \in Nat
  BY <1>1
<1> HIDE DEF before, after
<1>4. before \o <<d>> \in Seq(Displays) /\ Len(before \o <<d>>) = i
      /\ \A j \in 1..i - 1 : (before \o <<d>>)[j] = before[j]
      /\ (before \o <<d>>)[i] = d
  BY <1>2
<1>5. (before \o <<d>>) \o after \in Seq(Displays)
      /\ Len((before \o <<d>>) \o after) = i + Len(after)
      /\ \A j \in 1..i : ((before \o <<d>>) \o after)[j] = (before \o <<d>>)[j]
  BY <1>3, <1>4
<1>6. WithSegment(i, d) = (before \o <<d>>) \o after
  BY DEF WithSegment, before, after
<1>7. Len(WithSegment(i, d)) >= i /\ WithSegment(i, d) \in Seq(Displays)
  BY <1>3, <1>5, <1>6
<1>8. i = 2 => WithSegment(i, d)[1] = edid[1]
  BY <1>2, <1>4, <1>5, <1>6
<1>9. WithSegment(i, d) # <<>>
  BY <1>7
<1>10. WithSegment(i, d)[i] = d
  BY <1>4, <1>5, <1>6
<1> QED BY <1>7, <1>8, <1>9, <1>10

-----------------------------------------------------------------------------
(* Types, and the lock.                                                    *)

\* TypeOK in three parts.
Records == [pc : {"off", "query", "lock", "edid", "tell"} \union Members,
            tvState : Displays, index : 0..2]
RunnersTyped == runner \in [Runners -> Records] /\ lock \in Runners \union {"free"}
LockFollowsLoop == \A r \in Runners : At(r, "tell") \/ At(r, "edid") <=> lock = r
OthersTyped ==
  /\ tv \in Displays /\ notices \in Seq(Displays) /\ announced \in 0..MaxChanges
  /\ object \in {"constructing", "ready", "closing", "gone"}
  /\ members \in [Members -> Displays] /\ edid \in Seq(Displays)
  /\ failed \subseteq {"state", "edid"}
  /\ job \in {"idle", "submitted", "running", "again"}
  /\ observers \in Seq(Sinks)

LEMMA TypeParts ==
  /\ TypeOK <=> RunnersTyped /\ LockFollowsLoop /\ OthersTyped
  /\ TypeOK' <=> RunnersTyped' /\ LockFollowsLoop' /\ OthersTyped'
BY DEF TypeOK, RunnersTyped, LockFollowsLoop, OthersTyped, Records, At

LEMMA AfterIs ==
  /\ After["width"] = "height" /\ After["height"] = "connected"
  /\ After["connected"] = "passthrough" /\ After["passthrough"] = "lock"
BY DEF After

\* Dispatch moves the thread that runs it and no other.
LEMMA DispatchMoves ==
  ASSUME RunnersTyped, NEW r \in Runners
  PROVE  /\ Dispatch(r) => \A q \in Runners \ {r} : runner'[q] = runner[q]
         /\ GetDisplayState(r) => At(r, "query") /\ runner'[r].pc \in {"width", "connected", "lock"}
         /\ StoreMember(r) => \E m \in Members :
              At(r, m) /\ runner'[r] = [runner[r] EXCEPT !.pc = After[m]]
         /\ StoreMember(r) => runner'[r].pc \in {"height", "connected", "passthrough", "lock"}
         /\ LockAndClear(r) =>
              /\ At(r, "lock")
              /\ Connected(members.connected) =>
                   runner'[r].pc = "edid" /\ runner'[r].index = 1 /\ edid' = edid
              /\ ~Connected(members.connected) => runner'[r].pc = "tell" /\ edid' = <<>>
         /\ ReadSegment(r) => At(r, "edid") /\ runner'[r].pc \in {"edid", "tell"}
         /\ TellSinks(r) => At(r, "tell") /\ runner'[r].pc = "off"
<1> USE DEF RunnersTyped, Records, At, Goto
<1>1. GetDisplayState(r) =>
        /\ At(r, "query") /\ runner'[r].pc \in {"width", "connected", "lock"}
        /\ \A q \in Runners \ {r} : runner'[q] = runner[q]
  BY DEF GetDisplayState
<1>2. ASSUME StoreMember(r)
      PROVE  /\ \E m \in Members : At(r, m) /\ runner'[r] = [runner[r] EXCEPT !.pc = After[m]]
             /\ runner'[r].pc \in {"height", "connected", "passthrough", "lock"}
             /\ \A q \in Runners \ {r} : runner'[q] = runner[q]
  <2>1. PICK m \in Members : At(r, m) /\ Goto(r, After[m])
    BY <1>2 DEF StoreMember
  <2>2. After[m] \in {"height", "connected", "passthrough", "lock"}
    BY AfterIs DEF Members
  <2> QED BY <2>1, <2>2
<1>3. ASSUME LockAndClear(r), Connected(members.connected)
      PROVE  /\ At(r, "lock") /\ runner'[r].pc = "edid" /\ runner'[r].index = 1
             /\ edid' = edid /\ \A q \in Runners \ {r} : runner'[q] = runner[q]
  BY <1>3 DEF LockAndClear
<1>4. ASSUME LockAndClear(r), ~Connected(members.connected)
      PROVE  /\ At(r, "lock") /\ runner'[r].pc = "tell"
             /\ edid' = <<>> /\ \A q \in Runners \ {r} : runner'[q] = runner[q]
  BY <1>4 DEF LockAndClear
<1>5. ReadSegment(r) => /\ At(r, "edid") /\ runner'[r].pc \in {"edid", "tell"}
                        /\ \A q \in Runners \ {r} : runner'[q] = runner[q]
  BY DEF ReadSegment
<1>6. TellSinks(r) => /\ At(r, "tell") /\ runner'[r].pc = "off"
                      /\ \A q \in Runners \ {r} : runner'[q] = runner[q]
  BY DEF TellSinks, Idle
<1> QED BY <1>1, <1>2, <1>3, <1>4, <1>5, <1>6 DEF Dispatch

\* Every step preserves the types of what Dispatch does not write.
LEMMA OthersStep == ASSUME TypeOK, SegmentsFollowLoop, [Next]_vars PROVE OthersTyped'
<1> USE TypeParts, ChangesAssumption DEF OthersTyped, outside, clients
<1>1. ASSUME NEW kind \in Kinds, Change(kind) PROVE OthersTyped'
  <2>1. tv' \in Displays
    BY <1>1 DEF Change, Displays
  <2>2. notices' \in Seq(Displays)
    BY <1>1, <2>1 DEF Change
  <2> QED BY <1>1, <2>1, <2>2 DEF Change
<1>2. CASE DisplayCallback
  <2>1. Head(notices) \in Displays /\ Tail(notices) \in Seq(Displays)
    BY <1>2, HeadTailProperties DEF DisplayCallback
  <2>2. job' \in {"idle", "submitted", "running", "again"}
    BY <1>2 DEF DisplayCallback, Submitted
  <2>3. announced' \in 0..MaxChanges
    BY <1>2, <2>1 DEF DisplayCallback, Displays
  <2> QED BY <1>2, <2>1, <2>2, <2>3 DEF DisplayCallback
<1>3. CASE RunJob
  BY <1>3 DEF RunJob
<1>4. ASSUME NEW r \in Runners, GetDisplayState(r) PROVE OthersTyped'
  BY <1>4 DEF GetDisplayState
<1>5. ASSUME NEW r \in Runners, StoreMember(r) PROVE OthersTyped'
  <2>1. runner[r].tvState \in Displays
    BY DEF RunnersTyped, Records
  <2> QED BY <1>5, <2>1 DEF StoreMember
<1>6. ASSUME NEW r \in Runners, LockAndClear(r) PROVE OthersTyped'
  <2>1. edid' = edid \/ edid' = <<>>
    BY <1>6 DEF LockAndClear
  <2>2. edid' \in Seq(Displays)
    BY <2>1, EmptySeq
  <2> QED BY <1>6, <2>2 DEF LockAndClear
<1>7. ASSUME NEW r \in Runners, ReadSegment(r) PROVE OthersTyped'
  <2>1. runner[r].index \in 1..2 /\ (runner[r].index = 2 => edid # <<>>)
    BY <1>7 DEF ReadSegment, SegmentsFollowLoop
  <2>2. WithSegment(runner[r].index, tv) \in Seq(Displays)
    BY <2>1, WithSegmentProperties
  <2>3. edid' \in Seq(Displays)
    BY <1>7, <2>2 DEF ReadSegment
  <2> QED BY <1>7, <2>3 DEF ReadSegment
<1>8. ASSUME NEW r \in Runners, TellSinks(r) PROVE OthersTyped'
  BY <1>8 DEF TellSinks, Ended
<1>9. CASE RegisterCallback \/ HostDeinit \/ DestroyMembers
  BY <1>9, EmptySeq DEF RegisterCallback, HostDeinit, DestroyMembers
<1>10. ASSUME NEW s \in Sinks, Register(s) PROVE OthersTyped'
  BY <1>10 DEF Register
<1>11. ASSUME NEW s \in Sinks, Unregister(s) PROVE OthersTyped'
  <2>1. RemoveFirst(observers, s) \in Seq(Sinks)
    BY <1>11, RemoveFirstProperties DEF Unregister, Range
  <2> QED BY <1>11, <2>1 DEF Unregister
<1>12. CASE Rest \/ UNCHANGED vars
  BY <1>12 DEF Rest, vars
<1> QED
  BY <1>1, <1>2, <1>3, <1>4, <1>5, <1>6, <1>7, <1>8, <1>9, <1>10, <1>11, <1>12
  DEF Next, Dispatch

\* Every step keeps Dispatch's threads typed and the lock with its section.
LEMMA RunnersStep ==
  ASSUME TypeOK, OneRunner, SegmentsFollowLoop, [Next]_vars
  PROVE  RunnersTyped' /\ LockFollowsLoop'
<1> DEFINE Goal == RunnersTyped' /\ LockFollowsLoop'
<1> USE TypeParts DEF RunnersTyped, LockFollowsLoop, Records, At, Goto, outside, clients
<1>1. ASSUME UNCHANGED <<runner, lock>> PROVE Goal
  BY <1>1
<1>2. ASSUME NEW kind \in Kinds, Change(kind) PROVE Goal
  BY <1>1, <1>2 DEF Change
<1>3. CASE DisplayCallback \/ RegisterCallback \/ HostDeinit \/ DestroyMembers
  BY <1>1, <1>3 DEF DisplayCallback, RegisterCallback, HostDeinit, DestroyMembers
<1>4. ASSUME NEW s \in Sinks, Register(s) \/ Unregister(s) PROVE Goal
  BY <1>1, <1>4 DEF Register, Unregister
<1>5. CASE Rest \/ UNCHANGED vars
  BY <1>1, <1>5 DEF Rest, vars
<1>6. CASE RunJob
  <2>1. At("worker", "off")
    BY <1>6 DEF RunJob, OneRunner
  <2> QED BY <1>6, <2>1 DEF RunJob, Runners
<1>7. ASSUME NEW r \in Runners, GetDisplayState(r) PROVE Goal
  <2>1. RunnersTyped'
    <3>1. \A p \in {"width", "connected"} : [pc |-> p, tvState |-> tv, index |-> 0] \in Records
      BY DEF OthersTyped, Members
    <3> HIDE DEF Records
    <3>2. CASE Goto(r, "lock")
      BY <1>7, <3>2 DEF GetDisplayState, Records
    <3> QED BY <1>7, <3>1, <3>2 DEF GetDisplayState
  <2>2. lock' = lock
    BY <1>7 DEF GetDisplayState
  <2> QED BY <1>7, <2>1, <2>2, DispatchMoves DEF Dispatch
<1>8. ASSUME NEW r \in Runners, StoreMember(r) PROVE Goal
  <2>1. PICK m \in Members : At(r, m) /\ runner' = [runner EXCEPT ![r].pc = After[m]]
    BY <1>8 DEF StoreMember
  <2>2. After[m] \in {"height", "connected", "passthrough", "lock"}
    BY AfterIs DEF Members
  <2>3. RunnersTyped'
    <3>1. lock' = lock
      BY <1>8 DEF StoreMember
    <3> QED BY <2>1, <2>2, <3>1 DEF Members
  <2>4. LockFollowsLoop'
    <3>1. lock' = lock /\ m \notin {"edid", "tell"}
      BY <1>8 DEF StoreMember, Members
    <3> QED BY <2>1, <2>2, <3>1
  <2> QED BY <2>3, <2>4
<1>9. ASSUME NEW r \in Runners, LockAndClear(r) PROVE Goal
  <2>1. runner' \in [Runners -> Records]
    <3>1. [pc |-> "edid", tvState |-> NoDisplay, index |-> 1] \in Records
      BY ChangesAssumption DEF NoDisplay, Displays, Kinds
    <3> HIDE DEF Records
    <3>2. CASE Goto(r, "tell")
      BY <1>9, <3>2 DEF LockAndClear, Records
    <3> QED BY <1>9, <3>1, <3>2 DEF LockAndClear
  <2>2. lock = "free" /\ lock' = r /\ \A q \in Runners : q # "free"
    BY <1>9 DEF LockAndClear, Runners
  <2>3. runner'[r].pc \in {"edid", "tell"}
    BY <1>9, DispatchMoves
  <2>4. RunnersTyped'
    BY <2>1, <2>2
  <2>5. \A q \in Runners \ {r} : runner'[q] = runner[q]
    BY <1>9, DispatchMoves DEF Dispatch
  <2>6. LockFollowsLoop'
    BY <2>2, <2>3, <2>5
  <2> QED BY <2>4, <2>6
<1>10. ASSUME NEW r \in Runners, ReadSegment(r) PROVE Goal
  <2>1. runner[r].index \in 1..2
    BY <1>10 DEF ReadSegment, SegmentsFollowLoop
  <2>2. MoreSegments(runner[r].index, edid'[1]) => runner[r].index + 1 \in 0..2
    BY <2>1 DEF MoreSegments, Segments
  <2> QED BY <1>10, <2>2 DEF ReadSegment
<1>11. ASSUME NEW r \in Runners, TellSinks(r) PROVE Goal
  <2>1. NoDisplay \in Displays
    BY ChangesAssumption DEF NoDisplay, Displays, Kinds
  <2> QED BY <1>11, <2>1 DEF TellSinks, Idle, Runners
<1> QED
  BY <1>2, <1>3, <1>4, <1>5, <1>6, <1>7, <1>8, <1>9, <1>10, <1>11 DEF Next, Dispatch

\* The constructor's Dispatch and the job's never run together.
LEMMA OneRunnerStep == ASSUME TypeOK, OneRunner, [Next]_vars PROVE OneRunner'
<1> USE DEF TypeOK, OneRunner, outside, clients, Runners, At, Goto, Idle
<1>1. ASSUME NEW kind \in Kinds, Change(kind) PROVE OneRunner'
  BY <1>1 DEF Change
<1>2. CASE DisplayCallback \/ RunJob
  BY <1>2 DEF DisplayCallback, Submitted, RunJob
<1>3. ASSUME NEW r \in Runners, GetDisplayState(r) \/ StoreMember(r) PROVE OneRunner'
  <2>1. UNCHANGED <<object, job>>
    BY <1>3 DEF GetDisplayState, StoreMember
  <2>2. ~At(r, "off") /\ ~At(r, "off")'
    BY <1>3, DispatchMoves, TypeParts DEF Members
  <2> QED BY <1>3, <2>1, <2>2, DispatchMoves, TypeParts DEF Dispatch
<1>4. ASSUME NEW r \in Runners, LockAndClear(r) PROVE OneRunner'
  <2>1. UNCHANGED <<object, job>>
    BY <1>4 DEF LockAndClear
  <2>2. ~At(r, "off") /\ ~At(r, "off")'
    BY <1>4, DispatchMoves, TypeParts
  <2> QED BY <1>4, <2>1, <2>2, DispatchMoves, TypeParts DEF Dispatch
<1>5. ASSUME NEW r \in Runners, ReadSegment(r) PROVE OneRunner'
  BY <1>5 DEF ReadSegment
<1>6. ASSUME NEW r \in Runners, TellSinks(r) PROVE OneRunner'
  BY <1>6 DEF TellSinks, Ended
<1>7. CASE RegisterCallback \/ HostDeinit \/ DestroyMembers
  BY <1>7 DEF RegisterCallback, MayRegister, HostDeinit, DestroyMembers
<1>8. ASSUME NEW s \in Sinks, Register(s) \/ Unregister(s) PROVE OneRunner'
  BY <1>8 DEF Register, Unregister
<1>9. CASE Rest \/ UNCHANGED vars
  BY <1>9 DEF Rest, vars
<1> QED BY <1>1, <1>2, <1>3, <1>4, <1>5, <1>6, <1>7, <1>8, <1>9 DEF Next, Dispatch

LEMMA OthersAreOff ==
  ASSUME TypeOK, OneRunner, NEW r \in Runners, ~At(r, "off"), NEW q \in Runners, q # r
  PROVE  At(q, "off")
BY DEF OneRunner, Runners

-----------------------------------------------------------------------------
(* The EDID.                                                               *)

LEMMA SegmentsStep ==
  ASSUME TypeOK, TypeOK', OneRunner, SegmentsFollowLoop, SettledEdid, [Next]_vars
  PROVE  SegmentsFollowLoop' /\ SettledEdid'
<1> DEFINE Goal == SegmentsFollowLoop' /\ SettledEdid'
<1> USE DEF TypeOK, Displays, outside, clients, At, Goto, Idle, Quiet
<1>1. ASSUME UNCHANGED <<runner, members, edid, failed>> PROVE Goal
  BY <1>1 DEF SegmentsFollowLoop, SettledEdid
<1>2. ASSUME NEW kind \in Kinds, Change(kind) PROVE Goal
  BY <1>1, <1>2 DEF Change
<1>3. CASE DisplayCallback \/ RegisterCallback \/ HostDeinit \/ DestroyMembers
  BY <1>1, <1>3 DEF DisplayCallback, RegisterCallback, HostDeinit, DestroyMembers
<1>4. ASSUME NEW s \in Sinks, Register(s) \/ Unregister(s) PROVE Goal
  BY <1>1, <1>4 DEF Register, Unregister
<1>5. CASE Rest \/ UNCHANGED vars
  BY <1>1, <1>5 DEF Rest, vars
<1>6. CASE RunJob
  BY <1>6 DEF RunJob, SegmentsFollowLoop, SettledEdid, Runners
<1>7. ASSUME NEW r \in Runners, Dispatch(r), ~TellSinks(r),
             \A q \in Runners : q # r => At(q, "off")
      PROVE  Goal
  <2>1. ~At(r, "off")'
    BY <1>7, DispatchMoves, TypeParts DEF Dispatch
  <2>2. \A q \in Runners : q # r => At(q, "off")'
    BY <1>7, DispatchMoves, TypeParts DEF Dispatch
  <2>3. SettledEdid'
    BY <2>1 DEF SettledEdid
  <2>4. CASE GetDisplayState(r) \/ StoreMember(r)
    <3>1. ~At(r, "edid")' /\ ~At(r, "tell")'
      BY <2>4, DispatchMoves, TypeParts
    <3> QED BY <2>2, <2>3, <3>1 DEF SegmentsFollowLoop
  <2>5. CASE LockAndClear(r)
    <3>1. UNCHANGED <<members, failed>>
      BY <2>5 DEF LockAndClear
    <3>2. CASE Connected(members.connected)
      <4>1. At(r, "edid")' /\ runner'[r].index = 1
        BY <2>5, <3>2, DispatchMoves, TypeParts
      <4>2. Connected(members'.connected)
        BY <3>1, <3>2
      <4>3. /\ ~At(r, "tell")' /\ runner'[r].index \in 1..2 /\ runner'[r].index # 2
            /\ \A q \in Runners \ {r} : ~At(q, "tell")' /\ ~At(q, "edid")'
        BY <2>2, <4>1
      <4> HIDE DEF TypeOK, Displays, At
      <4> QED BY <2>3, <4>1, <4>2, <4>3 DEF SegmentsFollowLoop
    <3>3. CASE ~Connected(members.connected)
      <4>1. At(r, "tell")' /\ edid' = <<>> /\ ~Connected(members'.connected)
        BY <2>5, <3>1, <3>3, DispatchMoves, TypeParts
      <4> QED BY <2>2, <2>3, <4>1 DEF SegmentsFollowLoop
    <3> QED BY <3>2, <3>3
  <2>6. CASE ReadSegment(r)
    <3>1. /\ At(r, "edid") /\ Connected(members.connected) /\ runner[r].index \in 1..2
          /\ runner[r].index = 2 => edid # <<>> /\ Segments(edid[1]) = 2
      BY <2>6 DEF ReadSegment, SegmentsFollowLoop
    <3>2. CASE edid' = WithSegment(runner[r].index, tv)
               /\ runner' = [runner EXCEPT ![r] =
                    IF MoreSegments(runner[r].index, edid'[1])
                    THEN [@ EXCEPT !.index = runner[r].index + 1]
                    ELSE [@ EXCEPT !.pc = "tell"]]
      <4>1. /\ edid' # <<>> /\ Len(edid') >= runner[r].index
            /\ runner[r].index = 2 => edid'[1] = edid[1]
        BY <3>1, <3>2, WithSegmentProperties
      <4>2. CASE MoreSegments(runner[r].index, edid'[1])
        <5>1. runner[r].index = 1 /\ Segments(edid'[1]) = 2
          BY <3>1, <4>2 DEF MoreSegments, Segments
        <5>2. runner'[r].index = 2 /\ ~At(r, "tell")'
          BY <3>1, <3>2, <4>2, <5>1
        <5> QED BY <2>2, <2>3, <2>6, <3>1, <4>1, <5>1, <5>2
                DEF ReadSegment, SegmentsFollowLoop
      <4>3. CASE ~MoreSegments(runner[r].index, edid'[1])
        <5>1. Len(edid') >= Segments(edid'[1])
          <6>1. Len(edid') \in Nat
            BY LenProperties
          <6>2. Segments(edid'[1]) \in {1, 2}
            BY DEF Segments
          <6>3. runner[r].index >= Segments(edid'[1])
            BY <3>1, <4>3, <6>2 DEF MoreSegments
          <6> HIDE DEF TypeOK, Displays
          <6> QED BY <3>1, <4>1, <6>1, <6>2, <6>3
        <5>2. ~At(r, "edid")'
          BY <3>2, <4>3
        <5> QED BY <2>2, <2>3, <2>6, <3>1, <4>1, <5>1, <5>2
                DEF ReadSegment, SegmentsFollowLoop
      <4> QED BY <4>2, <4>3
    <3>3. CASE Goto(r, "tell") /\ failed' = failed \union {"edid"} /\ UNCHANGED edid
      <4>1. failed' # {} /\ ~At(r, "edid")'
        BY <3>3
      <4> QED BY <2>2, <2>3, <2>6, <3>1, <4>1 DEF ReadSegment, SegmentsFollowLoop
    <3> QED BY <2>6, <3>2, <3>3 DEF ReadSegment
  <2> QED BY <1>7, <2>4, <2>5, <2>6 DEF Dispatch
<1>8. ASSUME NEW r \in Runners, TellSinks(r), \A q \in Runners : q # r => At(q, "off")
      PROVE  Goal
  BY <1>8 DEF TellSinks, SegmentsFollowLoop, SettledEdid
<1>9. ASSUME NEW r \in Runners, Dispatch(r) PROVE Goal
  <2>1. ~At(r, "off")
    BY <1>9, DispatchMoves, TypeParts DEF Dispatch, Members
  <2>2. \A q \in Runners : q # r => At(q, "off")
    BY <2>1, OthersAreOff
  <2> QED BY <1>7, <1>8, <1>9, <2>2
<1> QED BY <1>2, <1>3, <1>4, <1>5, <1>6, <1>9 DEF Next

-----------------------------------------------------------------------------
(* The members.                                                            *)

\* What holds of the members and of the EDID before, between and after the
\* stores of the Dispatch that runs, and when none runs.
SameSize == members.width = members.height
SameState == members.connected = members.passthrough
SizeOfState == Sized(members.connected) => members.width = members.connected
Cleared == ~Connected(members.connected) => edid = <<>>
Whole == SameSize /\ SameState /\ SizeOfState

MembersFollowStores ==
  /\ Quiet => Whole /\ Cleared
  /\ \A r \in Runners :
       /\ runner[r].pc \in {"query", "width", "edid", "tell"} => Whole /\ Cleared
       /\ runner[r].pc = "height" =>
            members.width = runner[r].tvState /\ SameState /\ Cleared
       /\ runner[r].pc = "connected" =>
            /\ SameSize /\ SameState /\ Cleared
            /\ Sized(runner[r].tvState) => members.width = runner[r].tvState
       /\ runner[r].pc = "passthrough" =>
            SameSize /\ SizeOfState /\ members.connected = runner[r].tvState
       /\ runner[r].pc = "lock" => Whole

LEMMA StoresStep ==
  ASSUME TypeOK, OneRunner, SegmentsFollowLoop, MembersFollowStores, [Next]_vars
  PROVE  MembersFollowStores'
<1> DEFINE all == <<runner, members, edid>>
<1> USE TypeParts DEF outside, clients
<1>1. ASSUME UNCHANGED all PROVE MembersFollowStores'
  BY <1>1 DEF MembersFollowStores, Quiet, At, Whole, SameSize, SameState, SizeOfState, Cleared
<1>2. ASSUME NEW kind \in Kinds, Change(kind) PROVE UNCHANGED all
  BY <1>2 DEF Change
<1>3. CASE DisplayCallback \/ RegisterCallback \/ HostDeinit \/ DestroyMembers
  BY <1>1, <1>3 DEF DisplayCallback, RegisterCallback, HostDeinit, DestroyMembers
<1>4. ASSUME NEW s \in Sinks, Register(s) \/ Unregister(s) PROVE UNCHANGED all
  BY <1>4 DEF Register, Unregister
<1>5. CASE Rest \/ UNCHANGED vars
  BY <1>1, <1>5 DEF Rest, vars
<1>6. CASE RunJob
  <2>1. Quiet /\ UNCHANGED <<members, edid>>
    BY <1>6 DEF RunJob, OneRunner, Runners, Quiet
  <2>2. /\ runner'["worker"].pc = "query" /\ "worker" \in Runners
        /\ \A q \in Runners \ {"worker"} : runner'[q] = runner[q]
    BY <1>6 DEF RunJob, Goto, RunnersTyped, Records, Runners
  <2> QED BY <2>1, <2>2
      DEF MembersFollowStores, Quiet, At, Whole, SameSize, SameState, SizeOfState, Cleared
<1>7. ASSUME NEW r \in Runners, Dispatch(r) PROVE MembersFollowStores'
  <2>1. ~At(r, "off")
    BY <1>7, DispatchMoves DEF Dispatch, At, Members
  <2>2. \A q \in Runners \ {r} : runner'[q].pc = "off"
    BY <1>7, <2>1, OthersAreOff, DispatchMoves DEF At
  <2> DEFINE p == runner'[r].pc
             Goal ==
               /\ p \in {"off", "query", "width", "edid", "tell"} => Whole' /\ Cleared'
               /\ p = "height" => members'.width = runner'[r].tvState /\ SameState' /\ Cleared'
               /\ p = "connected" =>
                    /\ SameSize' /\ SameState' /\ Cleared'
                    /\ Sized(runner'[r].tvState) => members'.width = runner'[r].tvState
               /\ p = "passthrough" =>
                    SameSize' /\ SizeOfState' /\ members'.connected = runner'[r].tvState
               /\ p = "lock" => Whole'
  <2>3. SUFFICES Goal
    BY <2>2 DEF MembersFollowStores, Quiet, At
  <2> USE DEF Whole, SameSize, SameState, SizeOfState, Cleared
  <2>4. CASE GetDisplayState(r)
    <3>1. runner[r].pc = "query" /\ UNCHANGED <<members, edid>>
      BY <2>4 DEF GetDisplayState, At
    <3>2. p = "width" \/ p = "lock" \/ (p = "connected" /\ ~Sized(runner'[r].tvState))
      BY <2>4 DEF GetDisplayState, Goto, RunnersTyped, Records
    <3> QED BY <3>1, <3>2 DEF MembersFollowStores
  <2>5. CASE StoreMember(r)
    <3>1. PICK m \in Members :
            /\ runner[r].pc = m /\ runner'[r] = [runner[r] EXCEPT !.pc = After[m]]
            /\ members' = [members EXCEPT ![m] = runner[r].tvState]
      BY <2>5 DEF StoreMember, At, Goto, RunnersTyped
    <3>2. p = After[m] /\ runner'[r].tvState = runner[r].tvState /\ edid' = edid
      BY <2>5, <3>1 DEF RunnersTyped, Records, StoreMember
    <3>3. /\ \A k \in Members : members'[k] = IF k = m THEN runner[r].tvState ELSE members[k]
          /\ {"width", "height", "connected", "passthrough"} = Members
      BY <3>1 DEF OthersTyped, Members
    <3>4. CASE m = "width"
      BY <3>1, <3>2, <3>3, <3>4, AfterIs DEF MembersFollowStores
    <3>5. CASE m = "height"
      BY <3>1, <3>2, <3>3, <3>5, AfterIs DEF MembersFollowStores
    <3>6. CASE m = "connected"
      BY <3>1, <3>2, <3>3, <3>6, AfterIs DEF MembersFollowStores
    <3>7. CASE m = "passthrough"
      BY <3>1, <3>2, <3>3, <3>7, AfterIs DEF MembersFollowStores
    <3> QED BY <3>4, <3>5, <3>6, <3>7 DEF Members
  <2>6. CASE LockAndClear(r)
    <3>1. /\ runner[r].pc = "lock" /\ members' = members /\ p \in {"edid", "tell"}
          /\ ~Connected(members.connected) => edid' = <<>>
      BY <2>6, DispatchMoves DEF LockAndClear, At
    <3> QED BY <3>1 DEF MembersFollowStores
  <2>7. CASE ReadSegment(r)
    <3>1. /\ runner[r].pc = "edid" /\ members' = members /\ p \in {"edid", "tell"}
          /\ Connected(members.connected)
      BY <2>7, DispatchMoves DEF ReadSegment, SegmentsFollowLoop, At
    <3> QED BY <3>1 DEF MembersFollowStores
  <2>8. CASE TellSinks(r)
    <3>1. /\ runner[r].pc = "tell" /\ p = "off" /\ UNCHANGED <<members, edid>>
      BY <2>8, DispatchMoves DEF TellSinks, At
    <3> QED BY <3>1 DEF MembersFollowStores
  <2> QED BY <1>7, <2>4, <2>5, <2>6, <2>7, <2>8 DEF Dispatch
<1> QED BY <1>1, <1>2, <1>3, <1>4, <1>5, <1>6, <1>7 DEF Next

RPIInv == TypeOK /\ OneRunner /\ SegmentsFollowLoop /\ SettledEdid /\ MembersFollowStores

LEMMA RPIInvariant == Spec => []RPIInv
<1>1. Init => RPIInv
  BY ChangesAssumption
  DEF Init, RPIInv, TypeOK, OneRunner, SegmentsFollowLoop, SettledEdid, MembersFollowStores,
      Whole, SameSize, SameState, SizeOfState, Cleared, Quiet, At, Runners, Idle, NoDisplay,
      NoMembers, Members, Displays, Kinds, Connected, Sized
<1>2. RPIInv /\ [Next]_vars => RPIInv'
  BY TypeParts, OthersStep, RunnersStep, OneRunnerStep, SegmentsStep, StoresStep DEF RPIInv
<1> QED BY <1>1, <1>2, PTL DEF Spec

\* Every reachable state is well typed, and _adminLock is held exactly by the
\* thread between LockAndClear and the end of TellSinks.
THEOREM TypeCorrect == Spec => []TypeOK
BY RPIInvariant, PTL DEF RPIInv

\* Whatever the sinks and however often the display changes, a getter finds the
\* members of two displays only between the two stores concerned, and an EDID
\* without a connected display only until the lock section clears it.
LEMMA MixedOnlyInside ==
  ASSUME RPIInv
  PROVE  TornOnlyWhileStoring /\ (Cleared \/ Inside({"passthrough", "lock"}))
<1> USE DEF RPIInv, TypeOK, MembersFollowStores, TornOnlyWhileStoring, Inside,
            Whole, SameSize, SameState, SizeOfState
<1>1. CASE Quiet
  BY <1>1
<1>2. CASE ~Quiet
  <2>1. PICK r \in Runners : runner[r].pc # "off"
    BY <1>2 DEF Quiet, At
  <2>2. runner[r].pc \in {"query", "lock", "edid", "tell", "width", "height", "connected",
                           "passthrough"}
    BY <2>1 DEF Members
  <2> QED BY <2>2
<1> QED BY <1>1, <1>2

THEOREM NoMixtureIsLeft == Spec => []TornOnlyWhileStoring
BY MixedOnlyInside, RPIInvariant, PTL

\* For any number of changes, _EDID is empty without a display, except from the
\* store of _connected to the clear, and complete with one that could be read
\* whenever no Dispatch runs.
THEOREM EdidFits == Spec => []EdidMatchesConnection
<1>1. RPIInv => EdidMatchesConnection
  <2> SUFFICES ASSUME RPIInv, Quiet, Connected(members.connected), failed = {},
                      edid # <<>>, Len(edid) >= Segments(edid[1])
               PROVE  Len(Answers.edid) = Segments(edid[1])
    BY MixedOnlyInside DEF RPIInv, SettledEdid, EdidMatchesConnection, Cleared
  <2>1. edid \in Seq(Displays) /\ Len(edid) \in Nat /\ Segments(edid[1]) \in 1..2
    BY DEF RPIInv, TypeOK, Segments
  <2>2. Min({Len(edid), Segments(edid[1])}) = Segments(edid[1])
    <3>1. {Len(edid), Segments(edid[1])} \subseteq Nat
      BY <2>1
    <3>2. /\ Min({Len(edid), Segments(edid[1])}) \in {Len(edid), Segments(edid[1])}
          /\ Min({Len(edid), Segments(edid[1])}) <= Segments(edid[1])
      BY <3>1, MinIsElement
    <3> QED BY <2>1, <3>2
  <2>3. Answers.edid = SubSeq(edid, 1, Segments(edid[1]))
    BY <2>2 DEF Answers
  <2> QED BY <2>1, <2>3
<1> QED BY <1>1, RPIInvariant, PTL

-----------------------------------------------------------------------------
(* The sinks.                                                              *)

SinksInv == DOMAIN heard = Sinks /\ SinksAgreeWithGetters

LEMMA SinksStep == ASSUME TypeOK, TypeOK', OneRunner, SinksInv, [Next]_vars PROVE SinksInv'
<1> USE TypeParts DEF SinksInv, SinksAgreeWithGetters, outside, clients
<1>1. ASSUME UNCHANGED <<runner, members, edid, observers, heard>> PROVE SinksInv'
  BY <1>1 DEF At, Answers
<1>2. ASSUME NEW kind \in Kinds, Change(kind) PROVE SinksInv'
  BY <1>1, <1>2 DEF Change
<1>3. CASE DisplayCallback \/ RegisterCallback \/ HostDeinit
  BY <1>1, <1>3 DEF DisplayCallback, RegisterCallback, HostDeinit
<1>4. CASE Rest \/ UNCHANGED vars
  BY <1>1, <1>4 DEF Rest, vars
<1>5. CASE RunJob
  <2>1. /\ At("worker", "off") /\ \A q \in Runners \ {"worker"} : runner'[q] = runner[q]
        /\ UNCHANGED <<observers, heard>> /\ Answers' = Answers
    BY <1>5 DEF RunJob, Goto, RunnersTyped, OneRunner, Answers
  <2> QED BY <2>1 DEF At
<1>6. ASSUME NEW r \in Runners, Dispatch(r), ~TellSinks(r) PROVE SinksInv'
  <2>1. UNCHANGED <<observers, heard>>
    BY <1>6 DEF Dispatch, GetDisplayState, StoreMember, LockAndClear, ReadSegment
  <2>2. CASE GetDisplayState(r)
    <3>1. /\ runner[r].pc = "query" /\ \A q \in Runners \ {r} : runner'[q] = runner[q]
          /\ Answers' = Answers
      BY <2>2, DispatchMoves DEF Dispatch, At, GetDisplayState, Answers
    <3> QED BY <2>1, <3>1
  <2>3. CASE ~GetDisplayState(r)
    <3>1. runner'[r].pc \notin {"off", "query", "width"}
      BY <1>6, <2>3, DispatchMoves DEF Dispatch
    <3> QED BY <2>1, <3>1
  <2> QED BY <2>2, <2>3
<1>7. ASSUME NEW r \in Runners, TellSinks(r) PROVE SinksInv'
  <2>1. /\ Answers' = Answers /\ observers' = observers
        /\ heard' = [s \in Sinks |-> IF Told(s) THEN Answers ELSE heard[s]]
    BY <1>7 DEF TellSinks, Answers
  <2>2. Range(observers) \subseteq Sinks
    BY DEF OthersTyped, Range
  <2> QED BY <2>1, <2>2 DEF Told
<1>8. CASE DestroyMembers
  <2>1. Range(observers') = {} /\ heard' = heard
    BY <1>8 DEF DestroyMembers, Range
  <2> QED BY <2>1
<1>9. ASSUME NEW s \in Sinks, Register(s) PROVE SinksInv'
  <2>1. UNCHANGED <<runner, members, edid>> /\ Answers' = Answers
    BY <1>9 DEF Register, Answers
  <2>2. Range(observers') = Range(observers) \union {s}
    <3>1. /\ observers' = Append(observers, s) /\ observers \in Seq(Sinks)
          /\ Len(observers) \in Nat /\ DOMAIN observers = 1..Len(observers)
      BY <1>9, LenProperties DEF Register, OthersTyped
    <3>2. /\ DOMAIN observers' = 1..Len(observers) + 1
          /\ \A i \in 1..Len(observers) : observers'[i] = observers[i]
          /\ observers'[Len(observers) + 1] = s
      BY <3>1, AppendProperties
    <3>3. \A i : i \in 1..Len(observers) + 1 <=> i \in 1..Len(observers) \/ i = Len(observers) + 1
      BY <3>1
    <3> QED BY <3>1, <3>2, <3>3, Zenon DEF Range
  <2>3. heard' = IF s \in Range(observers) THEN heard ELSE [heard EXCEPT ![s] = Unheard]
    BY <1>9 DEF Register, Told
  <2> QED BY <2>1, <2>2, <2>3 DEF At
<1>10. ASSUME NEW s \in Sinks, Unregister(s) PROVE SinksInv'
  <2>1. UNCHANGED <<runner, members, edid, heard>> /\ Answers' = Answers
    BY <1>10 DEF Unregister, Answers
  <2>2. \E i \in 1..Len(observers) : observers[i] = s
    BY <1>10 DEF Unregister, Range, OthersTyped
  <2>3. PICK k \in 1..Len(observers) : observers' = RemoveAt(observers, k)
    BY <1>10, <2>2, RemoveFirstProperties DEF Unregister, OthersTyped
  <2>4. Range(observers') \subseteq Range(observers)
    <3>1. /\ observers' \in Seq(Sinks) /\ Len(observers') = Len(observers) - 1
          /\ \A i \in 1..Len(observers) - 1 :
               observers'[i] = IF i < k THEN observers[i] ELSE observers[i + 1]
      BY <2>3, RemoveAtProperties DEF OthersTyped
    <3>2. DOMAIN observers' = 1..Len(observers) - 1 /\ DOMAIN observers = 1..Len(observers)
      BY <3>1, LenProperties DEF OthersTyped
    <3>3. Len(observers) \in Nat
      BY LenProperties DEF OthersTyped
    <3>4. ASSUME NEW i \in DOMAIN observers'
          PROVE  \E j \in DOMAIN observers : observers'[i] = observers[j]
      <4>1. i \in 1..Len(observers) /\ i + 1 \in 1..Len(observers) /\ i \in 1..Len(observers) - 1
        BY <3>2, <3>3, <3>4
      <4> QED BY <3>1, <3>2, <4>1
    <3> QED BY <3>4 DEF Range
  <2> QED BY <2>1, <2>4 DEF At
<1> QED
  BY <1>2, <1>3, <1>4, <1>5, <1>6, <1>7, <1>8, <1>9, <1>10 DEF Next

\* For any number of sinks and changes, what a sink asked inside Updated is what
\* the getters go on answering until the next Dispatch stores a member.
THEOREM SinksAgree == Spec => []SinksAgreeWithGetters
<1>1. Init => SinksInv
  BY DEF Init, SinksInv, SinksAgreeWithGetters, Range
<1>2. RPIInv /\ RPIInv' /\ SinksInv /\ [Next]_vars => SinksInv'
  BY SinksStep DEF RPIInv
<1>3. SinksInv => SinksAgreeWithGetters
  BY DEF SinksInv
<1> QED BY <1>1, <1>2, <1>3, RPIInvariant, PTL DEF Spec

-----------------------------------------------------------------------------
(* The answers.                                                            *)

\* A Dispatch that has yet to start will ask VideoCore again.
Pending == job \in {"submitted", "again"}

\* VideoCore never calls back for a change it has not made.
NoticesFollowTv ==
  /\ announced <= tv.change
  /\ \A k \in 1..Len(notices) : notices[k].change <= tv.change

StateIsNew == "state" \notin failed => members.connected.change >= announced
EdidIsNew ==
  Connected(members.connected) /\ "edid" \notin failed =>
    \A k \in 1..Len(edid) : k <= Segments(edid[1]) => edid[k].change >= announced

\* What Dispatch has read so far, and what it has left, is no older than the
\* last change called back for; a callback that comes in between submits the
\* job again.
DispatchIsNew ==
  \A r \in Runners :
    /\ runner[r].pc \in {"width", "height", "connected"} => runner[r].tvState.change >= announced
    /\ runner[r].pc \in {"passthrough", "lock", "edid", "tell"} => StateIsNew
    /\ At(r, "edid") => \A k \in 1..runner[r].index - 1 : edid[k].change >= announced
    /\ At(r, "tell") => EdidIsNew
RestIsNew == Quiet /\ object # "gone" => StateIsNew /\ EdidIsNew
ReadingsAreNew == Pending \/ (DispatchIsNew /\ RestIsNew)

LEMMA NoticesStep == ASSUME TypeOK, NoticesFollowTv, [Next]_vars PROVE NoticesFollowTv'
<1> USE TypeParts DEF NoticesFollowTv, outside, clients
<1>1. ASSUME NEW kind \in Kinds, Change(kind) PROVE NoticesFollowTv'
  <2>1. /\ tv'.change = tv.change + 1 /\ announced' = announced
        /\ tv.change \in Nat /\ announced \in Nat
        /\ \A k \in 1..Len(notices) : notices[k].change \in Nat
    <3>1. \A k \in 1..Len(notices) : notices[k] \in Displays
      BY DEF OthersTyped
    <3>2. \A d \in Displays : d.change \in Nat
      BY ChangesAssumption DEF Displays
    <3>3. tv'.change = tv.change + 1 /\ announced' = announced
      BY <1>1 DEF Change
    <3> QED BY <3>1, <3>2, <3>3, ChangesAssumption DEF OthersTyped
  <2>2. CASE notices' = notices
    BY <2>1, <2>2
  <2>3. CASE notices' = Append(notices, tv')
    <3>1. notices \in Seq(Displays) /\ Len(notices) \in Nat
      BY LenProperties DEF OthersTyped
    <3>2. /\ Len(notices') = Len(notices) + 1 /\ notices'[Len(notices) + 1] = tv'
          /\ \A k \in 1..Len(notices) : notices'[k] = notices[k]
      BY <2>3, <3>1
    <3>3. ASSUME NEW k \in 1..Len(notices') PROVE notices'[k].change <= tv'.change
      <4>1. k \in 1..Len(notices) \/ k = Len(notices) + 1
        BY <3>1, <3>2
      <4> QED BY <2>1, <3>2, <4>1
    <3> QED BY <2>1, <3>3
  <2> QED BY <1>1, <2>2, <2>3 DEF Change
<1>2. CASE DisplayCallback
  <2>1. /\ notices \in Seq(Displays) /\ notices # <<>> /\ notices' = Tail(notices)
        /\ tv' = tv /\ announced' \in {announced, Head(notices).change}
    BY <1>2 DEF DisplayCallback, OthersTyped
  <2>2. /\ Len(notices) \in Nat /\ Len(notices) # 0 /\ Head(notices) = notices[1]
        /\ Len(notices') = Len(notices) - 1
        /\ \A k \in 1..Len(notices') : notices'[k] = notices[k + 1]
    BY <2>1, HeadTailProperties, EmptySeq
  <2>3. 1 \in 1..Len(notices) /\ \A k \in 1..Len(notices') : k + 1 \in 1..Len(notices)
    BY <2>2
  <2> QED BY <2>1, <2>2, <2>3
<1>3. CASE HostDeinit
  BY <1>3 DEF HostDeinit
<1>4. ASSUME UNCHANGED outside PROVE NoticesFollowTv'
  BY <1>4
<1>5. CASE RunJob \/ RegisterCallback \/ DestroyMembers
  BY <1>4, <1>5 DEF RunJob, RegisterCallback, DestroyMembers
<1>6. ASSUME NEW r \in Runners, Dispatch(r) PROVE NoticesFollowTv'
  BY <1>4, <1>6 DEF Dispatch, GetDisplayState, StoreMember, LockAndClear, ReadSegment, TellSinks
<1>7. ASSUME NEW s \in Sinks, Register(s) \/ Unregister(s) PROVE NoticesFollowTv'
  BY <1>4, <1>7 DEF Register, Unregister
<1>8. CASE Rest \/ UNCHANGED vars
  BY <1>8 DEF Rest, vars
<1> QED BY <1>1, <1>2, <1>3, <1>5, <1>6, <1>7, <1>8 DEF Next

LEMMA ReadingsStep ==
  ASSUME TypeOK, TypeOK', OneRunner, SegmentsFollowLoop, NoticesFollowTv, ReadingsAreNew,
         [Next]_vars
  PROVE  ReadingsAreNew'
<1> USE TypeParts DEF outside, clients
<1>1. ASSUME UNCHANGED <<announced, object, runner, members, edid, failed, job>>
      PROVE  ReadingsAreNew'
  BY <1>1
  DEF ReadingsAreNew, Pending, DispatchIsNew, RestIsNew, StateIsNew, EdidIsNew, Quiet, At
<1>2. ASSUME NEW kind \in Kinds, Change(kind) PROVE ReadingsAreNew'
  BY <1>1, <1>2 DEF Change
<1>3. ASSUME NEW s \in Sinks, Register(s) \/ Unregister(s) PROVE ReadingsAreNew'
  BY <1>1, <1>3 DEF Register, Unregister
<1>4. CASE Rest \/ UNCHANGED vars
  BY <1>1, <1>4 DEF Rest, vars
<1>5. CASE DisplayCallback
  <2>1. CASE Head(notices).kind \in Listed
    <3>1. job' = Submitted(job)
      BY <1>5, <2>1 DEF DisplayCallback
    <3> QED BY <3>1 DEF ReadingsAreNew, Pending, Submitted, OthersTyped
  <2>2. CASE Head(notices).kind \notin Listed
    <3>1. Head(notices) \in Displays
      BY <1>5, HeadTailProperties DEF DisplayCallback, OthersTyped
    <3>2. Head(notices).kind = "sdtv_mode"
      BY <2>2, <3>1 DEF Displays, Kinds, Listed
    <3> QED BY <1>1, <1>5, <2>2, <3>2 DEF DisplayCallback
  <2> QED BY <2>1, <2>2
<1>6. CASE RegisterCallback \/ HostDeinit
  <2>1. /\ UNCHANGED <<announced, runner, members, edid, failed, job>>
        /\ object # "gone"
    BY <1>6 DEF RegisterCallback, HostDeinit
  <2> QED BY <2>1
      DEF ReadingsAreNew, Pending, DispatchIsNew, RestIsNew, StateIsNew, EdidIsNew, Quiet, At
<1>7. CASE DestroyMembers
  <2>1. \A r \in Runners : At(r, "off")'
    BY <1>7 DEF DestroyMembers, OneRunner, Runners, At
  <2>2. object' = "gone"
    BY <1>7 DEF DestroyMembers
  <2> QED BY <2>1, <2>2 DEF ReadingsAreNew, DispatchIsNew, RestIsNew, At
<1>8. CASE RunJob
  <2>1. \A r \in Runners : At(r, "query")' \/ At(r, "off")'
    BY <1>8 DEF RunJob, Goto, At, RunnersTyped, Runners, OneRunner
  <2>2. ~Quiet'
    BY <1>8 DEF RunJob, Goto, At, RunnersTyped, Runners, Quiet
  <2> QED BY <2>1, <2>2 DEF ReadingsAreNew, DispatchIsNew, RestIsNew, At
<1>9. ASSUME NEW r \in Runners, Dispatch(r) PROVE ReadingsAreNew'
  <2>1. ~At(r, "off")
    BY <1>9, DispatchMoves DEF Dispatch, At, Members
  <2>2. \A q \in Runners \ {r} : At(q, "off")
    BY <2>1, OthersAreOff
  <2>3. \A q \in Runners \ {r} : At(q, "off")'
    BY <1>9, <2>2, DispatchMoves DEF At
  <2>4. announced' = announced /\ object' = object
    BY <1>9 DEF Dispatch, GetDisplayState, StoreMember, LockAndClear, ReadSegment, TellSinks
  <2>5. Pending' <=> Pending
    <3>1. CASE TellSinks(r)
      BY <3>1, <2>1 DEF TellSinks, Ended, Pending, OneRunner, Runners, OthersTyped
    <3>2. CASE ~TellSinks(r)
      BY <1>9, <3>2 DEF Dispatch, GetDisplayState, StoreMember, LockAndClear, ReadSegment, Pending
    <3> QED BY <3>1, <3>2
  <2> SUFFICES ASSUME DispatchIsNew, RestIsNew PROVE DispatchIsNew' /\ RestIsNew'
    BY <2>5 DEF ReadingsAreNew
  <2> DEFINE AtOf == 
        /\ runner'[r].pc \in {"width", "height", "connected"} =>
             runner'[r].tvState.change >= announced
        /\ runner'[r].pc \in {"passthrough", "lock", "edid", "tell"} => StateIsNew'
        /\ At(r, "edid")' => \A k \in 1..runner'[r].index - 1 : edid'[k].change >= announced
        /\ At(r, "tell")' => EdidIsNew'
  <2>6. ASSUME AtOf PROVE DispatchIsNew'
    BY <2>3, <2>4, <2>6 DEF DispatchIsNew, At
  <2>7. ASSUME ~At(r, "off")' PROVE RestIsNew'
    BY <2>7 DEF RestIsNew, Quiet
  <2>8. announced \in Nat /\ tv.change \in Nat /\ tv.change >= announced
    BY ChangesAssumption DEF OthersTyped, Displays, NoticesFollowTv
  <2>9. CASE GetDisplayState(r)
    <3>1. ~At(r, "off")'
      BY <2>9, DispatchMoves DEF At
    <3>2. CASE runner' = [runner EXCEPT ![r] = [pc |-> IF Sized(tv) THEN "width" ELSE "connected",
                                                tvState |-> tv, index |-> 0]]
      <4>1. runner'[r].pc \in {"width", "connected"} /\ runner'[r].tvState = tv
        BY <3>2 DEF RunnersTyped
      <4>2. AtOf
        BY <2>8, <4>1 DEF At
      <4> QED BY <2>6, <2>7, <3>1, <4>2
    <3>3. CASE Goto(r, "lock") /\ failed' = {"state"}
      <4>1. At(r, "lock")'
        BY <3>3 DEF Goto, At, RunnersTyped, Records
      <4>2. AtOf
        BY <3>3, <4>1 DEF At, StateIsNew
      <4> QED BY <2>6, <2>7, <3>1, <4>2
    <3> QED BY <2>9, <3>2, <3>3 DEF GetDisplayState
  <2>10. CASE StoreMember(r)
    <3>1. PICK m \in Members :
            /\ runner[r].pc = m /\ runner'[r] = [runner[r] EXCEPT !.pc = After[m]]
            /\ members' = [members EXCEPT ![m] = runner[r].tvState]
      BY <2>10 DEF StoreMember, At, Goto, RunnersTyped
    <3>2. runner'[r].pc = After[m] /\ runner'[r].tvState = runner[r].tvState /\ failed' = failed
      BY <2>10, <3>1 DEF RunnersTyped, Records, StoreMember
    <3>3. ~At(r, "off")'
      BY <2>10, DispatchMoves DEF At
    <3>4. CASE m \in {"width", "height"}
      <4>1. AtOf
        BY <3>1, <3>2, <3>4, AfterIs DEF At, DispatchIsNew
      <4> QED BY <2>6, <2>7, <3>3, <4>1
    <3>5. CASE m = "connected"
      <4>1. members'.connected = runner[r].tvState
        BY <3>1, <3>5 DEF OthersTyped, Members
      <4>2. AtOf
        BY <2>4, <3>1, <3>2, <3>5, <4>1, AfterIs DEF At, DispatchIsNew, StateIsNew
      <4> QED BY <2>6, <2>7, <3>3, <4>2
    <3>6. CASE m = "passthrough"
      <4>1. members'.connected = members.connected
        BY <3>1, <3>6 DEF OthersTyped, Members
      <4>2. AtOf
        BY <2>4, <3>1, <3>2, <3>6, <4>1, AfterIs DEF At, DispatchIsNew, StateIsNew
      <4> QED BY <2>6, <2>7, <3>3, <4>2
    <3> QED BY <3>4, <3>5, <3>6 DEF Members
  <2>11. CASE LockAndClear(r)
    <3>1. At(r, "lock") /\ UNCHANGED <<members, failed>>
      BY <2>11 DEF LockAndClear
    <3>2. StateIsNew'
      BY <2>4, <3>1 DEF DispatchIsNew, StateIsNew, At
    <3>3. CASE Connected(members.connected)
      <4>1. At(r, "edid")' /\ runner'[r].index = 1
        BY <2>11, <3>3, DispatchMoves DEF At
      <4>2. AtOf
        BY <3>2, <4>1 DEF At
      <4> QED BY <2>6, <2>7, <4>1, <4>2 DEF At
    <3>4. CASE ~Connected(members.connected)
      <4>1. At(r, "tell")' /\ ~Connected(members'.connected)
        BY <2>11, <3>1, <3>4, DispatchMoves DEF At
      <4>2. AtOf
        BY <3>2, <4>1 DEF At, EdidIsNew
      <4> QED BY <2>6, <2>7, <4>1, <4>2 DEF At
    <3> QED BY <3>3, <3>4
  <2>12. CASE ReadSegment(r)
    <3> DEFINE i == runner[r].index
    <3>1. /\ At(r, "edid") /\ i \in 1..2 /\ (i = 2 => edid # <<>>)
          /\ members' = members
          /\ \A k \in 1..i - 1 : edid[k].change >= announced
      BY <2>12 DEF ReadSegment, SegmentsFollowLoop, DispatchIsNew
    <3>2. ~At(r, "off")' /\ (At(r, "edid")' \/ At(r, "tell")')
      BY <2>12, DispatchMoves DEF At
    <3>3. StateIsNew'
      <4>1. "state" \notin failed' => "state" \notin failed
        BY <2>12 DEF ReadSegment
      <4> QED BY <2>4, <3>1, <4>1 DEF DispatchIsNew, StateIsNew, At
    <3>4. CASE Goto(r, "tell") /\ failed' = failed \union {"edid"}
      <4>1. At(r, "tell")'
        BY <3>4 DEF Goto, At, RunnersTyped, Records
      <4>2. AtOf
        BY <3>3, <3>4, <4>1 DEF At, EdidIsNew
      <4> QED BY <2>6, <2>7, <3>2, <4>2
    <3>5. CASE /\ edid' = WithSegment(i, tv)
               /\ runner' = [runner EXCEPT ![r] =
                    IF MoreSegments(i, edid'[1]) THEN [@ EXCEPT !.index = i + 1]
                    ELSE [@ EXCEPT !.pc = "tell"]]
      <4>1. \A k \in 1..i : edid'[k].change >= announced
        <5>1. /\ edid'[i] = tv
              /\ i = 2 => edid'[1] = edid[1]
          BY <3>1, <3>5, WithSegmentProperties DEF OthersTyped
        <5>2. \A k \in 1..i : k = i \/ (i = 2 /\ k = 1 /\ k \in 1..i - 1)
          BY <3>1
        <5> QED BY <2>8, <3>1, <5>1, <5>2
      <4>2. CASE MoreSegments(i, edid'[1])
        <5>1. runner'[r].index = i + 1 /\ At(r, "edid")'
          BY <3>1, <3>5, <4>2 DEF RunnersTyped, Records, At
        <5>2. 1..runner'[r].index - 1 = 1..i
          BY <3>1, <5>1
        <5>3. AtOf
          BY <3>3, <4>1, <5>1, <5>2 DEF At
        <5> QED BY <2>6, <2>7, <3>2, <5>3
      <4>3. CASE ~MoreSegments(i, edid'[1])
        <5>1. At(r, "tell")'
          BY <3>1, <3>5, <4>3 DEF RunnersTyped, Records, At
        <5>2. \A k \in 1..Len(edid') : k <= Segments(edid'[1]) => k \in 1..i
          BY <3>1, <4>3 DEF MoreSegments, Segments
        <5>3. EdidIsNew'
          BY <2>4, <4>1, <5>2 DEF EdidIsNew
        <5>4. AtOf
          BY <3>3, <5>1, <5>3 DEF At
        <5> QED BY <2>6, <2>7, <3>2, <5>4
      <4> QED BY <4>2, <4>3
    <3> QED BY <2>12, <3>4, <3>5 DEF ReadSegment
  <2>13. CASE TellSinks(r)
    <3>1. At(r, "tell") /\ At(r, "off")' /\ UNCHANGED <<members, edid, failed>>
      BY <2>13, DispatchMoves DEF TellSinks, At
    <3>2. StateIsNew' /\ EdidIsNew'
      BY <2>4, <3>1 DEF DispatchIsNew, StateIsNew, EdidIsNew, At
    <3>3. AtOf
      BY <3>1 DEF At
    <3> QED BY <2>6, <3>2, <3>3 DEF RestIsNew
  <2> QED BY <1>9, <2>9, <2>10, <2>11, <2>12, <2>13 DEF Dispatch
<1> QED BY <1>2, <1>3, <1>4, <1>5, <1>6, <1>7, <1>8, <1>9 DEF Next

\* For any number of changes: once the callbacks have been made and the job has
\* run, the getters answer with nothing older than the last change called back
\* for, except what the last Dispatch could not read.
THEOREM SettledAnswersAreNew == Spec => []SettledIsCurrent
<1>1. Init => NoticesFollowTv /\ ReadingsAreNew
  BY ChangesAssumption
  DEF Init, NoticesFollowTv, ReadingsAreNew, DispatchIsNew, RestIsNew, Quiet, At, Runners, Idle
<1>2. /\ TypeOK /\ NoticesFollowTv /\ [Next]_vars => NoticesFollowTv'
      /\ RPIInv /\ RPIInv' /\ NoticesFollowTv /\ ReadingsAreNew /\ [Next]_vars => ReadingsAreNew'
  BY NoticesStep, ReadingsStep DEF RPIInv
<1>3. RPIInv /\ ReadingsAreNew => SettledIsCurrent
  <2> SUFFICES ASSUME RPIInv, StateIsNew, EdidIsNew, Connected(members.connected), "edid" \notin failed,
                      NEW k \in 1..Len(Answers.edid)
               PROVE  Answers.edid[k].change >= announced
    BY DEF ReadingsAreNew, Pending, RestIsNew, SettledIsCurrent, StateIsNew
  <2>1. edid \in Seq(Displays) /\ Len(edid) \in Nat
    BY LenProperties DEF RPIInv, TypeOK
  <2>2. edid # <<>>
    BY DEF Answers
  <2> DEFINE n == Min({Len(edid), Segments(edid[1])})
  <2>3. n \in {Len(edid), Segments(edid[1])} /\ n <= Len(edid) /\ n <= Segments(edid[1])
    <3>1. {Len(edid), Segments(edid[1])} \subseteq Nat
      BY <2>1 DEF Segments
    <3> QED BY <3>1, MinIsElement
  <2>4. n \in Nat /\ Segments(edid[1]) \in Nat
    BY <2>1, <2>3 DEF Segments
  <2>5. Answers.edid = SubSeq(edid, 1, n)
    BY <2>2 DEF Answers
  <2> HIDE DEF n
  <2>6. Len(Answers.edid) = n /\ \A j \in 1..n : Answers.edid[j] = edid[j]
    BY <2>1, <2>3, <2>4, <2>5
  <2>7. k \in 1..Len(edid) /\ k <= Segments(edid[1])
    BY <2>1, <2>3, <2>4, <2>6
  <2> QED BY <2>6, <2>7 DEF EdidIsNew
<1> QED BY <1>1, <1>2, <1>3, RPIInvariant, TypeCorrect, PTL DEF Spec
=============================================================================
