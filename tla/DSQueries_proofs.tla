------------------------- MODULE DSQueries_proofs -------------------------
(***************************************************************************)
(* Proofs about DSQueries, for any callers, ports, displays and bounds:    *)
(* what EDID writes fits the caller's buffer, the scans of the ports       *)
(* settle on an eligible port before which every other one was off, a      *)
(* query that reports success has an answer unless there was nothing to    *)
(* answer with, and a display that stays plugged in is answered for.       *)
(***************************************************************************)
EXTENDS DSQueries, TLAPS

Fields == {"getter", "arg", "todo", "at", "next", "out", "code", "thrown"}
Scanning == {"GetCurrentColorimetry", "GetHDCP", "SetHDCP"}
EdidScripts == {<<"port", "connected", "read">>, <<"connected", "read">>, <<"read">>}
ScanScripts == {<<"scan", "read">>, <<"scan", "port", "read">>, <<"scan", "port", "write">>}
ListScripts == {<<"list", "scan", "read">>, <<"list", "scan", "port", "read">>,
                <<"list", "scan", "port", "write">>}
LaterScripts == {<<"read">>, <<"write">>, <<"port", "read">>, <<"port", "write">>, <<>>}

Shape ==
  /\ DOMAIN query = Callers /\ DOMAIN during = Callers
  /\ \A c \in Callers : DOMAIN query[c] = Fields
  /\ sink \in [PortSet -> Sinks \union {NoSink}]

\* While a query runs, what each port shows now is among what it has shown.
Present(c) == query[c].todo # <<>> => \A p \in PortSet : <<p, sink[p]>> \in during[c]

EdidState(q) ==
  \/ /\ q.todo \in EdidScripts /\ q.arg \in Nat /\ q.code = "ERROR_NONE"
     /\ q.at = DefaultPort /\ q.out = Copy("unknown", 7, q.arg)
  \/ /\ q.todo = <<>> /\ q.out.length <= q.arg
     /\ (q.code = "ERROR_NONE") <=> (q.out.text = "edid")
EdidInv(c) == query[c].getter = "EDID" => EdidState(query[c])

\* The suitable ports before the n-th were off at some point of the query.
PrefixOff(c, g, n) == \A j \in 1..n - 1 : Suits(g, Ports[j]) => WasOff(c, Ports[j])

Scans(c) ==
  /\ query[c].todo \in ListScripts \union ScanScripts
  /\ query[c].next \in 1..Len(Ports) + 1
  /\ query[c].out = Initially(query[c].getter, query[c].arg)
Found(c) ==
  /\ query[c].todo \in LaterScripts
  /\ query[c].next \in 1..Len(Ports)
  /\ query[c].at = Ports[query[c].next] /\ WasOn(c, query[c].at)
  /\ Suits(query[c].getter, query[c].at)
NotFound(c) ==
  /\ query[c].todo = <<>> /\ query[c].next = Len(Ports) + 1
  /\ query[c].out = Initially(query[c].getter, query[c].arg)

ScanInv(c) ==
  query[c].getter \in Scanning =>
    \/ query[c].todo = <<>> /\ query[c].thrown
    \/ (Scans(c) \/ Found(c) \/ NotFound(c)) /\ PrefixOff(c, query[c].getter, query[c].next)

Inv == Shape /\ \A c \in Callers : Present(c) /\ EdidInv(c) /\ ScanInv(c)

\* What is left of each script, and what comes next in it.
LEMMA Scripts ==
  /\ Script("EDID") \in EdidScripts
  /\ \A g \in Scanning : Script(g) \in ListScripts
  /\ \A t \in EdidScripts : /\ t # <<>>
                            /\ Head(t) = "port" => Tail(t) \in EdidScripts
                            /\ Head(t) = "connected" => Tail(t) \in EdidScripts
                            /\ Head(t) \in {"port", "connected", "read"}
  /\ \A t \in ListScripts : t # <<>> /\ Head(t) = "list" /\ Tail(t) \in ScanScripts
  /\ \A t \in ScanScripts : t # <<>> /\ Head(t) = "scan" /\ Tail(t) \in LaterScripts
  /\ \A t \in LaterScripts \ {<<>>} : Head(t) \in {"port", "read", "write"} /\ Tail(t) \in LaterScripts
<1>1. Script("EDID") \in EdidScripts
  BY DEF Script, DirectGetters, EdidScripts
<1>2. ASSUME NEW g \in Scanning PROVE Script(g) \in ListScripts
  BY <1>2 DEF Script, ScanScript, DirectGetters, EdidGetters, Scanning, ListScripts
<1>3. ASSUME NEW t \in EdidScripts
      PROVE  /\ t # <<>>
             /\ Head(t) = "port" => Tail(t) \in EdidScripts
             /\ Head(t) = "connected" => Tail(t) \in EdidScripts
             /\ Head(t) \in {"port", "connected", "read"}
  <2>1. CASE t = <<"port", "connected", "read">>
    <3>1. t # <<>> /\ Head(t) = "port" /\ Tail(t) = <<"connected", "read">>
      BY <2>1
    <3> QED BY <3>1 DEF EdidScripts
  <2>2. CASE t = <<"connected", "read">>
    <3>1. t # <<>> /\ Head(t) = "connected" /\ Tail(t) = <<"read">>
      BY <2>2
    <3> QED BY <3>1 DEF EdidScripts
  <2>3. CASE t = <<"read">>
    <3>1. t # <<>> /\ Head(t) = "read" /\ Tail(t) = <<>>
      BY <2>3
    <3> QED BY <3>1 DEF EdidScripts
  <2> QED BY <1>3, <2>1, <2>2, <2>3 DEF EdidScripts
<1>4. ASSUME NEW t \in ListScripts
      PROVE t # <<>> /\ Head(t) = "list" /\ Tail(t) \in ScanScripts
  <2>1. CASE t = <<"list", "scan", "read">>
    <3>1. t # <<>> /\ Head(t) = "list" /\ Tail(t) = <<"scan", "read">>
      BY <2>1
    <3> QED BY <3>1 DEF ScanScripts
  <2>2. CASE t = <<"list", "scan", "port", "read">>
    <3>1. t # <<>> /\ Head(t) = "list" /\ Tail(t) = <<"scan", "port", "read">>
      BY <2>2
    <3> QED BY <3>1 DEF ScanScripts
  <2>3. CASE t = <<"list", "scan", "port", "write">>
    <3>1. t # <<>> /\ Head(t) = "list" /\ Tail(t) = <<"scan", "port", "write">>
      BY <2>3
    <3> QED BY <3>1 DEF ScanScripts
  <2> QED BY <1>4, <2>1, <2>2, <2>3 DEF ListScripts
<1>5. ASSUME NEW t \in ScanScripts
      PROVE t # <<>> /\ Head(t) = "scan" /\ Tail(t) \in LaterScripts
  <2>1. CASE t = <<"scan", "read">>
    <3>1. t # <<>> /\ Head(t) = "scan" /\ Tail(t) = <<"read">>
      BY <2>1
    <3> QED BY <3>1 DEF LaterScripts
  <2>2. CASE t = <<"scan", "port", "read">>
    <3>1. t # <<>> /\ Head(t) = "scan" /\ Tail(t) = <<"port", "read">>
      BY <2>2
    <3> QED BY <3>1 DEF LaterScripts
  <2>3. CASE t = <<"scan", "port", "write">>
    <3>1. t # <<>> /\ Head(t) = "scan" /\ Tail(t) = <<"port", "write">>
      BY <2>3
    <3> QED BY <3>1 DEF LaterScripts
  <2> QED BY <1>5, <2>1, <2>2, <2>3 DEF ScanScripts
<1>6. ASSUME NEW t \in LaterScripts \ {<<>>}
      PROVE Head(t) \in {"port", "read", "write"} /\ Tail(t) \in LaterScripts
  <2>1. CASE t = <<"read">>
    <3>1. t # <<>> /\ Head(t) = "read" /\ Tail(t) = <<>>
      BY <2>1
    <3> QED BY <3>1 DEF LaterScripts
  <2>2. CASE t = <<"write">>
    <3>1. t # <<>> /\ Head(t) = "write" /\ Tail(t) = <<>>
      BY <2>2
    <3> QED BY <3>1 DEF LaterScripts
  <2>3. CASE t = <<"port", "read">>
    <3>1. t # <<>> /\ Head(t) = "port" /\ Tail(t) = <<"read">>
      BY <2>3
    <3> QED BY <3>1 DEF LaterScripts
  <2>4. CASE t = <<"port", "write">>
    <3>1. t # <<>> /\ Head(t) = "port" /\ Tail(t) = <<"write">>
      BY <2>4
    <3> QED BY <3>1 DEF LaterScripts
  <2> QED BY <1>6, <2>1, <2>2, <2>3, <2>4 DEF LaterScripts
<1> QED BY <1>1, <1>2, <1>3, <1>4, <1>5, <1>6

\* EDID's copy never exceeds the buffer.
LEMMA CopyFits ==
  ASSUME NEW text, NEW size \in Nat, NEW length \in Nat
  PROVE  Copy(text, size, length).length <= length /\ Copy(text, size, length).text = text
BY LengthsAssumption DEF Copy, MinOf

\* A caller whose own query did not move keeps its invariant.
LEMMA OthersKeep ==
  ASSUME Inv, NEW c \in Callers, query'[c] = query[c], during[c] \subseteq during'[c],
         query[c].todo # <<>> => \A p \in PortSet : <<p, sink'[p]>> \in during'[c]
  PROVE  Present(c)' /\ EdidInv(c)' /\ ScanInv(c)'
BY DEF Inv, Present, EdidInv, EdidState, ScanInv, Scans, Found, NotFound, PrefixOff, WasOn, WasOff

-----------------------------------------------------------------------------
LEMMA InitInv == Init => Inv
<1> SUFFICES ASSUME Init PROVE Inv
  OBVIOUS
<1>1. Shape
  BY DEF Init, Shape, Idle, Fields
<1>2. ASSUME NEW c \in Callers PROVE Present(c) /\ EdidInv(c) /\ ScanInv(c)
  BY <1>2 DEF Init, Idle, Present, EdidInv, ScanInv, Scanning
<1> QED BY <1>1, <1>2 DEF Inv

\* The library calls of a caller k and of the platform, one by one.
LEMMA HotPlugKeeps ==
  ASSUME Inv, NEW p \in PortSet, NEW s \in Sinks \union {NoSink}, HotPlug(p, s)
  PROVE  Inv'
<1>1. Shape'
  BY DEF HotPlug, Inv, Shape
<1>2. ASSUME NEW c \in Callers PROVE Present(c)' /\ EdidInv(c)' /\ ScanInv(c)'
  <2>1. query'[c] = query[c] /\ during[c] \subseteq during'[c]
    BY DEF HotPlug
  <2>2. ASSUME query[c].todo # <<>>, NEW q \in PortSet PROVE <<q, sink'[q]>> \in during'[c]
    <3>1. <<q, sink[q]>> \in during[c] /\ during'[c] = during[c] \union {<<p, s>>}
      BY <2>2 DEF HotPlug, Inv, Present
    <3>2. sink'[q] = IF q = p THEN s ELSE sink[q]
      BY DEF HotPlug, Inv, Shape
    <3> QED BY <3>1, <3>2
  <2> QED BY <2>1, <2>2, OthersKeep
<1> QED BY <1>1, <1>2 DEF Inv

\* The query of k becomes record r, and the displays stay.
Becomes(k, r) ==
  /\ query' = [query EXCEPT ![k] = r] /\ DOMAIN r = Fields
  /\ UNCHANGED <<sink, during>>
  /\ r.todo # <<>> => query[k].todo # <<>>

LEMMA Locally ==
  ASSUME Inv, NEW k \in Callers, NEW r, Becomes(k, r), EdidInv(k)', ScanInv(k)'
  PROVE  Inv'
<1>1. Shape'
  BY DEF Inv, Shape, Becomes
<1>2. ASSUME NEW c \in Callers PROVE Present(c)' /\ EdidInv(c)' /\ ScanInv(c)'
  <2>1. CASE c = k
    <3>1. query'[k] = r
      BY DEF Inv, Shape, Becomes
    <3> QED BY <2>1, <3>1 DEF Inv, Present, Becomes
  <2>2. CASE c # k
    BY <2>2, OthersKeep DEF Inv, Shape, Present, Becomes
  <2> QED BY <2>1, <2>2
<1> QED BY <1>1, <1>2 DEF Inv

\* What the fields of the query of k are after Proceed and after Finish.
LEMMA ProceedBecomes ==
  ASSUME Inv, NEW k \in Callers, query[k].todo # <<>>, Proceed(k), UNCHANGED <<sink, during>>
  PROVE  LET r == [query[k] EXCEPT !.todo = Tail(query[k].todo)]
         IN  Becomes(k, r) /\ query'[k] = r /\ r.todo = Tail(query[k].todo)
             /\ r.getter = query[k].getter /\ r.arg = query[k].arg /\ r.at = query[k].at
             /\ r.next = query[k].next /\ r.out = query[k].out /\ r.code = query[k].code
             /\ r.thrown = query[k].thrown
BY DEF Inv, Shape, Fields, Proceed, Becomes

LEMMA FinishBecomes ==
  ASSUME Inv, NEW k \in Callers, query[k].todo # <<>>, NEW out, NEW code,
         Finish(k, out, code), UNCHANGED <<sink, during>>
  PROVE  \E r : /\ Becomes(k, r) /\ query'[k] = r /\ r.todo = <<>> /\ r.out = out /\ r.code = code
                /\ r.getter = query[k].getter /\ r.arg = query[k].arg /\ r.at = query[k].at
                /\ r.next = query[k].next /\ r.thrown = query[k].thrown
<1> DEFINE r == [query[k] EXCEPT !.todo = <<>>, !.out = out, !.code = code]
<1>1. query' = [query EXCEPT ![k] = r]
  BY DEF Inv, Shape, Finish
<1>2. DOMAIN r = Fields /\ query'[k] = r
  BY <1>1 DEF Inv, Shape
<1>3. /\ r.todo = <<>> /\ r.out = out /\ r.code = code
      /\ r.getter = query[k].getter /\ r.arg = query[k].arg /\ r.at = query[k].at
      /\ r.next = query[k].next /\ r.thrown = query[k].thrown
  BY DEF Inv, Shape, Fields
<1>4. Becomes(k, r)
  BY <1>1, <1>2, <1>3 DEF Becomes
<1> HIDE DEF r
<1> QED BY <1>2, <1>3, <1>4

LEMMA GetPortKeeps ==
  ASSUME Inv, NEW k \in Callers, GetPort(k)
  PROVE  Inv'
<1> DEFINE r == [query[k] EXCEPT !.todo = Tail(query[k].todo)]
<1>1. /\ query[k].todo # <<>> /\ Head(query[k].todo) = "port" /\ UNCHANGED <<sink, during>>
      /\ Proceed(k)
  BY DEF GetPort, At, Outside
<1>2. /\ Becomes(k, r) /\ query'[k] = r /\ r.todo = Tail(query[k].todo)
      /\ r.getter = query[k].getter /\ r.arg = query[k].arg /\ r.at = query[k].at
      /\ r.next = query[k].next /\ r.out = query[k].out /\ r.code = query[k].code
      /\ r.thrown = query[k].thrown
  BY <1>1, ProceedBecomes
<1> HIDE DEF r
<1>3. EdidInv(k)'
  BY <1>1, <1>2, Scripts DEF Inv, EdidInv, EdidState
<1>4. ScanInv(k)'
  <2>1. CASE query[k].getter \in Scanning
    <3>1. Found(k) /\ PrefixOff(k, query[k].getter, query[k].next)
      BY <1>1, <2>1, Scripts DEF Inv, ScanInv, Scans, NotFound
    <3>2. r.todo \in LaterScripts
      BY <1>1, <1>2, <3>1, Scripts DEF Found
    <3> QED BY <1>1, <1>2, <3>1, <3>2 DEF ScanInv, Found, PrefixOff, WasOn, WasOff
  <2> QED BY <1>2, <2>1 DEF ScanInv
<1> QED BY <1>2, <1>3, <1>4, Locally

\* A query that finishes early or with what it has read.
LEMMA FinishKeeps ==
  ASSUME Inv, NEW k \in Callers, query[k].todo # <<>>, NEW out, NEW code,
         Finish(k, out, code), UNCHANGED <<sink, during>>,
         query[k].getter = "EDID" =>
           out.length <= query[k].arg /\ ((code = "ERROR_NONE") <=> (out.text = "edid")),
         query[k].getter \in Scanning /\ ~Found(k) =>
           query[k].next = Len(Ports) + 1 /\ out = query[k].out
  PROVE  Inv'
<1>2. PICK r : /\ Becomes(k, r) /\ query'[k] = r /\ r.todo = <<>> /\ r.out = out /\ r.code = code
               /\ r.getter = query[k].getter /\ r.arg = query[k].arg /\ r.at = query[k].at
               /\ r.next = query[k].next /\ r.thrown = query[k].thrown
  BY FinishBecomes
<1>3. EdidInv(k)'
  BY <1>2 DEF EdidInv, EdidState
<1>4. ScanInv(k)'
  <2>1. CASE query[k].getter \in Scanning
    <3>1. (Scans(k) \/ Found(k)) /\ PrefixOff(k, query[k].getter, query[k].next)
      BY <2>1 DEF Inv, ScanInv, NotFound
    <3>2. <<>> \in LaterScripts
      BY DEF LaterScripts
    <3>3. CASE Found(k)
      BY <1>2, <3>1, <3>2, <3>3 DEF ScanInv, Found, PrefixOff, WasOn, WasOff, Becomes
    <3>4. CASE ~Found(k)
      BY <1>2, <2>1, <3>1, <3>4 DEF ScanInv, Scans, NotFound, PrefixOff, WasOff, Becomes
    <3> QED BY <3>3, <3>4
  <2> QED BY <1>2, <2>1 DEF ScanInv
<1> QED BY <1>2, <1>3, <1>4, Locally

LEMMA IsDisplayConnectedKeeps ==
  ASSUME Inv, NEW k \in Callers, IsDisplayConnected(k)
  PROVE  Inv'
<1>1. /\ query[k].todo # <<>> /\ Head(query[k].todo) = "connected" /\ UNCHANGED <<sink, during>>
  BY DEF IsDisplayConnected, At, Outside
<1>2. query[k].getter \notin Scanning
  <2>1. ASSUME query[k].getter \in Scanning PROVE FALSE
    BY <1>1, <2>1, Scripts DEF Inv, ScanInv, Scans, Found, NotFound
  <2> QED BY <2>1
<1>3. CASE query[k].getter = "EDID"
  <2>1. query[k].todo \in EdidScripts /\ query[k].arg \in Nat /\ query[k].code = "ERROR_NONE"
        /\ query[k].at = DefaultPort /\ query[k].out = Copy("unknown", 7, query[k].arg)
    BY <1>1, <1>3 DEF Inv, EdidInv, EdidState
  <2>2. CASE Proceed(k)
    <3> DEFINE r == [query[k] EXCEPT !.todo = Tail(query[k].todo)]
    <3>1. /\ Becomes(k, r) /\ query'[k] = r /\ r.todo = Tail(query[k].todo)
          /\ r.getter = query[k].getter /\ r.arg = query[k].arg /\ r.at = query[k].at
          /\ r.next = query[k].next /\ r.out = query[k].out /\ r.code = query[k].code
          /\ r.thrown = query[k].thrown
      BY <1>1, <2>2, ProceedBecomes
    <3> HIDE DEF r
    <3>2. EdidInv(k)'
      BY <1>1, <2>1, <3>1, Scripts DEF EdidInv, EdidState
    <3>3. ScanInv(k)'
      BY <1>2, <3>1 DEF ScanInv
    <3> QED BY <3>1, <3>2, <3>3, Locally
  <2>3. CASE Finish(k, query[k].out, WhenDisconnected("EDID"))
    <3>1. WhenDisconnected("EDID") = "ERROR_GENERAL"
      BY DEF WhenDisconnected, Code
    <3>2. query[k].out.length <= query[k].arg /\ query[k].out.text = "unknown"
      BY <2>1, CopyFits
    <3> QED BY <1>1, <1>2, <2>3, <3>1, <3>2, FinishKeeps
  <2> QED BY <1>3, <2>2, <2>3 DEF IsDisplayConnected
<1>4. CASE query[k].getter # "EDID"
  <2>1. ASSUME Proceed(k) PROVE Inv'
    <3> DEFINE r == [query[k] EXCEPT !.todo = Tail(query[k].todo)]
    <3>1. Becomes(k, r) /\ query'[k] = r /\ r.getter = query[k].getter
      BY <1>1, <2>1, ProceedBecomes
    <3> HIDE DEF r
    <3> QED BY <1>2, <1>4, <3>1, Locally DEF EdidInv, ScanInv
  <2>2. ASSUME NEW out, NEW code, Finish(k, out, code) PROVE Inv'
    BY <1>1, <1>2, <1>4, <2>2, FinishKeeps
  <2> QED BY <2>1, <2>2 DEF IsDisplayConnected
<1> QED BY <1>3, <1>4

LEMMA GetPortsKeeps ==
  ASSUME Inv, NEW k \in Callers, GetPorts(k)
  PROVE  Inv'
<1> DEFINE r == [query[k] EXCEPT !.todo = Tail(query[k].todo)]
<1>1. /\ query[k].todo # <<>> /\ Head(query[k].todo) = "list" /\ UNCHANGED <<sink, during>>
      /\ Proceed(k)
  BY DEF GetPorts, At, Outside
<1>2. /\ Becomes(k, r) /\ query'[k] = r /\ r.todo = Tail(query[k].todo)
      /\ r.getter = query[k].getter /\ r.arg = query[k].arg /\ r.at = query[k].at
      /\ r.next = query[k].next /\ r.out = query[k].out /\ r.code = query[k].code
      /\ r.thrown = query[k].thrown
  BY <1>1, ProceedBecomes
<1> HIDE DEF r
<1>3. EdidInv(k)'
  BY <1>1, <1>2, Scripts DEF Inv, EdidInv, EdidState
<1>4. ScanInv(k)'
  <2>1. CASE query[k].getter \in Scanning
    <3>1. Scans(k) /\ PrefixOff(k, query[k].getter, query[k].next)
      BY <1>1, <2>1, Scripts DEF Inv, ScanInv, Found, NotFound
    <3>2. r.todo \in ScanScripts
      BY <1>1, <1>2, <3>1, Scripts DEF Scans
    <3> QED BY <1>1, <1>2, <3>1, <3>2 DEF ScanInv, Scans, PrefixOff, WasOff
  <2> QED BY <1>2, <2>1 DEF ScanInv
<1> QED BY <1>2, <1>3, <1>4, Locally

LEMMA ScanPortKeeps ==
  ASSUME Inv, NEW k \in Callers, ScanPort(k)
  PROVE  Inv'
<1>1. query[k].todo # <<>> /\ Head(query[k].todo) = "scan" /\ UNCHANGED <<sink, during>>
  BY DEF ScanPort, At, Outside
<1>2. query[k].getter # "EDID"
  <2>1. ASSUME query[k].getter = "EDID" PROVE FALSE
    BY <1>1, <2>1, Scripts DEF Inv, EdidInv, EdidState
  <2> QED BY <2>1
<1>3. CASE query[k].next > Len(Ports)
  <2>1. Finish(k, query[k].out, "ERROR_NONE")
    BY <1>3 DEF ScanPort
  <2>2. ASSUME query[k].getter \in Scanning PROVE query[k].next = Len(Ports) + 1
    <3>1. Scans(k)
      BY <1>1, <2>2, Scripts DEF Inv, ScanInv, Found, NotFound
    <3>2. query[k].next \in 1..Len(Ports) + 1 /\ Len(Ports) \in Nat
      BY <3>1, PortsAssumption DEF Scans
    <3> QED BY <1>3, <3>2
  <2> QED BY <1>1, <1>2, <2>1, <2>2, FinishKeeps
<1>4. CASE /\ ~(query[k].next > Len(Ports)) /\ Plugged(Ports[query[k].next])
           /\ Suits(query[k].getter, Ports[query[k].next])
  <2> DEFINE r == [query[k] EXCEPT !.at = Ports[query[k].next], !.todo = Tail(query[k].todo)]
  <2>1. query' = [query EXCEPT ![k] = r]
    BY <1>4 DEF ScanPort, Inv, Shape
  <2>2. DOMAIN r = Fields /\ query'[k] = r
    BY <2>1 DEF Inv, Shape
  <2>3. /\ r.at = Ports[query[k].next] /\ r.todo = Tail(query[k].todo)
        /\ r.getter = query[k].getter /\ r.next = query[k].next
    BY DEF Inv, Shape, Fields
  <2>4. Becomes(k, r)
    BY <1>1, <2>1, <2>2, <2>3 DEF Becomes
  <2> HIDE DEF r
  <2>5. EdidInv(k)'
    BY <1>2, <2>2, <2>3 DEF EdidInv
  <2>6. ScanInv(k)'
    <3>1. CASE query[k].getter \in Scanning
      <4>1. Scans(k) /\ PrefixOff(k, query[k].getter, query[k].next)
        BY <1>1, <3>1, Scripts DEF Inv, ScanInv, Found, NotFound
      <4>2. query[k].todo \in ScanScripts
        BY <1>1, <4>1, Scripts DEF Scans
      <4>3. r.todo \in LaterScripts
        BY <2>3, <4>2, Scripts
      <4>4. query[k].next \in 1..Len(Ports)
        BY <1>4, <4>1, PortsAssumption DEF Scans
      <4>5. Ports[query[k].next] \in PortSet
        BY <4>4, PortsAssumption DEF PortSet
      <4>6. WasOn(k, Ports[query[k].next])'
        <5>1. <<Ports[query[k].next], sink[Ports[query[k].next]]>> \in during[k]
          BY <1>1, <4>5 DEF Inv, Present
        <5>2. sink[Ports[query[k].next]] \in Sinks
          BY <1>4, <4>5 DEF Inv, Shape, Plugged
        <5> QED BY <1>1, <2>2, <2>3, <5>1, <5>2 DEF WasOn
      <4> QED BY <1>1, <1>4, <2>2, <2>3, <4>1, <4>3, <4>4, <4>6 DEF ScanInv, Found, PrefixOff, WasOff, WasOn
    <3> QED BY <2>2, <2>3, <3>1 DEF ScanInv
  <2> QED BY <2>4, <2>5, <2>6, Locally
<1>5. CASE /\ ~(query[k].next > Len(Ports))
           /\ ~(Plugged(Ports[query[k].next]) /\ Suits(query[k].getter, Ports[query[k].next]))
  <2> DEFINE r == [query[k] EXCEPT !.next = query[k].next + 1]
  <2>1. query' = [query EXCEPT ![k] = r]
    BY <1>5 DEF ScanPort, NextIndex, Inv, Shape
  <2>2. DOMAIN r = Fields /\ query'[k] = r
    BY <2>1 DEF Inv, Shape
  <2>3. /\ r.next = query[k].next + 1 /\ r.todo = query[k].todo
        /\ r.getter = query[k].getter /\ r.arg = query[k].arg /\ r.out = query[k].out
    BY DEF Inv, Shape, Fields
  <2>4. Becomes(k, r)
    BY <1>1, <2>1, <2>2, <2>3 DEF Becomes
  <2> HIDE DEF r
  <2>5. EdidInv(k)'
    BY <1>2, <2>2, <2>3 DEF EdidInv
  <2>6. ScanInv(k)'
    <3>1. CASE query[k].getter \in Scanning
      <4>1. Scans(k) /\ PrefixOff(k, query[k].getter, query[k].next)
        BY <1>1, <3>1, Scripts DEF Inv, ScanInv, Found, NotFound
      <4>2. query[k].next \in 1..Len(Ports) /\ r.next \in 1..Len(Ports) + 1
        BY <1>5, <2>3, <4>1, PortsAssumption DEF Scans
      <4>3. Ports[query[k].next] \in PortSet
        BY <4>2, PortsAssumption DEF PortSet
      <4>4. Suits(query[k].getter, Ports[query[k].next]) => WasOff(k, Ports[query[k].next])
        BY <1>1, <1>5, <4>3 DEF Plugged, WasOff, Inv, Present
      <4>5. ASSUME NEW j \in 1..r.next - 1, Suits(query[k].getter, Ports[j])
            PROVE  WasOff(k, Ports[j])
        <5>1. j \in 1..query[k].next - 1 \/ j = query[k].next
          BY <2>3, <4>2, <4>5
        <5> QED BY <4>1, <4>4, <4>5, <5>1 DEF PrefixOff
      <4>6. PrefixOff(k, query[k].getter, r.next)
        BY <4>5 DEF PrefixOff
      <4> QED BY <1>1, <2>2, <2>3, <4>1, <4>2, <4>6 DEF ScanInv, Scans, PrefixOff, WasOff
    <3> QED BY <2>2, <2>3, <3>1 DEF ScanInv
  <2> QED BY <2>4, <2>5, <2>6, Locally
<1> QED BY <1>3, <1>4, <1>5

\* Reading and writing come last, after a scan has found its port.
LEMMA FoundBeforeRead ==
  ASSUME Inv, NEW k \in Callers, query[k].todo # <<>>, Head(query[k].todo) \in {"read", "write"},
         query[k].getter \in Scanning
  PROVE  Found(k)
BY Scripts DEF Inv, ScanInv, Scans, NotFound

LEMMA ReadKeeps ==
  ASSUME Inv, NEW k \in Callers, Read(k)
  PROVE  Inv'
<1> DEFINE q == query[k]
           s == sink[q.at]
           out == Value(q.getter, s, preference[q.at], q.out, q.arg)
           code == CodeOfRead(q.getter, s)
<1>1. /\ q.todo # <<>> /\ Head(q.todo) = "read" /\ UNCHANGED <<sink, during>>
      /\ Finish(k, out, code)
  BY DEF Read, At, Outside
<1>2. ASSUME q.getter = "EDID"
      PROVE  out.length <= q.arg /\ ((code = "ERROR_NONE") <=> (out.text = "edid"))
  <2>1. s.edid.size \in Nat /\ q.arg \in Nat
    BY <1>1, <1>2, LengthsAssumption, PortsAssumption DEF Inv, Shape, EdidInv, EdidState, PortSet
  <2>2. out = Copy("edid", s.edid.size, q.arg)
    BY <1>2 DEF Value, EdidGetters
  <2>3. code = "ERROR_NONE"
    BY <1>2 DEF CodeOfRead, Code
  <2> QED BY <2>1, <2>2, <2>3, CopyFits
<1>3. q.getter \in Scanning => Found(k)
  BY <1>1, FoundBeforeRead
<1> HIDE DEF out, code
<1> QED BY <1>1, <1>2, <1>3, FinishKeeps

LEMMA WriteKeeps ==
  ASSUME Inv, NEW k \in Callers, Write(k)
  PROVE  Inv'
<1>1. /\ query[k].todo # <<>> /\ Head(query[k].todo) = "write" /\ UNCHANGED <<sink, during>>
      /\ Finish(k, query[k].out, "ERROR_NONE")
  BY DEF Write, At, Outside
<1>2. query[k].getter # "EDID"
  <2>1. ASSUME query[k].getter = "EDID" PROVE FALSE
    BY <1>1, <2>1, Scripts DEF Inv, EdidInv, EdidState
  <2> QED BY <2>1
<1>3. query[k].getter \in Scanning => Found(k)
  BY <1>1, FoundBeforeRead
<1> QED BY <1>1, <1>2, <1>3, FinishKeeps

LEMMA ThrowsKeeps ==
  ASSUME Inv, NEW k \in Callers, Throws(k)
  PROVE  Inv'
<1> DEFINE code == WhenThrown(query[k].getter)
           r == [query[k] EXCEPT !.todo = <<>>, !.code = code, !.thrown = TRUE]
<1>1. query[k].todo # <<>> /\ UNCHANGED <<sink, during>> /\ query' = [query EXCEPT ![k] = r]
  BY DEF Throws, Outside, Inv, Shape
<1>2. DOMAIN r = Fields /\ query'[k] = r
  BY <1>1 DEF Inv, Shape
<1>3. /\ r.todo = <<>> /\ r.thrown = TRUE /\ r.code = code /\ r.out = query[k].out
      /\ r.getter = query[k].getter /\ r.arg = query[k].arg
  BY DEF Inv, Shape, Fields
<1>4. Becomes(k, r)
  BY <1>1, <1>2, <1>3 DEF Becomes
<1> HIDE DEF r
<1>5. EdidInv(k)'
  <2>1. CASE query[k].getter = "EDID"
    <3>1. query[k].arg \in Nat /\ query[k].out = Copy("unknown", 7, query[k].arg)
      BY <1>1, <2>1 DEF Inv, EdidInv, EdidState
    <3>2. query[k].out.length <= query[k].arg /\ query[k].out.text = "unknown"
      BY <3>1, CopyFits
    <3>3. code = "ERROR_GENERAL"
      BY <2>1 DEF WhenThrown, Code
    <3> QED BY <1>2, <1>3, <3>2, <3>3 DEF EdidInv, EdidState
  <2> QED BY <1>2, <1>3, <2>1 DEF EdidInv
<1>6. ScanInv(k)'
  BY <1>2, <1>3 DEF ScanInv
<1> QED BY <1>4, <1>5, <1>6, Locally

LEMMA BeginKeeps ==
  ASSUME Inv, NEW k \in Callers, NEW g \in Asked, NEW a \in Arguments(g), Begin(k, g, a)
  PROVE  Inv'
<1> DEFINE r == [query[k] EXCEPT !.getter = g, !.arg = a, !.todo = Script(g),
                                 !.out = Initially(g, a)]
<1>1. /\ query[k] = Idle /\ sink' = sink /\ query' = [query EXCEPT ![k] = r]
      /\ during' = [during EXCEPT ![k] = {<<p, sink[p]>> : p \in PortSet}]
  BY DEF Begin, Inv, Shape
<1>2. DOMAIN r = Fields /\ query'[k] = r
  BY <1>1 DEF Inv, Shape
<1>3. /\ r.getter = g /\ r.arg = a /\ r.todo = Script(g) /\ r.out = Initially(g, a)
      /\ r.next = query[k].next /\ r.code = query[k].code /\ r.at = query[k].at
  BY DEF Inv, Shape, Fields
<1> HIDE DEF r
<1>4. r.next = 1 /\ r.code = "ERROR_NONE" /\ r.at = DefaultPort
  BY <1>1, <1>3 DEF Idle
<1>5. Shape'
  BY <1>1, <1>2 DEF Inv, Shape
<1>6. ASSUME NEW c \in Callers, c # k PROVE Present(c)' /\ EdidInv(c)' /\ ScanInv(c)'
  <2>1. query'[c] = query[c] /\ during'[c] = during[c]
    BY <1>1, <1>6 DEF Inv, Shape
  <2> QED BY <1>1, <1>6, <2>1, OthersKeep DEF Inv, Present
<1>7. Present(k)'
  BY <1>1 DEF Present, Inv, Shape
<1>8. EdidInv(k)'
  <2>1. CASE g = "EDID"
    <3>1. a \in Nat
      BY <2>1, LengthsAssumption DEF Arguments
    <3>2. Initially(g, a) = Copy("unknown", 7, a)
      BY <2>1 DEF Initially
    <3> QED BY <1>2, <1>3, <1>4, <2>1, <3>1, <3>2, Scripts DEF EdidInv, EdidState
  <2> QED BY <1>2, <1>3, <2>1 DEF EdidInv
<1>9. ScanInv(k)'
  <2>1. CASE g \in Scanning
    <3>1. r.todo \in ListScripts
      BY <1>3, <2>1, Scripts
    <3>2. r.next \in 1..Len(Ports) + 1
      BY <1>4, PortsAssumption
    <3> QED BY <1>2, <1>3, <1>4, <3>1, <3>2 DEF ScanInv, Scans, PrefixOff
  <2> QED BY <1>2, <1>3, <2>1 DEF ScanInv
<1> QED BY <1>5, <1>6, <1>7, <1>8, <1>9 DEF Inv

LEMMA ReturnKeeps ==
  ASSUME Inv, NEW k \in Callers, Return(k)
  PROVE  Inv'
<1>1. /\ sink' = sink /\ query' = [query EXCEPT ![k] = Idle]
      /\ during' = [during EXCEPT ![k] = {}]
  BY DEF Return
<1>2. query'[k] = Idle
  BY <1>1 DEF Inv, Shape
<1>3. Shape'
  BY <1>1, <1>2 DEF Inv, Shape, Idle, Fields
<1>4. ASSUME NEW c \in Callers, c # k PROVE Present(c)' /\ EdidInv(c)' /\ ScanInv(c)'
  <2>1. query'[c] = query[c] /\ during'[c] = during[c]
    BY <1>1, <1>4 DEF Inv, Shape
  <2> QED BY <1>1, <1>4, <2>1, OthersKeep DEF Inv, Present
<1>5. Present(k)' /\ EdidInv(k)' /\ ScanInv(k)'
  BY <1>2 DEF Idle, Present, EdidInv, ScanInv, Scanning
<1> QED BY <1>3, <1>4, <1>5 DEF Inv

LEMMA NextInv == Inv /\ [Next]_vars => Inv'
<1> SUFFICES ASSUME Inv, [Next]_vars PROVE Inv'
  OBVIOUS
<1>1. ASSUME NEW p \in PortSet, NEW s \in Sinks \union {NoSink}, HotPlug(p, s) PROVE Inv'
  BY <1>1, HotPlugKeeps
<1>2. ASSUME NEW c \in Callers, NEW g \in Asked, NEW a \in Arguments(g), Begin(c, g, a) PROVE Inv'
  BY <1>2, BeginKeeps
<1>3. ASSUME NEW c \in Callers, Step(c) PROVE Inv'
  BY <1>3, GetPortKeeps, IsDisplayConnectedKeeps, GetPortsKeeps, ScanPortKeeps, ReadKeeps,
     WriteKeeps, ReturnKeeps DEF Step
<1>4. ASSUME NEW c \in Callers, Throws(c) PROVE Inv'
  BY <1>4, ThrowsKeeps
<1>5. CASE UNCHANGED vars
  <2>1. sink' = sink /\ query' = query /\ during' = during
    BY <1>5 DEF vars
  <2> QED BY <2>1, OthersKeep DEF Inv, Shape, Present
<1> QED BY <1>1, <1>2, <1>3, <1>4, <1>5 DEF Next, Rest

LEMMA AlwaysInv == Spec => []Inv
<1> QED BY InitInv, NextInv, PTL DEF Spec

\* PlatformImplementation.cpp:547-567: EDID never reports more bytes than the
\* caller's buffer has, and the text and the return code agree, whatever was
\* unplugged or thrown between the calls, for any buffer and any display.
THEOREM BufferIsRespected == Spec => []EdidFits
<1>1. Inv => EdidFits
  <2> SUFFICES ASSUME Inv, NEW c \in Callers, Done(c), query[c].getter = "EDID"
               PROVE  /\ query[c].out.length <= query[c].arg
                      /\ (query[c].code = "ERROR_NONE") <=> (query[c].out.text = "edid")
    BY DEF EdidFits
  <2>1. EdidState(query[c]) /\ query[c].todo = <<>>
    BY DEF Inv, EdidInv, Done
  <2> QED BY <2>1, Scripts DEF EdidState
<1> QED BY <1>1, AlwaysInv, PTL

\* PlatformImplementation.cpp:440-470, 777-804: a scan of the ports that does
\* not throw settles on an eligible port that was on, with every eligible port
\* before it off at some point of the query, for any list of ports and changes.
THEOREM FirstPortWins == Spec => []EarlierPortsWereOff
<1>1. ASSUME NEW g \in Scanning, NEW p \in PortSet PROVE Suits(g, p) <=> p \in Eligible(g)
  BY DEF Suits, Eligible, Scanning
<1>2. Inv => EarlierPortsWereOff
  <2> SUFFICES ASSUME Inv, NEW c \in Callers, Answered(c), query[c].getter \in Scanning
               PROVE  /\ IF query[c].next <= Len(Ports)
                         THEN /\ query[c].at = Ports[query[c].next]
                              /\ query[c].at \in Eligible(query[c].getter)
                              /\ WasOn(c, query[c].at)
                         ELSE query[c].out = Initially(query[c].getter, query[c].arg)
                      /\ \A j \in 1..query[c].next - 1 :
                           Ports[j] \in Eligible(query[c].getter) => WasOff(c, Ports[j])
    BY DEF EarlierPortsWereOff, Scanning
  <2>1. (Found(c) \/ NotFound(c)) /\ PrefixOff(c, query[c].getter, query[c].next)
    BY Scripts DEF Inv, ScanInv, Scans, Answered, Done
  <2>2. Len(Ports) \in Nat /\ \A j \in 1..Len(Ports) : Ports[j] \in PortSet
    BY PortsAssumption DEF PortSet
  <2>3. query[c].next \in 1..Len(Ports) + 1
    BY <2>1, <2>2 DEF Found, NotFound
  <2>4. ASSUME NEW j \in 1..query[c].next - 1, Ports[j] \in Eligible(query[c].getter)
        PROVE  WasOff(c, Ports[j])
    <3>1. j \in 1..Len(Ports)
      BY <2>2, <2>3
    <3> QED BY <1>1, <2>1, <2>2, <2>4, <3>1 DEF PrefixOff
  <2>5. CASE Found(c)
    BY <1>1, <2>2, <2>4, <2>5 DEF Found
  <2>6. CASE NotFound(c)
    BY <2>2, <2>4, <2>6 DEF NotFound
  <2> QED BY <2>1, <2>5, <2>6
<1> QED BY <1>2, AlwaysInv, PTL
-----------------------------------------------------------------------------
(***************************************************************************)
(* What the queries answer.  AnswersInv follows each query through its     *)
(* script: what it has written, when it has an error to report, and which  *)
(* display it has read.                                                    *)
(***************************************************************************)
Asks == DirectGetters \union {"WidthInCentimeters"}
Silent == {"none", "HeightInCentimeters", "GetHDCP", "SetHDCP"}
Unwritten == {"Connected", "VerticalFreq", "EOTF"}
Preferences == {"1X", "2X", "MAX"}
Answers == {"HDCP_1X", "HDCP_2X", "HDCP_AUTO"}

AskScripts == EdidScripts \union {<<"port", "connected", "port", "connected", "read">>,
                                  <<"connected", "port", "connected", "read">>}
TestScripts == {<<"port", "connected">>, <<"connected">>}
HdcpScripts == {<<"list", "scan", "port", "read">>, <<"scan", "port", "read">>,
                <<"port", "read">>, <<"read">>}

\* The query has read display s while the default port showed it.
HasRead(c, s) ==
  LET q == query[c] IN
    /\ <<DefaultPort, s>> \in during[c]
    /\ q.code = CodeOfRead(q.getter, s)
    /\ q.out = Value(q.getter, s, "MAX", Initially(q.getter, q.arg), q.arg)

AskInv(c) ==
  LET q == query[c] IN
    q.getter \in Asks =>
      \/ /\ q.todo \in AskScripts /\ q.at = DefaultPort
         /\ q.code = "ERROR_NONE" /\ q.out = Initially(q.getter, q.arg)
      \/ q.todo = <<>> /\ (q.thrown \/ WasOff(c, DefaultPort) \/ \E s \in Sinks : HasRead(c, s))

TestInv(c) == query[c].getter = "Connected" => query[c].todo \in TestScripts \union {<<>>}

HdcpInv(c) ==
  LET q == query[c] IN
    q.getter = "GetHDCP" =>
      /\ q.todo \in HdcpScripts \union {<<>>}
      /\ q.todo = <<>> /\ ~q.thrown /\ q.next <= Len(Ports) => q.out \in Answers

\* A query leaves its output unwritten only to report an error.
OutInv(c) ==
  LET q == query[c] IN
    q.getter \notin Silent =>
      \/ q.out # Unset
      \/ q.getter \in Unwritten /\ (q.todo # <<>> \/ q.code = "ERROR_GENERAL")

PreferenceOK == preference \in [PortSet -> Preferences]
WellAsked(c) ==
  LET q == query[c] IN
    /\ q.getter \in Queries \union {"none"} /\ q.at \in PortSet /\ q.next \in 1..Len(Ports) + 1
    /\ q.getter \in Queries => q.arg \in Arguments(q.getter)

AnswersInv ==
  /\ PreferenceOK
  /\ \A c \in Callers : WellAsked(c) /\ AskInv(c) /\ TestInv(c) /\ HdcpInv(c) /\ OutInv(c)

-----------------------------------------------------------------------------
(* What the operators of the queries return.                               *)

LEMMA LookupFinds ==
  ASSUME NEW table, NEW x, NEW default
  PROVE  Lookup(table, x, default) \in Entries(table) \union {default}
BY DEF Lookup, Entries

LEMMA ListsOfNames ==
  /\ \A bits : BuildHDRCapabilities(bits) \in Lists
  /\ \A bits : ColorimetryList(bits) \in Lists
  /\ {} \in Lists
<1>1. "HDR_OFF" \in Entries(HDRTypeOf)
  BY DEF Entries, HDRTypeOf
<1>2. ASSUME NEW bits PROVE BuildHDRCapabilities(bits) \in Lists
  BY <1>1 DEF BuildHDRCapabilities, Entries, Lists
<1>3. ASSUME NEW bits PROVE ColorimetryList(bits) \in Lists
  BY DEF ColorimetryList, Entries, Lists
<1> QED BY <1>2, <1>3 DEF Lists

\* What is in the buffer is a text of EDID's, and no longer than any number.
LEMMA CopyIsABuffer ==
  ASSUME NEW text \in {"unknown", "edid"}, NEW size \in Nat, NEW length \in Nat
  PROVE  Copy(text, size, length) \in Buffers
BY LengthsAssumption DEF Copy, MinOf, Buffers

\* No query starts with an unwritten output but the ones that have nothing to say.
LEMMA StartsWritten ==
  ASSUME NEW g \in Queries, g \notin Silent, g \notin Unwritten, NEW a \in Arguments(g)
  PROVE  Initially(g, a) # Unset
<1>1. CASE g = "EDID"
  <2>1. a \in Nat
    BY <1>1, LengthsAssumption DEF Arguments
  <2>2. Initially(g, a) = Copy("unknown", 7, a)
    BY <1>1 DEF Initially
  <2> QED BY <2>1, <2>2, CopyIsABuffer, UnsetAssumption
<1>2. CASE g \in {"Width", "Height", "WidthInCentimeters"}
  <2>1. Initially(g, a) = 0
    BY <1>2 DEF Initially
  <2> QED BY <2>1, UnsetAssumption
<1>3. CASE g = "IsAudioPassthrough"
  BY <1>3, UnsetAssumption DEF Initially
<1>4. CASE g \in {"Colorimetry", "TVCapabilities", "STBCapabilities"}
  BY <1>4, UnsetAssumption, ListsOfNames DEF Initially
<1>5. CASE g \in {"ColorSpace", "FrameRate", "ColourDepth", "QuantizationRange",
                  "GetCurrentColorimetry", "HDRSetting"}
  BY <1>5, UnsetAssumption DEF Initially, Texts
<1> QED BY <1>1, <1>2, <1>3, <1>4, <1>5 DEF Queries, DirectGetters, EdidGetters, Silent, Unwritten

\* A read writes its output, or reports that it could not.
LEMMA ReadsWrite ==
  ASSUME NEW g \in Queries, g \notin Silent, g # "Connected", NEW s \in Sinks \union {NoSink},
         NEW pref, NEW old, old # Unset \/ g \in Unwritten, NEW a, g = "EDID" => a \in Nat
  PROVE  Value(g, s, pref, old, a) # Unset \/ (CodeOfRead(g, s) = "ERROR_GENERAL" /\ g \in Unwritten)
<1>1. CASE g \in {"Width", "Height"}
  <2>1. Value(g, s, pref, old, a) \in Nat \union {old}
    BY <1>1, EdidAssumption DEF Value, EdidGetters, Dimension
  <2> QED BY <1>1, <2>1, UnsetAssumption DEF Unwritten
<1>2. CASE g = "VerticalFreq"
  <2>1. CASE s.edid.valid
    <3>1. Value(g, s, pref, old, a) \in Nat
      BY <1>2, <2>1, EdidAssumption DEF Value, EdidGetters, Dimension
    <3> QED BY <3>1, UnsetAssumption
  <2>2. CASE ~s.edid.valid
    BY <1>2, <2>2 DEF CodeOfRead, Code, Unwritten
  <2> QED BY <2>1, <2>2
<1>3. CASE g = "WidthInCentimeters"
  <2>1. Value(g, s, pref, old, a) \in Nat \union {old}
    BY <1>3, EdidAssumption DEF Value, EdidGetters, Centimetres
  <2> QED BY <1>3, <2>1, UnsetAssumption DEF Unwritten
<1>4. CASE g = "EDID"
  <2>1. Value(g, s, pref, old, a) = Copy("edid", s.edid.size, a)
    BY <1>4 DEF Value, EdidGetters
  <2> QED BY <1>4, <2>1, CopyIsABuffer, LengthsAssumption, UnsetAssumption
<1>5. CASE g \in {"ColorSpace", "FrameRate", "ColourDepth", "QuantizationRange", "EOTF",
                  "GetCurrentColorimetry"}
  <2>1. Value(g, s, pref, old, a) \in Texts
    BY <1>5, LookupFinds DEF Value, EdidGetters, Texts
  <2> QED BY <2>1, UnsetAssumption
<1>6. CASE g \in {"TVCapabilities", "STBCapabilities"}
  BY <1>6, ListsOfNames, UnsetAssumption DEF Value, EdidGetters, TVFormats, BoxFormats
<1>7. CASE g = "Colorimetry"
  <2>1. Value(g, s, pref, old, a) \in Lists \union {old}
    BY <1>7, ListsOfNames DEF Value, EdidGetters
  <2> QED BY <1>7, <2>1, UnsetAssumption DEF Unwritten
<1>8. CASE g = "HDRSetting"
  <2>1. Value(g, s, pref, old, a) \in {"HDR_10", "HDR_OFF"}
    BY <1>8 DEF Value, EdidGetters, HDRInUse
  <2> QED BY <2>1, UnsetAssumption DEF Texts
<1>9. CASE g = "IsAudioPassthrough"
  <2>1. Value(g, s, pref, old, a) = AudioPassthrough(s)
    BY <1>9 DEF Value, EdidGetters
  <2>2. AudioPassthrough(s) \in BOOLEAN
    BY Zenon DEF AudioPassthrough
  <2> QED BY <2>1, <2>2, UnsetAssumption
<1> QED BY <1>1, <1>2, <1>3, <1>4, <1>5, <1>6, <1>7, <1>8, <1>9
        DEF Queries, DirectGetters, EdidGetters, Silent

\* The HDMI preference is for the HDCP queries only, and a good EDID leaves
\* nothing of what was written before.
LEMMA PreferenceIsHdcp ==
  ASSUME NEW g \in Asks, NEW s, NEW p, NEW q, NEW old, NEW a
  PROVE  Value(g, s, p, old, a) = Value(g, s, q, old, a)
BY DEF Value, Asks, DirectGetters, EdidGetters

LEMMA GoodEdidAnswers ==
  ASSUME NEW g \in Asks, NEW s \in Sinks, s.edid.valid, NEW p, NEW old, NEW new, NEW a
  PROVE  Value(g, s, p, old, a) = Value(g, s, p, new, a)
<1>1. CASE g \in EdidGetters
  <2>1. \A o : Value(g, s, p, o, a) = Dimension(g, s.edid, o)
    BY <1>1 DEF Value, EdidGetters
  <2>2. Dimension(g, s.edid, old) = Dimension(g, s.edid, new)
    BY DEF Dimension
  <2> QED BY <2>1, <2>2
<1>2. CASE g \in {"WidthInCentimeters", "HeightInCentimeters"}
  <2>1. s.edid.size > 22
    BY EdidAssumption
  <2> QED BY <1>2, <2>1 DEF Value, Centimetres, EdidGetters
<1>3. CASE g \notin EdidGetters \union {"WidthInCentimeters", "HeightInCentimeters"}
  BY <1>3 DEF Value, Asks, DirectGetters
<1> QED BY <1>1, <1>2, <1>3

-----------------------------------------------------------------------------
(* The scripts of these queries, and their steps one by one.               *)

LEMMA AnswerScripts ==
  /\ \A g \in Asks : Script(g) \in AskScripts
  /\ Script("Connected") \in TestScripts /\ Script("GetHDCP") \in HdcpScripts
  /\ \A t \in AskScripts : /\ t # <<>> /\ Head(t) \in {"port", "connected", "read"}
                           /\ Head(t) # "read" => Tail(t) \in AskScripts
  /\ \A t \in TestScripts : /\ t # <<>> /\ Head(t) \in {"port", "connected"}
                            /\ Head(t) = "port" => Tail(t) \in TestScripts
  /\ \A t \in HdcpScripts : /\ t # <<>> /\ Head(t) \in {"list", "scan", "port", "read"}
                            /\ Head(t) # "read" => Tail(t) \in HdcpScripts
<1>1. ASSUME NEW g \in Asks PROVE Script(g) \in AskScripts
  <2>1. CASE g \in DirectGetters
    BY <2>1 DEF Script, DirectGetters, EdidGetters, AskScripts, EdidScripts
  <2>2. CASE g = "WidthInCentimeters"
    BY <2>2 DEF Script, DirectGetters, EdidGetters, AskScripts
  <2> QED BY <1>1, <2>1, <2>2 DEF Asks
<1>2. Script("Connected") \in TestScripts
  BY DEF Script, DirectGetters, EdidGetters, TestScripts
<1>3. Script("GetHDCP") \in HdcpScripts
  BY DEF Script, ScanScript, DirectGetters, EdidGetters, HdcpScripts
<1>4. ASSUME NEW t \in AskScripts
      PROVE  /\ t # <<>> /\ Head(t) \in {"port", "connected", "read"}
             /\ Head(t) # "read" => Tail(t) \in AskScripts
  <2>1. CASE t \in EdidScripts
    BY <2>1, Scripts DEF AskScripts
  <2>2. CASE t = <<"port", "connected", "port", "connected", "read">>
    <3>1. Head(t) = "port" /\ Tail(t) = <<"connected", "port", "connected", "read">>
      BY <2>2
    <3> QED BY <2>2, <3>1 DEF AskScripts
  <2>3. CASE t = <<"connected", "port", "connected", "read">>
    <3>1. Head(t) = "connected" /\ Tail(t) = <<"port", "connected", "read">>
      BY <2>3
    <3> QED BY <2>3, <3>1 DEF AskScripts, EdidScripts
  <2> QED BY <1>4, <2>1, <2>2, <2>3 DEF AskScripts
<1>5. ASSUME NEW t \in TestScripts
      PROVE  /\ t # <<>> /\ Head(t) \in {"port", "connected"}
             /\ Head(t) = "port" => Tail(t) \in TestScripts
  <2>1. CASE t = <<"port", "connected">>
    <3>1. Head(t) = "port" /\ Tail(t) = <<"connected">>
      BY <2>1
    <3> QED BY <2>1, <3>1 DEF TestScripts
  <2>2. CASE t = <<"connected">>
    BY <2>2
  <2> QED BY <1>5, <2>1, <2>2 DEF TestScripts
<1>6. ASSUME NEW t \in HdcpScripts
      PROVE  /\ t # <<>> /\ Head(t) \in {"list", "scan", "port", "read"}
             /\ Head(t) # "read" => Tail(t) \in HdcpScripts
  <2>1. CASE t = <<"list", "scan", "port", "read">>
    <3>1. Head(t) = "list" /\ Tail(t) = <<"scan", "port", "read">>
      BY <2>1
    <3> QED BY <2>1, <3>1 DEF HdcpScripts
  <2>2. CASE t = <<"scan", "port", "read">>
    <3>1. Head(t) = "scan" /\ Tail(t) = <<"port", "read">>
      BY <2>2
    <3> QED BY <2>2, <3>1 DEF HdcpScripts
  <2>3. CASE t = <<"port", "read">>
    <3>1. Head(t) = "port" /\ Tail(t) = <<"read">>
      BY <2>3
    <3> QED BY <2>3, <3>1 DEF HdcpScripts
  <2>4. CASE t = <<"read">>
    BY <2>4
  <2> QED BY <1>6, <2>1, <2>2, <2>3, <2>4 DEF HdcpScripts
<1> QED BY <1>1, <1>2, <1>3, <1>4, <1>5, <1>6

\* A caller whose own query did not move keeps its answer.
Answer(c) == WellAsked(c) /\ AskInv(c) /\ TestInv(c) /\ HdcpInv(c) /\ OutInv(c)

LEMMA OthersAnswer ==
  ASSUME NEW c \in Callers, Answer(c), query'[c] = query[c], during[c] \subseteq during'[c]
  PROVE  Answer(c)'
BY DEF Answer, WellAsked, AskInv, TestInv, HdcpInv, OutInv, HasRead, WasOff

LEMMA AnswersLocally ==
  ASSUME Inv, AnswersInv, NEW k \in Callers, NEW r, Becomes(k, r), PreferenceOK', Answer(k)'
  PROVE  AnswersInv'
<1>1. ASSUME NEW c \in Callers, c # k PROVE Answer(c)'
  <2>1. query'[c] = query[c] /\ during'[c] = during[c]
    BY <1>1 DEF Inv, Shape, Becomes
  <2> QED BY <1>1, <2>1, OthersAnswer DEF AnswersInv, Answer
<1> QED BY <1>1 DEF AnswersInv, Answer

LEMMA ProceedAnswers ==
  ASSUME Inv, AnswersInv, NEW k \in Callers, query[k].todo # <<>>, Head(query[k].todo) # "read",
         query[k].getter = "Connected" => Head(query[k].todo) = "port",
         Proceed(k), UNCHANGED <<sink, during, preference>>
  PROVE  AnswersInv'
<1> DEFINE r == [query[k] EXCEPT !.todo = Tail(query[k].todo)]
<1>1. /\ Becomes(k, r) /\ query'[k] = r /\ r.todo = Tail(query[k].todo)
      /\ r.getter = query[k].getter /\ r.arg = query[k].arg /\ r.at = query[k].at
      /\ r.next = query[k].next /\ r.out = query[k].out /\ r.code = query[k].code
      /\ r.thrown = query[k].thrown
  BY ProceedBecomes
<1> HIDE DEF r
<1>2. WellAsked(k)' /\ PreferenceOK'
  BY <1>1 DEF AnswersInv, WellAsked, PreferenceOK
<1>3. query[k].getter \in Asks => r.todo \in AskScripts
  BY <1>1, AnswerScripts DEF AnswersInv, AskInv
<1>4. query[k].getter = "Connected" => r.todo \in TestScripts
  BY <1>1, AnswerScripts DEF AnswersInv, TestInv
<1>5. query[k].getter = "GetHDCP" => r.todo \in HdcpScripts
  BY <1>1, AnswerScripts DEF AnswersInv, HdcpInv
<1>6. AskInv(k)'
  BY <1>1, <1>3 DEF AnswersInv, AskInv
<1>7. TestInv(k)' /\ HdcpInv(k)'
  BY <1>1, <1>4, <1>5, AnswerScripts DEF TestInv, HdcpInv
<1>8. OutInv(k)'
  <2>1. r.getter \in Unwritten => r.todo # <<>>
    BY <1>1, <1>3, <1>4, AnswerScripts DEF Unwritten, Asks, DirectGetters, EdidGetters
  <2> QED BY <1>1, <2>1 DEF AnswersInv, OutInv
<1> QED BY <1>1, <1>2, <1>6, <1>7, <1>8, AnswersLocally DEF Answer

LEMMA FinishAnswers ==
  ASSUME Inv, AnswersInv, NEW k \in Callers, query[k].todo # <<>>, NEW out, NEW code,
         Finish(k, out, code), UNCHANGED <<sink, during>>, PreferenceOK',
         query[k].getter \in Asks =>
           \/ WasOff(k, DefaultPort)
           \/ \E s \in Sinks :
                /\ <<DefaultPort, s>> \in during[k] /\ code = CodeOfRead(query[k].getter, s)
                /\ out = Value(query[k].getter, s, "MAX",
                               Initially(query[k].getter, query[k].arg), query[k].arg),
         query[k].getter = "GetHDCP" /\ query[k].next <= Len(Ports) => out \in Answers,
         query[k].getter \notin Silent =>
           out # Unset \/ (query[k].getter \in Unwritten /\ code = "ERROR_GENERAL")
  PROVE  AnswersInv'
<1>1. PICK r : /\ Becomes(k, r) /\ query'[k] = r /\ r.todo = <<>> /\ r.out = out /\ r.code = code
               /\ r.getter = query[k].getter /\ r.arg = query[k].arg /\ r.at = query[k].at
               /\ r.next = query[k].next /\ r.thrown = query[k].thrown
  BY FinishBecomes
<1>2. WellAsked(k)'
  BY <1>1 DEF AnswersInv, WellAsked
<1>3. AskInv(k)'
  <2>1. CASE query[k].getter \notin Asks
    BY <1>1, <2>1 DEF AskInv
  <2>2. CASE WasOff(k, DefaultPort)
    BY <1>1, <2>2 DEF AskInv, WasOff, Becomes
  <2>3. ASSUME NEW s \in Sinks, <<DefaultPort, s>> \in during[k],
               code = CodeOfRead(query[k].getter, s),
               out = Value(query[k].getter, s, "MAX",
                           Initially(query[k].getter, query[k].arg), query[k].arg)
        PROVE  AskInv(k)'
    <3>1. HasRead(k, s)'
      BY <1>1, <2>3 DEF HasRead, Becomes
    <3> QED BY <1>1, <3>1 DEF AskInv
  <2> QED BY <2>1, <2>2, <2>3
<1>4. TestInv(k)' /\ HdcpInv(k)'
  BY <1>1 DEF TestInv, HdcpInv
<1>5. OutInv(k)'
  BY <1>1 DEF OutInv
<1> QED BY <1>1, <1>2, <1>3, <1>4, <1>5, AnswersLocally DEF Answer

\* What the next library call of a script can be.
LEMMA NextCall ==
  ASSUME AnswersInv, NEW k \in Callers, query[k].todo # <<>>
  PROVE  /\ query[k].getter \in Asks =>
              /\ Head(query[k].todo) \in {"port", "connected", "read"}
              /\ query[k].at = DefaultPort /\ query[k].out = Initially(query[k].getter, query[k].arg)
         /\ query[k].getter = "Connected" => Head(query[k].todo) \in {"port", "connected"}
         /\ query[k].getter = "GetHDCP" => Head(query[k].todo) \in {"list", "scan", "port", "read"}
BY AnswerScripts DEF AnswersInv, AskInv, TestInv, HdcpInv

LEMMA ConnectedAnswers ==
  ASSUME Inv, AnswersInv, NEW k \in Callers, IsDisplayConnected(k)
  PROVE  AnswersInv'
<1>1. /\ query[k].todo # <<>> /\ Head(query[k].todo) = "connected"
      /\ UNCHANGED <<sink, during, preference>> /\ PreferenceOK'
  BY DEF IsDisplayConnected, At, Outside, AnswersInv, PreferenceOK
<1>2. query[k].getter # "GetHDCP"
  BY <1>1, NextCall
<1>3. CASE query[k].getter = "Connected"
  <2>1. Finish(k, Plugged(query[k].at), "ERROR_NONE")
    BY <1>3 DEF IsDisplayConnected
  <2>2. Plugged(query[k].at) \in BOOLEAN
    BY Zenon DEF Plugged
  <2>3. \A flag \in BOOLEAN : flag # Unset
    BY UnsetAssumption
  <2>4. query[k].getter \notin Asks
    BY <1>3 DEF Asks, DirectGetters, EdidGetters
  <2> HIDE DEF Plugged
  <2> QED BY <1>1, <1>2, <2>1, <2>2, <2>3, <2>4, FinishAnswers
<1>4. CASE query[k].getter # "Connected" /\ Plugged(query[k].at)
  <2>1. Proceed(k)
    BY <1>4 DEF IsDisplayConnected
  <2> QED BY <1>1, <1>4, <2>1, ProceedAnswers
<1>5. CASE query[k].getter # "Connected" /\ ~Plugged(query[k].at)
  <2>1. Finish(k, query[k].out, WhenDisconnected(query[k].getter))
    BY <1>5 DEF IsDisplayConnected
  <2>2. query[k].getter \in Asks => WasOff(k, DefaultPort)
    <3>1. query[k].getter \in Asks => sink[DefaultPort] = NoSink
      BY <1>1, <1>5, NextCall DEF Plugged
    <3>2. <<DefaultPort, sink[DefaultPort]>> \in during[k]
      BY <1>1, PortsAssumption DEF Inv, Present, PortSet
    <3> QED BY <3>1, <3>2 DEF WasOff
  <2>3. query[k].getter \notin Silent =>
          \/ query[k].out # Unset
          \/ query[k].getter \in Unwritten /\ WhenDisconnected(query[k].getter) = "ERROR_GENERAL"
    BY <1>5 DEF AnswersInv, OutInv, Unwritten, WhenDisconnected, Code
  <2> QED BY <1>1, <1>2, <2>1, <2>2, <2>3, FinishAnswers
<1> QED BY <1>3, <1>4, <1>5

LEMMA ScanAnswers ==
  ASSUME Inv, AnswersInv, NEW k \in Callers, ScanPort(k)
  PROVE  AnswersInv'
<1>1. /\ query[k].todo # <<>> /\ Head(query[k].todo) = "scan"
      /\ UNCHANGED <<sink, during, preference>> /\ PreferenceOK'
  BY DEF ScanPort, At, Outside, AnswersInv, PreferenceOK
<1>2. query[k].getter \notin Asks /\ query[k].getter # "Connected"
  BY <1>1, NextCall
<1>3. query[k].getter \notin Silent => query[k].out # Unset
  BY <1>2 DEF AnswersInv, OutInv, Unwritten, Asks, DirectGetters, EdidGetters
<1>4. CASE query[k].next > Len(Ports)
  <2>1. Finish(k, query[k].out, "ERROR_NONE")
    BY <1>4 DEF ScanPort
  <2>2. query[k].getter = "GetHDCP" => ~(query[k].next <= Len(Ports))
    <3>1. query[k].getter = "GetHDCP" => Scans(k)
      BY <1>1, Scripts DEF Inv, ScanInv, Scanning, Found, NotFound
    <3>2. query[k].getter = "GetHDCP" => query[k].next \in Nat /\ Len(Ports) \in Nat
      BY <3>1, PortsAssumption DEF Scans
    <3> QED BY <1>4, <3>2
  <2> QED BY <1>1, <1>2, <1>3, <2>1, <2>2, FinishAnswers
<1>5. CASE ~(query[k].next > Len(Ports))
  <2>1. PICK r : /\ query' = [query EXCEPT ![k] = r] /\ DOMAIN r = Fields
                 /\ r.getter = query[k].getter /\ r.arg = query[k].arg /\ r.out = query[k].out
                 /\ r.code = query[k].code /\ r.todo \in {query[k].todo, Tail(query[k].todo)}
                 /\ r.at \in PortSet /\ r.next \in 1..Len(Ports) + 1
    <3> query[k].next \in 1..Len(Ports) /\ query[k].at \in PortSet
      BY <1>5, PortsAssumption DEF AnswersInv, WellAsked
    <3>1. CASE Plugged(Ports[query[k].next]) /\ Suits(query[k].getter, Ports[query[k].next])
      <4> DEFINE r == [query[k] EXCEPT !.at = Ports[query[k].next], !.todo = Tail(query[k].todo)]
      <4>1. query' = [query EXCEPT ![k] = r]
        BY <1>5, <3>1 DEF ScanPort, Inv, Shape
      <4>2. /\ DOMAIN r = Fields /\ r.getter = query[k].getter /\ r.arg = query[k].arg
            /\ r.out = query[k].out /\ r.code = query[k].code /\ r.todo = Tail(query[k].todo)
            /\ r.at = Ports[query[k].next] /\ r.next = query[k].next
        BY DEF Inv, Shape, Fields
      <4>3. r.at \in PortSet /\ r.next \in 1..Len(Ports) + 1
        BY <4>2, PortsAssumption DEF PortSet
      <4> HIDE DEF r
      <4> QED BY <4>1, <4>2, <4>3
    <3>2. CASE ~(Plugged(Ports[query[k].next]) /\ Suits(query[k].getter, Ports[query[k].next]))
      <4> DEFINE r == [query[k] EXCEPT !.next = query[k].next + 1]
      <4>1. query' = [query EXCEPT ![k] = r]
        BY <1>5, <3>2 DEF ScanPort, NextIndex, Inv, Shape
      <4>2. /\ DOMAIN r = Fields /\ r.getter = query[k].getter /\ r.arg = query[k].arg
            /\ r.out = query[k].out /\ r.code = query[k].code /\ r.todo = query[k].todo
            /\ r.at = query[k].at /\ r.next = query[k].next + 1
        BY DEF Inv, Shape, Fields
      <4>3. r.at \in PortSet /\ r.next \in 1..Len(Ports) + 1
        BY <4>2, PortsAssumption
      <4> HIDE DEF r
      <4> QED BY <4>1, <4>2, <4>3
    <3> QED BY <3>1, <3>2
  <2>2. query'[k] = r /\ Becomes(k, r)
    BY <1>1, <2>1 DEF Inv, Shape, Becomes
  <2>3. WellAsked(k)' /\ AskInv(k)' /\ TestInv(k)' /\ OutInv(k)'
    BY <1>2, <1>3, <2>1, <2>2 DEF AnswersInv, WellAsked, AskInv, TestInv, OutInv
  <2>4. query[k].getter = "GetHDCP" => r.todo \in HdcpScripts
    <3>1. query[k].getter = "GetHDCP" => query[k].todo \in HdcpScripts
      BY <1>1 DEF AnswersInv, HdcpInv
    <3>2. \A t \in HdcpScripts : Head(t) = "scan" => Tail(t) \in HdcpScripts
      BY AnswerScripts
    <3> QED BY <1>1, <2>1, <3>1, <3>2
  <2>5. HdcpInv(k)'
    BY <2>1, <2>2, <2>4, AnswerScripts DEF HdcpInv
  <2> QED BY <1>1, <2>2, <2>3, <2>5, AnswersLocally DEF Answer
<1> QED BY <1>4, <1>5

LEMMA ReadAnswers ==
  ASSUME Inv, AnswersInv, NEW k \in Callers, Read(k)
  PROVE  AnswersInv'
<1> DEFINE q == query[k]
           s == sink[q.at]
           out == Value(q.getter, s, preference[q.at], q.out, q.arg)
           code == CodeOfRead(q.getter, s)
<1>1. /\ q.todo # <<>> /\ Head(q.todo) = "read" /\ UNCHANGED <<sink, during, preference>>
      /\ PreferenceOK' /\ Finish(k, out, code)
  BY DEF Read, At, Outside, AnswersInv, PreferenceOK
<1>2. q.getter # "Connected"
  BY <1>1, NextCall
<1>3. ASSUME q.getter \in Asks, ~WasOff(k, DefaultPort)
      PROVE  \E d \in Sinks :
               /\ <<DefaultPort, d>> \in during[k] /\ code = CodeOfRead(q.getter, d)
               /\ out = Value(q.getter, d, "MAX", Initially(q.getter, q.arg), q.arg)
  <2>1. q.at = DefaultPort /\ q.out = Initially(q.getter, q.arg)
    BY <1>1, <1>3, NextCall
  <2>2. <<DefaultPort, s>> \in during[k]
    BY <1>1, <2>1, PortsAssumption DEF Inv, Present, PortSet
  <2>3. s \in Sinks
    BY <1>3, <2>1, <2>2, PortsAssumption DEF Inv, Shape, PortSet, WasOff
  <2>4. out = Value(q.getter, s, "MAX", q.out, q.arg)
    BY <1>3, PreferenceIsHdcp
  <2> QED BY <2>1, <2>2, <2>3, <2>4
<1>4. ASSUME q.getter = "GetHDCP" PROVE out \in Answers
  <2>1. Found(k)
    BY <1>1, <1>4, FoundBeforeRead DEF Scanning
  <2>2. preference[q.at] \in Preferences
    BY <2>1, PortsAssumption DEF Found, AnswersInv, PreferenceOK, PortSet
  <2>3. out = ProtectionOf[preference[q.at]]
    BY <1>4 DEF Value, EdidGetters
  <2> QED BY <2>2, <2>3 DEF ProtectionOf, Preferences, Answers
<1>5. ASSUME q.getter \notin Silent
      PROVE  out # Unset \/ (code = "ERROR_GENERAL" /\ q.getter \in Unwritten)
  <2>1. q.getter \in Queries /\ q.arg \in Arguments(q.getter) /\ q.at \in PortSet
    BY <1>5 DEF AnswersInv, WellAsked, Silent
  <2>2. q.out # Unset \/ q.getter \in Unwritten
    BY <1>5 DEF AnswersInv, OutInv
  <2>3. s \in Sinks \union {NoSink}
    BY <2>1 DEF Inv, Shape
  <2>4. q.getter = "EDID" => q.arg \in Nat
    BY <2>1, LengthsAssumption DEF Arguments
  <2> QED BY <1>2, <1>5, <2>1, <2>2, <2>3, <2>4, ReadsWrite
<1> HIDE DEF out, code
<1> QED BY <1>1, <1>3, <1>4, <1>5, FinishAnswers

\* SetHDCP writes one of the three preferences and nothing else.
LEMMA WriteAnswers ==
  ASSUME Inv, AnswersInv, NEW k \in Callers, Write(k)
  PROVE  AnswersInv'
<1>1. /\ query[k].todo # <<>> /\ Head(query[k].todo) = "write" /\ UNCHANGED <<sink, during>>
      /\ Finish(k, query[k].out, "ERROR_NONE")
      /\ preference' \in {preference,
                          [preference EXCEPT ![query[k].at] = Protocol(query[k].arg)]}
  BY DEF Write, At, Outside
<1>2. query[k].getter \notin Asks \union {"Connected", "GetHDCP"}
  BY <1>1, NextCall
<1>3. query[k].getter \notin Silent => query[k].out # Unset
  BY <1>2 DEF AnswersInv, OutInv, Unwritten, Asks, DirectGetters, EdidGetters
<1>4. Protocol(query[k].arg) \in Preferences
  BY DEF Protocol, Lookup, ProtocolOf, Preferences
<1>5. PreferenceOK'
  BY <1>1, <1>4 DEF AnswersInv, PreferenceOK
<1> QED BY <1>1, <1>2, <1>3, <1>5, FinishAnswers

LEMMA ThrowsAnswers ==
  ASSUME Inv, AnswersInv, NEW k \in Callers, Throws(k)
  PROVE  AnswersInv'
<1> DEFINE code == WhenThrown(query[k].getter)
           r == [query[k] EXCEPT !.todo = <<>>, !.code = code, !.thrown = TRUE]
<1>1. /\ query[k].todo # <<>> /\ UNCHANGED <<sink, during, preference>>
      /\ query' = [query EXCEPT ![k] = r]
  BY DEF Throws, Outside, Inv, Shape
<1>2. DOMAIN r = Fields /\ query'[k] = r
  BY <1>1 DEF Inv, Shape
<1>3. /\ r.todo = <<>> /\ r.thrown = TRUE /\ r.code = code /\ r.out = query[k].out
      /\ r.getter = query[k].getter /\ r.arg = query[k].arg
      /\ r.at = query[k].at /\ r.next = query[k].next
  BY DEF Inv, Shape, Fields
<1>4. Becomes(k, r)
  BY <1>1, <1>2, <1>3 DEF Becomes
<1> HIDE DEF r
<1>5. WellAsked(k)' /\ PreferenceOK'
  BY <1>1, <1>2, <1>3 DEF AnswersInv, WellAsked, PreferenceOK
<1>6. AskInv(k)' /\ TestInv(k)' /\ HdcpInv(k)'
  BY <1>2, <1>3 DEF AskInv, TestInv, HdcpInv
<1>7. query[k].getter \in Unwritten => code = "ERROR_GENERAL"
  BY DEF Unwritten, WhenThrown, Code
<1>8. OutInv(k)'
  BY <1>2, <1>3, <1>7 DEF AnswersInv, OutInv
<1> QED BY <1>4, <1>5, <1>6, <1>8, AnswersLocally DEF Answer

LEMMA BeginAnswers ==
  ASSUME Inv, AnswersInv, NEW k \in Callers, NEW g \in Asked, NEW a \in Arguments(g),
         Begin(k, g, a)
  PROVE  AnswersInv'
<1> DEFINE r == [query[k] EXCEPT !.getter = g, !.arg = a, !.todo = Script(g),
                                 !.out = Initially(g, a)]
<1>1. /\ query[k] = Idle /\ query' = [query EXCEPT ![k] = r] /\ preference' = preference
      /\ during' = [during EXCEPT ![k] = {<<p, sink[p]>> : p \in PortSet}]
  BY DEF Begin, Inv, Shape
<1>2. query'[k] = r
  BY <1>1 DEF Inv, Shape
<1>3. /\ r.getter = g /\ r.arg = a /\ r.todo = Script(g) /\ r.out = Initially(g, a)
      /\ r.next = query[k].next /\ r.code = query[k].code /\ r.at = query[k].at
  BY DEF Inv, Shape, Fields
<1> HIDE DEF r
<1>4. r.next = 1 /\ r.code = "ERROR_NONE" /\ r.at = DefaultPort
  BY <1>1, <1>3 DEF Idle
<1>5. g \in Queries
  BY AskedAssumption
<1>6. WellAsked(k)' /\ PreferenceOK'
  BY <1>1, <1>2, <1>3, <1>4, <1>5, PortsAssumption DEF AnswersInv, WellAsked, PreferenceOK, PortSet
<1>7. AskInv(k)' /\ TestInv(k)' /\ HdcpInv(k)'
  BY <1>2, <1>3, <1>4, AnswerScripts DEF AskInv, TestInv, HdcpInv
<1>8. OutInv(k)'
  <2>1. g \in Unwritten => Script(g) # <<>>
    BY AnswerScripts DEF Unwritten, Asks, DirectGetters, EdidGetters
  <2>2. g \notin Silent /\ g \notin Unwritten => Initially(g, a) # Unset
    BY <1>5, StartsWritten
  <2> QED BY <1>2, <1>3, <2>1, <2>2 DEF OutInv
<1>9. ASSUME NEW c \in Callers, c # k PROVE Answer(c)'
  <2>1. query'[c] = query[c] /\ during'[c] = during[c]
    BY <1>1, <1>9 DEF Inv, Shape
  <2> QED BY <1>9, <2>1, OthersAnswer DEF AnswersInv, Answer
<1> QED BY <1>6, <1>7, <1>8, <1>9 DEF AnswersInv, Answer

LEMMA ReturnAnswers ==
  ASSUME Inv, AnswersInv, NEW k \in Callers, Return(k)
  PROVE  AnswersInv'
<1>1. /\ query' = [query EXCEPT ![k] = Idle] /\ preference' = preference
      /\ during' = [during EXCEPT ![k] = {}]
  BY DEF Return
<1>2. query'[k] = Idle
  BY <1>1 DEF Inv, Shape
<1>3. ASSUME NEW c \in Callers, c # k PROVE Answer(c)'
  <2>1. query'[c] = query[c] /\ during'[c] = during[c]
    BY <1>1, <1>3 DEF Inv, Shape
  <2> QED BY <1>3, <2>1, OthersAnswer DEF AnswersInv, Answer
<1>4. Idle.getter = "none" /\ Idle.at = DefaultPort /\ Idle.next = 1
  BY DEF Idle
<1>5. WellAsked(k)' /\ PreferenceOK'
  BY <1>1, <1>2, <1>4, PortsAssumption
     DEF AnswersInv, WellAsked, PreferenceOK, PortSet, Queries, DirectGetters, EdidGetters
<1>6. AskInv(k)' /\ TestInv(k)' /\ HdcpInv(k)' /\ OutInv(k)'
  BY <1>2, <1>4 DEF AskInv, TestInv, HdcpInv, OutInv, Silent, Asks, DirectGetters, EdidGetters
<1> QED BY <1>3, <1>5, <1>6 DEF AnswersInv, Answer

LEMMA AnswersStart == Init => AnswersInv
<1> SUFFICES ASSUME Init PROVE AnswersInv
  OBVIOUS
<1>1. PreferenceOK
  BY DEF Init, PreferenceOK, Preferences
<1>2. ASSUME NEW c \in Callers PROVE WellAsked(c) /\ AskInv(c) /\ TestInv(c) /\ HdcpInv(c) /\ OutInv(c)
  <2>1. query[c] = Idle
    BY DEF Init
  <2>2. Idle.getter = "none" /\ Idle.at = DefaultPort /\ Idle.next = 1
    BY DEF Idle
  <2>3. WellAsked(c)
    BY <2>1, <2>2, PortsAssumption DEF WellAsked, PortSet, Queries, DirectGetters, EdidGetters
  <2> QED BY <2>1, <2>2, <2>3
          DEF AskInv, TestInv, HdcpInv, OutInv, Silent, Asks, DirectGetters, EdidGetters
<1> QED BY <1>1, <1>2 DEF AnswersInv

LEMMA AnswersStep == Inv /\ AnswersInv /\ [Next]_vars => AnswersInv'
<1> SUFFICES ASSUME Inv, AnswersInv, [Next]_vars PROVE AnswersInv'
  OBVIOUS
<1>1. ASSUME NEW p \in PortSet, NEW s \in Sinks \union {NoSink}, HotPlug(p, s) PROVE AnswersInv'
  <2>1. \A c \in Callers : query'[c] = query[c] /\ during[c] \subseteq during'[c]
    BY <1>1 DEF HotPlug
  <2>2. PreferenceOK'
    BY <1>1 DEF HotPlug, AnswersInv, PreferenceOK
  <2> QED BY <2>1, <2>2, OthersAnswer DEF AnswersInv, Answer
<1>2. ASSUME NEW c \in Callers, NEW g \in Asked, NEW a \in Arguments(g), Begin(c, g, a)
      PROVE  AnswersInv'
  BY <1>2, BeginAnswers
<1>3. ASSUME NEW c \in Callers, GetPort(c) \/ GetPorts(c) PROVE AnswersInv'
  <2>1. /\ query[c].todo # <<>> /\ Head(query[c].todo) \in {"port", "list"}
        /\ Proceed(c) /\ UNCHANGED <<sink, during, preference>>
    BY <1>3 DEF GetPort, GetPorts, At, Outside
  <2>2. query[c].getter = "Connected" => Head(query[c].todo) = "port"
    BY <2>1, NextCall
  <2> QED BY <2>1, <2>2, ProceedAnswers
<1>4. ASSUME NEW c \in Callers, Step(c) PROVE AnswersInv'
  BY <1>3, <1>4, ConnectedAnswers, ScanAnswers, ReadAnswers, WriteAnswers, ReturnAnswers DEF Step
<1>5. ASSUME NEW c \in Callers, Throws(c) PROVE AnswersInv'
  BY <1>5, ThrowsAnswers
<1>6. CASE UNCHANGED vars
  <2>1. query' = query /\ during' = during /\ preference' = preference
    BY <1>6 DEF vars
  <2> QED BY <2>1, OthersAnswer DEF AnswersInv, Answer, PreferenceOK
<1> QED BY <1>1, <1>2, <1>4, <1>5, <1>6 DEF Next, Rest

LEMMA AlwaysAnswers == Spec => []AnswersInv
<1> QED BY AnswersStart, AnswersStep, AlwaysInv, PTL DEF Spec

\* PlatformImplementation.cpp:321-880: whatever is unplugged or thrown between
\* the library calls, a query that returns ERROR_NONE has written its output;
\* HeightInCentimeters and the HDCP getter may leave it, but only after a throw
\* or with no display to answer for.
THEOREM NothingIsLeftUnwritten == Spec => []SuccessIsAnAnswer
<1>1. ASSUME Inv, AnswersInv, NEW c \in Callers, Done(c), query[c].getter = "HeightInCentimeters",
             query[c].out = Unset, ~query[c].thrown, ~WasOff(c, DefaultPort)
      PROVE  \E s \in Sinks : <<DefaultPort, s>> \in during[c] /\ s.edid.size <= 22
  <2>1. PICK s \in Sinks : HasRead(c, s)
    BY <1>1, AnswerScripts DEF AnswersInv, AskInv, Asks, DirectGetters, Done
  <2>2. <<DefaultPort, s>> \in during[c]
        /\ query[c].out = Centimetres("HeightInCentimeters", s.edid, Unset)
    BY <1>1, <2>1 DEF HasRead, Value, EdidGetters, Initially
  <2>3. s.edid.cm[2] \in Nat /\ s.edid.size \in Nat
    BY EdidAssumption, LengthsAssumption
  <2>4. ~(s.edid.size > 22)
    BY <1>1, <2>2, <2>3, UnsetAssumption DEF Centimetres
  <2>5. s.edid.size <= 22
    BY <2>3, <2>4
  <2> QED BY <2>2, <2>5
<1>2. ASSUME Inv, AnswersInv, NEW c \in Callers, Done(c), query[c].getter = "GetHDCP",
             query[c].out = Unset, ~query[c].thrown,
             NEW i \in DOMAIN Ports, Ports[i] \in Eligible("GetHDCP")
      PROVE  WasOff(c, Ports[i])
  <2>1. (Found(c) \/ NotFound(c)) /\ PrefixOff(c, "GetHDCP", query[c].next)
    BY <1>2, Scripts DEF Inv, ScanInv, Scans, Done, Scanning
  <2>2. Unset \notin Answers
    BY UnsetAssumption DEF Texts, Protections, Answers
  <2>3. ~(query[c].next <= Len(Ports))
    BY <1>2, <2>2 DEF AnswersInv, HdcpInv, Done
  <2>4. i \in 1..query[c].next - 1
    BY <2>1, <2>3, PortsAssumption DEF Found, NotFound
  <2>5. Suits("GetHDCP", Ports[i])
    BY <1>2 DEF Suits, Eligible
  <2> QED BY <2>1, <2>4, <2>5 DEF PrefixOff
<1>3. ASSUME AnswersInv, NEW c \in Callers, Done(c), query[c].code = "ERROR_NONE",
             query[c].getter # "SetHDCP", query[c].out = Unset
      PROVE  query[c].getter \in {"HeightInCentimeters", "GetHDCP"}
  BY <1>3 DEF AnswersInv, OutInv, Silent, Done
<1>4. Inv /\ AnswersInv => SuccessIsAnAnswer
  BY <1>1, <1>2, <1>3 DEF SuccessIsAnAnswer
<1> QED BY <1>4, AlwaysInv, AlwaysAnswers, PTL

\* PlatformImplementation.cpp:321-880: a display that stays plugged in on a
\* library that does not throw is answered for, without an error and by what
\* the port showed, and the HDCP preference is told whenever a panel stays on.
THEOREM SteadyAnswers == Spec => []SteadyDisplayIsAnswered
<1>1. ASSUME Inv, AnswersInv, NEW c \in Callers, Answered(c),
             query[c].getter \in Asks, ~WasOff(c, DefaultPort),
             \A s \in Sinks : <<DefaultPort, s>> \in during[c] => s.edid.valid
      PROVE  /\ query[c].code = "ERROR_NONE"
             /\ \E s \in Sinks :
                  /\ <<DefaultPort, s>> \in during[c]
                  /\ query[c].out = Value(query[c].getter, s, preference[DefaultPort], Unset,
                                          query[c].arg)
  <2>1. PICK s \in Sinks : HasRead(c, s)
    BY <1>1, AnswerScripts DEF AnswersInv, AskInv, Answered, Done
  <2>2. <<DefaultPort, s>> \in during[c] /\ s.edid.valid
    BY <1>1, <2>1 DEF HasRead
  <2>3. query[c].code = "ERROR_NONE"
    BY <2>1, <2>2 DEF HasRead, CodeOfRead, Code
  <2>4. Value(query[c].getter, s, "MAX", Initially(query[c].getter, query[c].arg), query[c].arg)
          = Value(query[c].getter, s, preference[DefaultPort], Unset, query[c].arg)
    BY <1>1, <2>2, PreferenceIsHdcp, GoodEdidAnswers
  <2> QED BY <2>1, <2>2, <2>3, <2>4 DEF HasRead
<1>2. ASSUME Inv, AnswersInv, NEW c \in Callers, Answered(c), query[c].getter = "GetHDCP",
             NEW i \in DOMAIN Ports, PortType[Ports[i]] \in {"HDMI", "Internal"},
             ~WasOff(c, Ports[i])
      PROVE  query[c].out \in Answers
  <2>1. (Found(c) \/ NotFound(c)) /\ PrefixOff(c, "GetHDCP", query[c].next)
    BY <1>2, Scripts DEF Inv, ScanInv, Scans, Answered, Done, Scanning
  <2>2. ~NotFound(c)
    <3>1. i \in 1..Len(Ports) /\ Len(Ports) \in Nat
      BY PortsAssumption
    <3>2. Suits("GetHDCP", Ports[i])
      BY <1>2 DEF Suits
    <3> QED BY <1>2, <2>1, <3>1, <3>2 DEF NotFound, PrefixOff
  <2>3. query[c].next <= Len(Ports)
    BY <2>1, <2>2, PortsAssumption DEF Found
  <2> QED BY <1>2, <2>3 DEF AnswersInv, HdcpInv, Answered, Done
<1>3. Inv /\ AnswersInv => SteadyDisplayIsAnswered
  <2> SUFFICES ASSUME Inv, AnswersInv PROVE SteadyDisplayIsAnswered
    OBVIOUS
  <2> QED BY <1>1, <1>2 DEF SteadyDisplayIsAnswered, Asks, Answers
<1> QED BY <1>3, AlwaysInv, AlwaysAnswers, PTL
=============================================================================
