----------------------------- MODULE DSQueries -----------------------------
(***************************************************************************)
(* The queries of the DeviceSettings backend: the getters of               *)
(* IConnectionProperties, IDisplayProperties and IHDRProperties and the    *)
(* HDCP setter.  Each is a sequence of device:: library calls under no     *)
(* lock.  Any of them may throw, and displays come and go between them; a  *)
(* call that got past isDisplayConnected() may read a port that has just   *)
(* lost its display.                                                       *)
(*                                                                         *)
(* The library is external: a port shows one display or NoSink, and a read *)
(* gives the value of whatever the port shows, or throws.                  *)
(***************************************************************************)
EXTENDS Naturals, Sequences, FiniteSets

CONSTANTS
  Callers,      \* threads with a query under way
  Ports,        \* getVideoOutputPorts(), a sequence
  PortType,     \* [port |-> "HDMI", "Internal" or another type]
  DefaultPort,  \* getDefaultVideoPortName()
  Sinks,        \* displays: records of what the library reads from each
  NoSink,       \* what it reads from a port without a display
  STBFormats,   \* dsHDRSTANDARD bits of getVideoDevices().at(0)
  Unset,        \* an output the query has not written
  MaxLength,    \* bound of uint16_t (65535 in the code)
  Lengths,      \* buffer lengths given to EDID
  Asked,        \* the queries the callers make
  MaxCalls,     \* bound: queries
  MaxChanges    \* bound: displays plugged or unplugged

ASSUME SinksAssumption == NoSink \notin Sinks
ASSUME PortsAssumption == DefaultPort \in DOMAIN PortType
                          /\ Ports \in Seq(DOMAIN PortType)
ASSUME LengthsAssumption == MaxLength \in Nat /\ Lengths \subseteq Nat
                            /\ \A s \in Sinks \union {NoSink} : s.edid.size \in Nat
\* What the external parser makes of an EDID: numbers, and EDID_Verify accepts
\* none that is too short for the bytes read without it.
ASSUME EdidAssumption ==
  \A s \in Sinks \union {NoSink} :
    /\ {s.edid.width, s.edid.height, s.edid.refresh, s.edid.cm[1], s.edid.cm[2]} \subseteq Nat
    /\ s.edid.valid => s.edid.size > 22

VARIABLES
  sink,         \* the display each port shows
  preference,   \* the HDMI preference of each port
  query,        \* per caller, the query under way
  during,       \* <<port, display>> pairs there have been during the query
  calls, changes

vars == <<sink, preference, query, during, calls, changes>>

PortSet == DOMAIN PortType
Plugged(p) == sink[p] # NoSink
MinOf(a, b) == IF a < b THEN a ELSE b

EdidGetters == {"Width", "Height", "VerticalFreq"}
DirectGetters == EdidGetters \union
  {"HeightInCentimeters", "EDID", "ColorSpace", "FrameRate", "ColourDepth",
   "QuantizationRange", "Colorimetry", "EOTF", "TVCapabilities", "HDRSetting"}
Queries == DirectGetters \union
  {"IsAudioPassthrough", "Connected", "WidthInCentimeters", "STBCapabilities",
   "GetCurrentColorimetry", "GetHDCP", "SetHDCP"}
ASSUME AskedAssumption == Asked \subseteq Queries
Protections == {"HDCP_UNENCRYPTED", "HDCP_1X", "HDCP_2X", "HDCP_AUTO"}

Arguments(g) == CASE g = "EDID" -> Lengths
                  [] g = "SetHDCP" -> Protections
                  [] OTHER -> {0}
-----------------------------------------------------------------------------
(* The conversions of the switches and if-chains.                          *)

Lookup(table, x, default) == IF x \in DOMAIN table THEN table[x] ELSE default

ColourSpaceOf ==
  [RGB |-> "FORMAT_RGB_444", YCbCr444 |-> "FORMAT_YCBCR_444",
   YCbCr422 |-> "FORMAT_YCBCR_422", YCbCr420 |-> "FORMAT_YCBCR_420",
   AUTO |-> "FORMAT_OTHER"]

FrameRateOf ==
  [k24 |-> "FRAMERATE_24", k25 |-> "FRAMERATE_25", k30 |-> "FRAMERATE_30",
   k60 |-> "FRAMERATE_60", k23dot98 |-> "FRAMERATE_23_976",
   k29dot97 |-> "FRAMERATE_29_97", k50 |-> "FRAMERATE_50",
   k59dot94 |-> "FRAMERATE_59_94"]

ColourDepthOf ==
  [depth \in {8, 10, 12} |->
     CASE depth = 8 -> "COLORDEPTH_8_BIT" [] depth = 10 -> "COLORDEPTH_10_BIT"
       [] depth = 12 -> "COLORDEPTH_12_BIT"]

QuantizationOf ==
  [LIMITED |-> "QUANTIZATIONRANGE_LIMITED", FULL |-> "QUANTIZATIONRANGE_FULL"]

EotfOf == [HDR10 |-> "EOTF_SMPTE_ST_2084", HLG |-> "EOTF_BT2100"]

MatrixOf ==
  [BT_709 |-> "COLORIMETRY_BT709", SMPTE_170M |-> "COLORIMETRY_SMPTE170M",
   XvYCC_709 |-> "COLORIMETRY_XVYCC709", eXvYCC_601 |-> "COLORIMETRY_XVYCC601",
   BT_2020_NCL |-> "COLORIMETRY_BT2020RGB_YCBCR",
   BT_2020_CL |-> "COLORIMETRY_BT2020YCCBCBRC", UNKNOWN |-> "COLORIMETRY_UNKNOWN"]

\* A set of bits becomes a list without repetitions, here the set of its elements.
HDRTypeOf ==
  [HDR10 |-> "HDR_10", HDR10PLUS |-> "HDR_10PLUS", HLG |-> "HDR_HLG",
   DolbyVision |-> "HDR_DOLBYVISION", TechnicolorPrime |-> "HDR_TECHNICOLOR",
   Invalid |-> "HDR_OFF", SDR |-> "HDR_SDR"]
BuildHDRCapabilities(bits) ==
  IF bits = {} THEN {"HDR_OFF"} ELSE {HDRTypeOf[b] : b \in bits \intersect DOMAIN HDRTypeOf}

ColorimetryOf ==
  [XVYCC601 |-> "COLORIMETRY_XVYCC601", XVYCC709 |-> "COLORIMETRY_XVYCC709",
   SYCC601 |-> "COLORIMETRY_SYCC601", ADOBEYCC601 |-> "COLORIMETRY_OPYCC601",
   ADOBERGB |-> "COLORIMETRY_OPRGB", BT2020CL |-> "COLORIMETRY_BT2020YCCBCBRC",
   BT2020NCL |-> "COLORIMETRY_BT2020YCCBCBRC",
   BT2020RGB |-> "COLORIMETRY_BT2020RGB_YCBCR", DCI_P3 |-> "COLORIMETRY_OTHER"]
ColorimetryList(bits) ==
  IF bits = {} THEN {"COLORIMETRY_UNKNOWN"}
  ELSE {ColorimetryOf[b] : b \in bits \intersect DOMAIN ColorimetryOf}

\* What a query writes: texts, lists, numbers, flags and buffers.  Unset is none.
Entries(table) == {table[x] : x \in DOMAIN table}
Texts ==
  Entries(ColourSpaceOf) \union Entries(FrameRateOf) \union Entries(ColourDepthOf) \union
  Entries(QuantizationOf) \union Entries(EotfOf) \union Entries(MatrixOf) \union
  Protections \union {"FORMAT_UNKNOWN", "FRAMERATE_UNKNOWN", "COLORDEPTH_UNKNOWN", "QUANTIZATIONRANGE_UNKNOWN",
   "EOTF_UNKNOWN", "COLORIMETRY_UNKNOWN", "COLORIMETRY_OTHER", "HDR_10", "HDR_OFF"}
Lists == (SUBSET Entries(HDRTypeOf)) \union
         (SUBSET (Entries(ColorimetryOf) \union {"COLORIMETRY_UNKNOWN"}))
Buffers == [text : {"unknown", "edid"}, length : Nat]
ASSUME UnsetAssumption ==
  /\ Unset \notin Texts /\ Unset \notin Nat /\ Unset \notin BOOLEAN /\ Unset \notin Buffers
  /\ \A list \in Lists : Unset # list

ProtocolOf == [HDCP_1X |-> "1X", HDCP_2X |-> "2X", HDCP_AUTO |-> "MAX"]
Protocol(v) == Lookup(ProtocolOf, v, "MAX")
ProtectionOf ==
  [pref \in {"1X", "2X", "MAX"} |->
     CASE pref = "1X" -> "HDCP_1X" [] pref = "2X" -> "HDCP_2X" [] pref = "MAX" -> "HDCP_AUTO"]

\* The loop copies min(length, size) bytes; size is first cut to a uint16_t.
CopyAll(text, size, length) == [text |-> text, length |-> size]
Copy(text, size, length) ==
  [text |-> text, length |-> MinOf(length, MinOf(size, MaxLength))]

-----------------------------------------------------------------------------
(* What each query has written before it asks the library, and what it     *)
(* answers when there is no display, when a call throws and when it reads. *)

Initially(g, a) ==
  CASE g \in {"Width", "Height", "WidthInCentimeters"} -> 0
    [] g = "IsAudioPassthrough" -> FALSE
    [] g = "EDID" -> Copy("unknown", 7, a)
    [] g = "ColorSpace" -> "FORMAT_UNKNOWN"
    [] g = "FrameRate" -> "FRAMERATE_UNKNOWN"
    [] g = "ColourDepth" -> "COLORDEPTH_UNKNOWN"
    [] g = "QuantizationRange" -> "QUANTIZATIONRANGE_UNKNOWN"
    [] g = "Colorimetry" -> {}
    [] g = "GetCurrentColorimetry" -> "COLORIMETRY_UNKNOWN"
    [] g \in {"TVCapabilities", "STBCapabilities"} -> BuildHDRCapabilities({})
    [] g = "HDRSetting" -> "HDR_OFF"
    [] OTHER -> Unset

Code(failed) == IF failed THEN "ERROR_GENERAL" ELSE "ERROR_NONE"
QuietEotf(g) == Code(g \in {"VerticalFreq", "EDID"})
WhenDisconnected(g) == Code(g \in {"VerticalFreq", "EDID", "EOTF"})
WhenThrown(g) ==
  Code(g \in {"VerticalFreq", "EDID", "EOTF", "IsAudioPassthrough", "Connected", "ColorSpace",
              "FrameRate", "ColourDepth", "QuantizationRange"})

\* Width, Height and VerticalFreq, from an EDID that EDID_Verify accepts.
Dimension(g, edid, old) ==
  IF edid.valid THEN [Width |-> edid.width, Height |-> edid.height,
                      VerticalFreq |-> edid.refresh][g]
                ELSE old
\* WidthInCentimeters and HeightInCentimeters: bytes 21 and 22, with no EDID_Verify.
Centimetres(g, edid, old) ==
  IF edid.size > 22 THEN edid.cm[IF g = "WidthInCentimeters" THEN 1 ELSE 2] ELSE old
HDRInUse(s) == IF s.isHDR THEN "HDR_10" ELSE "HDR_OFF"
AudioPassthrough(s) == s.stereo = "PassThru"
TVFormats(s) == BuildHDRCapabilities(s.formats)
BoxFormats == BuildHDRCapabilities(STBFormats)

\* Value read from display s on a port with HDMI preference pref, given that the
\* query has written old.
Value(g, s, pref, old, a) ==
  CASE g \in EdidGetters -> Dimension(g, s.edid, old)
    [] g \in {"WidthInCentimeters", "HeightInCentimeters"} -> Centimetres(g, s.edid, old)
    [] g = "EDID" -> Copy("edid", s.edid.size, a)
    [] g = "ColorSpace" -> Lookup(ColourSpaceOf, s.colourSpace, "FORMAT_UNKNOWN")
    [] g = "FrameRate" -> Lookup(FrameRateOf, s.frameRate, "FRAMERATE_UNKNOWN")
    [] g = "ColourDepth" -> Lookup(ColourDepthOf, s.depth, "COLORDEPTH_UNKNOWN")
    [] g = "QuantizationRange" -> Lookup(QuantizationOf, s.range, "QUANTIZATIONRANGE_UNKNOWN")
    [] g = "Colorimetry" -> IF s.edid.valid THEN ColorimetryList(s.edid.colorimetry) ELSE old
    [] g = "EOTF" -> Lookup(EotfOf, s.eotf, "EOTF_UNKNOWN")
    [] g = "TVCapabilities" -> TVFormats(s)
    [] g = "STBCapabilities" -> BoxFormats
    [] g = "HDRSetting" -> HDRInUse(s)
    [] g = "GetCurrentColorimetry" -> Lookup(MatrixOf, s.matrix, "COLORIMETRY_OTHER")
    [] g = "IsAudioPassthrough" -> AudioPassthrough(s)
    [] g = "GetHDCP" -> ProtectionOf[pref]
    [] OTHER -> old
CodeOfRead(g, s) == Code(g = "VerticalFreq" /\ ~s.edid.valid)

\* The library calls each query makes, in order.
ScanScript(g) == IF g = "GetCurrentColorimetry" THEN <<"list", "scan", "read">>
                 ELSE <<"list", "scan", "port", IF g = "GetHDCP" THEN "read" ELSE "write">>
Script(g) ==
  CASE g \in DirectGetters -> <<"port", "connected", "read">>
    [] g = "WidthInCentimeters" -> <<"port", "connected", "port", "connected", "read">>
    [] g = "Connected" -> <<"port", "connected">>
    [] g = "IsAudioPassthrough" -> <<"port", "read">>
    [] g = "STBCapabilities" -> <<"read">>
    [] OTHER -> ScanScript(g)
-----------------------------------------------------------------------------
Idle == [getter |-> "none", arg |-> 0, todo |-> <<>>, at |-> DefaultPort, next |-> 1,
         out |-> Unset, code |-> "ERROR_NONE", thrown |-> FALSE]

Init ==
  /\ sink \in [PortSet -> Sinks \union {NoSink}]
  /\ preference = [p \in PortSet |-> "MAX"]
  /\ query = [c \in Callers |-> Idle]
  /\ during = [c \in Callers |-> {}]
  /\ calls = 0 /\ changes = 0

\* A display is plugged in, taken away or exchanged for another.
HotPlug(p, s) ==
  /\ changes < MaxChanges /\ s # sink[p]
  /\ sink' = [sink EXCEPT ![p] = s]
  /\ during' = [c \in Callers |-> IF query[c].todo # <<>> THEN during[c] \union {<<p, s>>}
                                  ELSE during[c]]
  /\ changes' = changes + 1
  /\ UNCHANGED <<preference, query, calls>>

Begin(c, g, a) ==
  /\ query[c] = Idle /\ calls < MaxCalls
  /\ query' = [query EXCEPT ![c].getter = g, ![c].arg = a, ![c].todo = Script(g),
                            ![c].out = Initially(g, a)]
  /\ during' = [during EXCEPT ![c] = {<<p, sink[p]>> : p \in PortSet}]
  /\ calls' = calls + 1
  /\ UNCHANGED <<sink, preference, changes>>

At(c, step) == query[c].todo # <<>> /\ Head(query[c].todo) = step
Outside == <<sink, during, calls, changes>>
Proceed(c) == query' = [query EXCEPT ![c].todo = Tail(@)]
Finish(c, out, code) ==
  query' = [query EXCEPT ![c].todo = <<>>, ![c].out = out, ![c].code = code]

\* getVideoOutputPort(name): the default port, or the one PortName found.
GetPort(c) ==
  /\ At(c, "port")
  /\ Proceed(c)
  /\ UNCHANGED <<Outside, preference>>

IsDisplayConnected(c) ==
  /\ At(c, "connected")
  /\ LET q == query[c] IN
       IF q.getter = "Connected" THEN Finish(c, Plugged(q.at), "ERROR_NONE")
       ELSE IF Plugged(q.at) THEN Proceed(c)
       ELSE \* WidthInCentimeters drops GetEdidBytes's error
            Finish(c, q.out, WhenDisconnected(q.getter))
  /\ UNCHANGED <<Outside, preference>>

GetPorts(c) ==
  /\ At(c, "list")
  /\ Proceed(c)
  /\ UNCHANGED <<Outside, preference>>

\* PortName takes HDMI and Internal ports only, GetCurrentColorimetry any.
AnyPort(g, p) == TRUE
HdmiOnly(g, p) == g # "GetCurrentColorimetry" => PortType[p] = "HDMI"
Suits(g, p) == g # "GetCurrentColorimetry" => PortType[p] \in {"HDMI", "Internal"}

SameIndex(i) == i
NextIndex(i) == i + 1

ScanPort(c) ==
  /\ At(c, "scan")
  /\ LET q == query[c] IN
       IF q.next > Len(Ports) THEN Finish(c, q.out, "ERROR_NONE")
       ELSE LET p == Ports[q.next] IN
            IF Plugged(p) /\ Suits(q.getter, p)
            THEN query' = [query EXCEPT ![c].at = p, ![c].todo = Tail(@)]
            ELSE query' = [query EXCEPT ![c].next = NextIndex(@)]
  /\ UNCHANGED <<Outside, preference>>

Read(c) ==
  /\ At(c, "read")
  /\ LET q == query[c]
         s == sink[q.at]
     IN Finish(c, Value(q.getter, s, preference[q.at], q.out, q.arg), CodeOfRead(q.getter, s))
  /\ UNCHANGED <<Outside, preference>>

\* SetHdmiPreference, which may report that it failed.
Write(c) ==
  /\ At(c, "write")
  /\ LET q == query[c] IN
       /\ Finish(c, q.out, "ERROR_NONE")
       /\ preference' \in {preference, [preference EXCEPT ![q.at] = Protocol(q.arg)]}
  /\ UNCHANGED Outside

\* device::Exception from the call at hand.
Throws(c) ==
  /\ query[c].todo # <<>>
  /\ query' = [query EXCEPT ![c].todo = <<>>, ![c].code = WhenThrown(query[c].getter),
                            ![c].thrown = TRUE]
  /\ UNCHANGED <<Outside, preference>>

Done(c) == query[c].getter # "none" /\ query[c].todo = <<>>

Return(c) ==
  /\ Done(c)
  /\ query' = [query EXCEPT ![c] = Idle]
  /\ during' = [during EXCEPT ![c] = {}]
  /\ UNCHANGED <<sink, preference, calls, changes>>

Step(c) == \/ GetPort(c) \/ IsDisplayConnected(c) \/ GetPorts(c) \/ ScanPort(c)
           \/ Read(c) \/ Write(c) \/ Return(c)

\* Every caller has its answer and nobody asks any more.
Rest == calls = MaxCalls /\ (\A c \in Callers : query[c] = Idle) /\ UNCHANGED vars

Next ==
  \/ \E p \in PortSet, s \in Sinks \union {NoSink} : HotPlug(p, s)
  \/ \E c \in Callers :
       \/ \E g \in Asked : \E a \in Arguments(g) : Begin(c, g, a)
       \/ Step(c) \/ Throws(c)
  \/ Rest

\* Library calls return: a caller with a query under way runs;
\* nothing is asked of exceptions.
Fairness == \A c \in Callers : WF_vars(Step(c))
Spec == Init /\ [][Next]_vars /\ Fairness
-----------------------------------------------------------------------------
(* Properties.                                                             *)

TypeOK ==
  /\ sink \in [PortSet -> Sinks \union {NoSink}]
  /\ preference \in [PortSet -> {"1X", "2X", "MAX"}]
  /\ \A c \in Callers :
       /\ query[c].getter \in Queries \union {"none"}
       /\ query[c].at \in PortSet
       /\ query[c].next \in 1..Len(Ports) + 1
       /\ query[c].code \in {"ERROR_NONE", "ERROR_GENERAL"}
       /\ query[c].thrown \in BOOLEAN
  /\ calls \in 0..MaxCalls /\ changes \in 0..MaxChanges

WasOff(c, p) == <<p, NoSink>> \in during[c]
WasOn(c, p) == \E s \in Sinks : <<p, s>> \in during[c]
Answered(c) == Done(c) /\ ~query[c].thrown

\* The ports a scan for g may settle on, whatever the code tests.
Eligible(g) == IF g = "GetCurrentColorimetry" THEN PortSet
               ELSE {p \in PortSet : PortType[p] \in {"HDMI", "Internal"}}

\* A query that says ERROR_NONE has written its output, whatever was unplugged
\* or failed on the way.  The two that write nothing before they read leave the
\* caller's value only when a call threw or there was no display to answer:
\* HeightInCentimeters (:505-535) when the default port lost its display or
\* showed one with a short EDID, the HDCP getter (:410-437) when every HDMI and
\* internal port was off at some point.
SuccessIsAnAnswer ==
  \A c \in Callers :
    LET q == query[c] IN
      Done(c) /\ q.code = "ERROR_NONE" /\ q.getter # "SetHDCP" /\ q.out = Unset =>
        \/ q.getter \in {"HeightInCentimeters", "GetHDCP"} /\ q.thrown
        \/ /\ q.getter = "HeightInCentimeters"
           /\ \/ WasOff(c, DefaultPort)
              \/ \E s \in Sinks : <<DefaultPort, s>> \in during[c] /\ s.edid.size <= 22
        \/ /\ q.getter = "GetHDCP"
           /\ \A i \in DOMAIN Ports : Ports[i] \in Eligible("GetHDCP") => WasOff(c, Ports[i])

\* GetCurrentColorimetry and the HDCP queries settle on the first eligible port
\* with a display, in the order of getVideoOutputPorts: the port is eligible and
\* was on, and each eligible port before it was off at some point of the query;
\* with none found, all were, and nothing has been read.
EarlierPortsWereOff ==
  \A c \in Callers :
    LET q == query[c] IN
      Answered(c) /\ q.getter \in {"GetCurrentColorimetry", "GetHDCP", "SetHDCP"} =>
        /\ IF q.next <= Len(Ports)
           THEN q.at = Ports[q.next] /\ q.at \in Eligible(q.getter) /\ WasOn(c, q.at)
           ELSE q.out = Initially(q.getter, q.arg)
        /\ \A j \in 1..q.next - 1 : Ports[j] \in Eligible(q.getter) => WasOff(c, Ports[j])

\* A display that stays plugged in, on a library that does not throw, is
\* answered for: with no error, by the value of a display the port showed
\* during the query, and the HDCP preference is told whenever an HDMI or an
\* internal panel has been on all along.
SteadyDisplayIsAnswered ==
  \A c \in Callers :
    LET q == query[c] IN
      Answered(c) =>
        /\ q.getter \in DirectGetters \union {"WidthInCentimeters"}
           /\ ~WasOff(c, DefaultPort)
           /\ (\A s \in Sinks : <<DefaultPort, s>> \in during[c] => s.edid.valid)
           => /\ q.code = "ERROR_NONE"
              /\ \E s \in Sinks :
                   /\ <<DefaultPort, s>> \in during[c]
                   /\ q.out = Value(q.getter, s, preference[DefaultPort], Unset, q.arg)
        /\ q.getter = "GetHDCP"
           /\ (\E i \in DOMAIN Ports : /\ PortType[Ports[i]] \in {"HDMI", "Internal"}
                                       /\ ~WasOff(c, Ports[i]))
           => q.out \in {"HDCP_1X", "HDCP_2X", "HDCP_AUTO"}

\* EDID never reports more bytes than the caller's buffer has, and its text
\* tells a real EDID from the stand-in exactly as the return code does.
EdidFits ==
  \A c \in Callers :
    LET q == query[c] IN
      Done(c) /\ q.getter = "EDID" =>
        /\ q.out.length <= q.arg
        /\ (q.code = "ERROR_NONE") <=> (q.out.text = "edid")

\* Every query returns: the scan of the ports ends.
QueriesReturn == \A c \in Callers : query[c].todo # <<>> ~> query[c] = Idle
=============================================================================
