---------------------------- MODULE GraphicSize ----------------------------
(***************************************************************************)
(* SoC_GetGraphicsWidth and SoC_GetGraphicsHeight of the Raspberry Pi:     *)
(* getGraphicSize opens the DRM device, follows connector, encoder and     *)
(* CRTC (kms.c), finds the primary plane and measures its framebuffer,     *)
(* while the compositor goes on replacing framebuffers.                    *)
(*                                                                         *)
(* libdrm and the kernel are external: any call may fail.  A pointer is a  *)
(* record that names the object; live holds the objects allocated and not  *)
(* freed.  calloc does not fail.  Reading through a null pointer or beyond *)
(* an array ends the process.                                              *)
(***************************************************************************)
EXTENDS Naturals, Sequences, FiniteSets, FiniteSetsExt

CONSTANTS
  Null,        \* nullptr, and a size that was never written
  Devices,     \* the devices there may be: see DevicesAssumption
  MaxTries,    \* 100 in getGraphicSize
  MaxFlips     \* bound: framebuffers the compositor shows

\* The kernel gives a CRTC any identifier but 0, which stands for none.  A
\* connector names an encoder by its position, or none by 0.  An encoder has the
\* CRTC it is bound to, or 0, and its possible_crtcs, a set of indices from 0.
\* Each is read once in a query, so it may as well be fixed from the start.
ASSUME DevicesAssumption ==
  /\ MaxTries \in Nat /\ MaxFlips \in Nat
  /\ \A d \in Devices :
       /\ d.crtcs \in Seq(Nat \ {0})
       /\ d.encoders \in Seq([possible : SUBSET (0..Len(d.crtcs) - 1),
                             crtc : {d.crtcs[k] : k \in 1..Len(d.crtcs)} \union {0}])
       /\ d.connectors \in Seq(0..Len(d.encoders))
       /\ d.planes \in Seq({"primary", "overlay", "cursor"})

\* An object's address is not null.
ASSUME NullAssumption ==
  /\ Null \notin [id : Nat] /\ Null \notin [id : Nat, encoder : Nat]
  /\ Null \notin [id : Nat, crtc : Nat] /\ Null \notin [id : Nat, fb : Nat]
  /\ Null \notin Nat

VARIABLES
  drm,    \* the device's tables
  shown,  \* per plane: the framebuffer it scans out, 0 when none
  seen,   \* the framebuffers a primary plane has shown since the query began
  stage,  \* where getGraphicSize is
  kms,    \* the context
  plane,  \* plane: the number of the plane and its fb_id
  tries,  \* trytimes
  live,   \* objects of libdrm allocated and not freed
  size,   \* w and h
  failed  \* a call of libdrm that could have answered has not

sizeVars == <<drm, shown, seen, stage, kms, plane, tries, live, size, failed>>

PrimaryPlanes == {n \in 1..Len(drm.planes) : drm.planes[n] = "primary"}
CrtcIds == {drm.crtcs[k] : k \in 1..Len(drm.crtcs)}
Object(kind, id) == [kind |-> kind, id |-> id]
Held(kind, pointer) == IF pointer = Null THEN {} ELSE {Object(kind, pointer.id)}
Empty == [res |-> FALSE, connector |-> Null, encoder |-> Null, crtc |-> Null]

SizeInit ==
  /\ drm \in Devices
  /\ shown \in [1..Len(drm.planes) -> {0, 1}]
  /\ seen = {shown[n] : n \in PrimaryPlanes}
  /\ stage = "open" /\ kms = Empty /\ plane = Null /\ tries = 0 /\ live = {} /\ size = Null
  /\ failed = FALSE

\* The compositor shows another framebuffer, or none, and drops the old one.
Flip(n) ==
  /\ Max(Range(shown) \union seen \union {0}) < MaxFlips
  /\ shown' \in {[shown EXCEPT ![n] = fb] :
                   fb \in {0, 1 + Max(Range(shown) \union seen \union {0})}}
  /\ seen' = seen \union {shown'[m] : m \in PrimaryPlanes}
  /\ UNCHANGED <<drm, stage, kms, plane, tries, live, size, failed>>
-----------------------------------------------------------------------------
(* kms_setup.                                                              *)

query == <<plane, tries, size>>
device == <<drm, shown, seen>>

\* Without a device, drmModeGetResources gives null and the loop over
\* kms->res->count_connectors reads through it.
Setup ==
  /\ stage = "open"
  /\ \/ /\ stage' = "connector" /\ kms' = [kms EXCEPT !.res = TRUE]
        /\ live' = {Object("res", 0)}
     \/ stage' = "crashed" /\ UNCHANGED <<kms, live>>
  /\ UNCHANGED <<device, query, failed>>

\* The first connector that is connected and has modes, or the last one the
\* loop got, null if that call failed; those passed over are not freed.
\* answer gives what each drmModeGetConnector returned.
Chosen(answer) ==
  LET lit == {i \in 1..Len(drm.connectors) : answer[i] = "lit"}
  IN IF lit # {} THEN Min(lit) ELSE Len(drm.connectors)

SetupConnector ==
  /\ stage = "connector"
  /\ \E answer \in [1..Len(drm.connectors) -> {"null", "dark", "lit"}] :
       LET c == Chosen(answer)
       IN /\ kms' = [kms EXCEPT !.connector =
                       IF c = 0 \/ answer[c] = "null" THEN Null
                       ELSE [id |-> c, encoder |-> drm.connectors[c]]]
          /\ live' = live \union {Object("connector", i) : i \in {i \in 1..c : answer[i] # "null"}}
          /\ failed' = (failed \/ \E i \in 1..c : answer[i] = "null")
  /\ stage' = "encoder"
  /\ UNCHANGED <<device, query>>

Unmatched(i) == FALSE
Matches(i) == i = kms.connector.encoder

\* The loop stops at the connector's own encoder or at the first that can
\* drive a CRTC, whichever comes first, and passes over the others.
Stops(i) == Matches(i) \/ drm.encoders[i].possible # {}

\* drmModeGetEncoder fails for encoder i.
EncoderFails(i) ==
  /\ kms' = [kms EXCEPT !.encoder = Null]
  /\ live' = live \union {Object("encoder", k) : k \in 1..i - 1}
  /\ stage' = "crtc" /\ failed' = TRUE

MatchingEncoder(i) ==
  /\ Matches(i)
  /\ kms' = [kms EXCEPT !.encoder = [id |-> i, crtc |-> drm.encoders[i].crtc]]
  /\ live' = live \union {Object("encoder", k) : k \in 1..i}
  /\ stage' = "crtc" /\ UNCHANGED failed

\* It is freed, and the encoder whose index is that of the CRTC is fetched, an
\* object of its own even if the loop has had that encoder before, and given
\* the index as its crtc_id.
Refetched == 0
OtherEncoder(i) ==
  /\ ~Matches(i)
  /\ LET j == Min(drm.encoders[i].possible)
     IN \/ /\ j < Len(drm.encoders)
           /\ kms' = [kms EXCEPT !.encoder = [id |-> Refetched, crtc |-> j]]
           /\ live' = live \union {Object("encoder", k) : k \in (1..i - 1) \union {Refetched}}
           /\ stage' = "crtc"
        \/ /\ stage' = "crashed"
           /\ live' = live \union {Object("encoder", k) : k \in 1..i - 1}
           /\ UNCHANGED kms
  /\ UNCHANGED failed

\* None stops the loop: kms->encoder is the last one fetched.
NoEncoder ==
  /\ LET n == Len(drm.encoders)
     IN kms' = [kms EXCEPT !.encoder = IF n = 0 THEN Null
                                       ELSE [id |-> n, crtc |-> drm.encoders[n].crtc]]
  /\ live' = live \union {Object("encoder", k) : k \in 1..Len(drm.encoders)}
  /\ stage' = "crtc" /\ UNCHANGED failed

SetupEncoder ==
  /\ stage = "encoder"
  /\ IF kms.connector = Null /\ drm.encoders # <<>>
     THEN EncoderFails(1) \/ (stage' = "crashed" /\ UNCHANGED <<kms, live, failed>>)
     ELSE LET stops == {i \in 1..Len(drm.encoders) : Stops(i)}
              first == IF stops = {} THEN Len(drm.encoders) ELSE Min(stops)
          IN \/ \E i \in 1..first : EncoderFails(i)
             \/ stops # {} /\ (MatchingEncoder(first) \/ OtherEncoder(first))
             \/ stops = {} /\ NoEncoder
  /\ UNCHANGED <<device, query>>

\* drmModeGetCrtc finds no CRTC by a number that is no CRTC's identifier;
\* nothing tells an index from an identifier.  getGraphicSize gives up without.
SetupCrtc ==
  /\ stage = "crtc"
  /\ LET known == kms.encoder # Null /\ kms.encoder.crtc \in CrtcIds
     IN \/ /\ known
           /\ kms' = [kms EXCEPT !.crtc = [id |-> kms.encoder.crtc]]
           /\ live' = live \union {Object("crtc", kms.encoder.crtc)}
           /\ stage' = "plane" /\ UNCHANGED failed
        \/ stage' = "cleanup" /\ failed' = (failed \/ known) /\ UNCHANGED <<kms, live>>
  /\ UNCHANGED <<device, query>>
-----------------------------------------------------------------------------
(* The primary plane and its framebuffer.                                  *)

\* kms_get_plane takes the first plane of the type among those it can read;
\* there is none when the identifier stays -1.
FirstReadable(readable) == readable
FirstPrimary(readable) == readable \intersect PrimaryPlanes

\* getPrimaryPlane, called again for each retry: the plane's object of the
\* call before is not freed, and in a retry nothing tests it for null.
GetPrimaryPlane ==
  /\ stage \in {"plane", "retry"}
  /\ \E readable \in SUBSET (1..Len(drm.planes)) :
       /\ LET primary == FirstPrimary(readable)
          IN IF primary # {}
             THEN /\ plane' = [id |-> Min(primary), fb |-> shown[Min(primary)]]
                  /\ live' = live \union {Object("plane", IF stage = "plane" THEN 0 ELSE tries + 1)}
                  /\ stage' = IF stage = "plane" THEN "fb" ELSE "refetch"
             ELSE /\ plane' = Null
                  /\ stage' = IF stage = "plane" THEN "cleanup" ELSE "crashed"
                  /\ UNCHANGED live
       /\ failed' = (failed \/ readable # 1..Len(drm.planes))
  /\ UNCHANGED <<device, kms, tries, size>>

\* drmModeGetFB finds the framebuffer the plane had, if it is still there; w
\* and h are its, and it is freed.
StillThere == plane.fb # 0 /\ plane.fb = shown[plane.id]
Measure ==
  /\ StillThere
  /\ size' = plane.fb
  /\ stage' = "cleanup" /\ UNCHANGED failed

NotTried == tries
Tried == tries + 1

GetFB ==
  /\ stage \in {"fb", "refetch"}
  /\ \/ Measure
     \/ /\ stage' = IF stage = "refetch" /\ tries > MaxTries THEN "cleanup" ELSE "retry"
        /\ failed' = (failed \/ StillThere)
        /\ UNCHANGED size
  /\ tries' = IF stage = "refetch" THEN Tried ELSE tries
  /\ UNCHANGED <<device, kms, plane, live>>

\* kms_cleanup_context frees what the context points to.
Owned == Held("connector", kms.connector) \union Held("encoder", kms.encoder)
         \union Held("crtc", kms.crtc) \union {Object("res", 0)}
OwnedButCrtc == Held("connector", kms.connector) \union Held("encoder", kms.encoder)
                \union {Object("res", 0)}
Released == Owned

Cleanup ==
  /\ stage = "cleanup"
  /\ live' = live \ Released
  /\ stage' = "done"
  /\ UNCHANGED <<device, kms, query, failed>>

getGraphicSize ==
  \/ Setup \/ SetupConnector \/ SetupEncoder \/ SetupCrtc
  \/ GetPrimaryPlane \/ GetFB \/ Cleanup

SizeRest == stage \in {"done", "crashed"} /\ UNCHANGED sizeVars

SizeNext == getGraphicSize \/ (\E n \in 1..Len(drm.planes) : Flip(n)) \/ SizeRest
SizeSpec == SizeInit /\ [][SizeNext]_sizeVars /\ WF_sizeVars(getGraphicSize)
-----------------------------------------------------------------------------
(* Properties.                                                             *)

\* A size that is written is that of a framebuffer a primary plane scanned out
\* while the query ran, however often the compositor replaced it between the
\* look at the plane and the look at the framebuffer.
SizeWasShown == size # Null => size \in seen

\* Whichever call failed, what kms_cleanup_context frees is allocated, so
\* nothing is freed twice, and afterwards only objects the context no longer
\* pointed to are left: passed-over connectors and encoders, and the planes.
ContextIsReleased ==
  /\ stage = "cleanup" => Owned \subseteq live
  /\ stage = "done" => \A o \in live : o \notin Owned /\ o.kind \in {"connector", "encoder", "plane"}

\* The walk from a connector that names encoder e comes to a CRTC: e is bound
\* to one, and no encoder before it can drive any and so end the loop.
Leads(e) ==
  /\ e \in 1..Len(drm.encoders) /\ drm.encoders[e].crtc # 0
  /\ \A k \in 1..e - 1 : drm.encoders[k].possible = {}

\* What the callers return is written, not what the stack held, unless libdrm
\* failed, the device has no such connector, encoder and primary plane, or at
\* every one of the looks at the framebuffer the plane was blank or had just
\* been given another one.
MissingSizeHasAReason ==
  stage = "done" /\ size = Null =>
    \/ failed
    \/ kms.connector = Null \/ ~Leads(kms.connector.encoder) \/ PrimaryPlanes = {}
    \/ tries = MaxTries + 2 /\ (0 \in seen \/ Cardinality(seen) > MaxTries + 3)

\* The query returns, however long the framebuffer stays away: the retries are
\* counted.
QueryEnds == <>(stage \in {"done", "crashed"})
=============================================================================
