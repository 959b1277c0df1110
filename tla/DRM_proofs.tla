----------------------------- MODULE DRM_proofs -----------------------------
(***************************************************************************)
(* Proofs about the two walks through the tables of a DRM device.          *)
(*                                                                         *)
(* The scan of DRMConnector is right for any number of connectors and any  *)
(* lists of modes: the invariant of its two loops is kept by every step,   *)
(* and where the loops end it says what the object answers.                *)
(*                                                                         *)
(* GraphicSize measures a framebuffer that was shown, leaves its size      *)
(* unwritten only for a reason, and frees what its context points to, for  *)
(* any device, any answers of the kernel, and any number of framebuffers   *)
(* and retries.                                                            *)
(***************************************************************************)
EXTENDS DRMConnector, GraphicSize, ListLemmas

\* The scan is well typed.
THEOREM TypeCorrect == Spec => []TypeOK
<1>1. Init => TypeOK
  BY ModesAssumption, CountsAssumption DEF Init, TypeOK, NoMode
<1>2. TypeOK /\ [Next]_vars => TypeOK'
  <2> SUFFICES ASSUME TypeOK, [Next]_vars PROVE TypeOK'
    OBVIOUS
  <2> USE DEF TypeOK
  <2>1. CASE Open
    BY <2>1 DEF Open, inputs
  <2>2. CASE NextConnector
    BY <2>2 DEF NextConnector, inputs
  <2>3. CASE ScanMode
    BY <2>3 DEF ScanMode, inputs, BestMode, PreferredMode
  <2>4. CASE InitializeWithConnector
    BY <2>4 DEF InitializeWithConnector, inputs
  <2>5. CASE Close
    BY <2>5 DEF Close, inputs
  <2>6. CASE Rest \/ UNCHANGED vars
    BY <2>6 DEF Rest, vars
  <2> QED
    BY <2>1, <2>2, <2>3, <2>4, <2>5, <2>6 DEF Next
<1> QED
  BY <1>1, <1>2, PTL DEF Spec

\* One turn of BestMode's loop: the mode found among the first n becomes the
\* one found among the first n + 1.
LEMMA BestModeStep ==
  ASSUME NEW modes \in Seq(Mode), NEW n \in Nat, n + 1 <= Len(modes), NEW r \in Nat,
         IsBest(modes, n, r)
  PROVE  IsBest(modes, n + 1, BestMode(modes, r, n + 1))
<1>1. ASSUME NEW m \in 1..n + 1 PROVE modes[m].area \in Nat
  <2>1. modes[m] \in Mode
    OBVIOUS
  <2> QED
    BY <2>1 DEF Mode
<1>2. CASE n = 0
  BY <1>1, <1>2 DEF IsBest, BestMode
<1>3. CASE n # 0 /\ modes[r].area > modes[n + 1].area
  <2>1. r \in 1..n /\ BestMode(modes, r, n + 1) = r
    BY <1>3 DEF IsBest, BestMode, Larger
  <2>2. ASSUME NEW m \in 1..n + 1
        PROVE  modes[m].area <= modes[r].area /\ (m > r => modes[m].area < modes[r].area)
    <3>1. CASE m = n + 1
      BY <1>1, <1>3, <2>1, <3>1
    <3>2. CASE m \in 1..n
      BY <2>1, <3>2 DEF IsBest
    <3> QED
      BY <3>1, <3>2
  <2> QED
    BY <2>1, <2>2 DEF IsBest
<1>4. CASE n # 0 /\ ~(modes[r].area > modes[n + 1].area)
  <2>1. r \in 1..n /\ BestMode(modes, r, n + 1) = n + 1
    BY <1>4 DEF IsBest, BestMode, Larger
  <2>2. ASSUME NEW m \in 1..n + 1 PROVE modes[m].area <= modes[n + 1].area
    <3>1. CASE m = n + 1
      BY <1>1, <3>1
    <3>2. CASE m \in 1..n
      <4>1. modes[m].area <= modes[r].area
        BY <2>1, <3>2 DEF IsBest
      <4>2. /\ modes[m].area \in Nat /\ modes[r].area \in Nat /\ modes[n + 1].area \in Nat
        BY <1>1, <2>1
      <4> QED
        BY <1>4, <4>1, <4>2
    <3> QED
      BY <3>1, <3>2
  <2> QED
    BY <2>1, <2>2 DEF IsBest
<1> QED
  BY <1>2, <1>3, <1>4

\* The same of PreferredMode's loop.
LEMMA PreferredModeStep ==
  ASSUME NEW modes \in Seq(Mode), NEW n \in Nat, n + 1 <= Len(modes), NEW r \in Nat,
         IsPreferred(modes, n, r)
  PROVE  IsPreferred(modes, n + 1, PreferredMode(modes, r, n + 1))
  BY DEF IsPreferred, PreferredMode

\* What has been scanned so far has been judged right.
THEOREM ScanIsRight == Spec => []ScannedIsRight
<1>1. Init => ScannedIsRight
  BY DEF Init, ScannedIsRight
<1>2. TypeOK /\ ScannedIsRight /\ [Next]_vars => ScannedIsRight'
  <2> SUFFICES ASSUME TypeOK, ScannedIsRight, [Next]_vars PROVE ScannedIsRight'
    OBVIOUS
  <2>1. CASE Open
    <3>1. IsChosen(got, preferred, 0, NoMode)
      BY DEF IsChosen, NoMode
    <3> QED
      BY <2>1, <3>1 DEF Open, inputs, ScannedIsRight
  <2>2. CASE NextConnector
    <3>1. i \in Nat /\ i <= count
      BY <2>2 DEF NextConnector, TypeOK
    <3>2. CASE got[i].wanted
      <4>1. IsFound(preferred, got[i].modes, 0, 0)
        BY DEF IsFound, IsBest, IsPreferred
      <4>2. Len(got[i].modes) \in Nat
        BY <3>1 DEF TypeOK
      <4> QED
        BY <2>2, <3>2, <4>1, <4>2 DEF NextConnector, inputs, ScannedIsRight
    <3>3. CASE ~got[i].wanted
      <4>1. IsChosen(got, preferred, i, chosen)
        BY <2>2, <3>1, <3>3 DEF NextConnector, TypeOK, ScannedIsRight, IsChosen
      <4> QED
        BY <2>2, <3>1, <3>3, <4>1 DEF NextConnector, inputs, ScannedIsRight
    <3> QED
      BY <3>2, <3>3
  <2>3. CASE ScanMode
    <3> DEFINE modes == got[i].modes
    <3> DEFINE n == index - 1
    <3>1. /\ modes \in Seq(Mode) /\ n \in Nat /\ n + 1 = index
          /\ n + 1 <= Len(modes) /\ result \in Nat
      BY <2>3 DEF ScanMode, TypeOK
    <3>2. IsFound(preferred, modes, n, result)
      BY <2>3 DEF ScanMode, ScannedIsRight
    <3>3. IsFound(preferred, modes, index, result')
      <4> HIDE DEF modes, n
      <4>1. CASE preferred
        BY <2>3, <3>1, <3>2, <4>1, PreferredModeStep DEF ScanMode, IsFound, modes
      <4>2. CASE ~preferred
        BY <2>3, <3>1, <3>2, <4>2, BestModeStep DEF ScanMode, IsFound, modes
      <4> QED
        BY <4>1, <4>2
    <3> QED
      BY <2>3, <3>1, <3>3 DEF ScanMode, inputs, ScannedIsRight
  <2>4. CASE InitializeWithConnector
    <3> DEFINE length == Len(got[i].modes)
    <3>0. i \in Nat \ {0} /\ i <= count /\ length \in Nat /\ index \in Nat
      BY <2>4 DEF InitializeWithConnector, TypeOK
    <3>1. /\ i \in Nat \ {0} /\ i <= count /\ got[i].wanted
          /\ index - 1 = length
      <4>1. got[i].wanted /\ index <= length + 1 /\ index > length
        BY <2>4 DEF InitializeWithConnector, ScannedIsRight
      <4> HIDE DEF length
      <4> QED
        BY <3>0, <4>1
    <3>2. IsFound(preferred, got[i].modes, Len(got[i].modes), result)
      BY <2>4, <3>1 DEF InitializeWithConnector, ScannedIsRight
    <3>3. IsChosen(got, preferred, i, [connector |-> i, mode |-> result])
      BY <3>1, <3>2 DEF IsChosen
    <3> QED
      BY <2>4, <3>1, <3>3 DEF InitializeWithConnector, inputs, ScannedIsRight
  <2>5. CASE Close
    BY <2>5 DEF Close, ScannedIsRight
  <2>6. CASE Rest \/ UNCHANGED vars
    BY <2>6 DEF Rest, vars, ScannedIsRight
  <2> QED
    BY <2>1, <2>2, <2>3, <2>4, <2>5, <2>6 DEF Next
<1> QED
  BY <1>1, <1>2, TypeCorrect, PTL DEF Spec

\* Whatever the device's connectors and modes, the object holds the last of
\* the largest, or of the preferred, modes of the last connector of its type.
THEOREM AnswerIsRight == Spec => []ChosenIsRight
<1>1. Init => ChosenIsRight
  BY DEF Init, ChosenIsRight
<1>2. TypeOK /\ ScannedIsRight /\ ChosenIsRight /\ [Next]_vars => ChosenIsRight'
  <2> SUFFICES ASSUME TypeOK, ScannedIsRight, ChosenIsRight, [Next]_vars PROVE ChosenIsRight'
    OBVIOUS
  <2>1. CASE Open
    <3>1. i = 1 /\ chosen = NoMode /\ IsChosen(got, preferred, 0, NoMode)
      BY <2>1 DEF Open, ScannedIsRight, IsChosen, NoMode
    <3> QED
      BY <2>1, <3>1 DEF Open, inputs, TypeOK, ChosenIsRight
  <2>2. CASE NextConnector \/ ScanMode \/ InitializeWithConnector
    BY <2>2 DEF NextConnector, ScanMode, InitializeWithConnector, ChosenIsRight
  <2>3. CASE Close
    <3>1. i = count + 1 /\ i - 1 = count
      BY <2>3 DEF Close, TypeOK
    <3>2. IsChosen(got, preferred, count, chosen)
      BY <2>3, <3>1 DEF Close, ScannedIsRight
    <3> QED
      BY <2>3, <3>1, <3>2 DEF Close, inputs, ChosenIsRight
  <2>4. CASE Rest \/ UNCHANGED vars
    BY <2>4 DEF Rest, vars, ChosenIsRight
  <2> QED
    BY <2>1, <2>2, <2>3, <2>4 DEF Next
<1> QED
  BY <1>1, <1>2, TypeCorrect, ScanIsRight, PTL DEF Spec

-----------------------------------------------------------------------------
(* GraphicSize.                                                            *)

Setups == {"open", "connector", "encoder", "crtc"}
Measures == {"plane", "fb", "retry", "refetch"}

\* What a primary plane shows has been seen, and the plane at hand is one.
PlanesInv ==
  /\ \A n \in PrimaryPlanes : shown[n] \in seen
  /\ stage \in {"fb", "refetch"} => plane.id \in PrimaryPlanes
  /\ SizeWasShown

\* Until the clean-up what the context points to is allocated, and nothing but
\* that and what has been passed over is.
ObjectsInv ==
  /\ stage \in {"connector", "encoder", "crtc", "cleanup"} \union Measures => Owned \subseteq live
  /\ \A o \in live : o \in Owned \/ o.kind \in {"connector", "encoder", "plane"}
  /\ stage = "open" => live = {}
  /\ stage \in {"open", "connector"} => kms.connector = Null
  /\ stage \in {"open", "connector", "encoder"} => kms.encoder = Null
  /\ stage \in Setups => kms.crtc = Null
  /\ stage = "done" => live \intersect Owned = {}

\* There is no framebuffer to find.
Excuse == \/ failed \/ PrimaryPlanes = {}
          \/ kms.connector = Null \/ ~Leads(kms.connector.encoder)
\* A primary plane has been blank, or so many framebuffers have been seen.
Shown(n) == 0 \in seen \/ Cardinality(seen) >= n
CrtcKnown == kms.encoder # Null /\ kms.encoder.crtc \in CrtcIds

\* Without an excuse each look at the framebuffer fails because the plane has
\* been given another one: as many have been seen as looks have failed, and one.
ReasonInv ==
  /\ tries \in Nat /\ seen \in SUBSET (0..MaxFlips + 1)
  /\ shown \in [1..Len(drm.planes) -> 0..MaxFlips + 1]
  /\ stage \in Setups \union {"plane", "fb"} => tries = 0
  /\ stage \in {"retry", "refetch"} => tries <= MaxTries + 1
  /\ stage = "crtc" => Excuse \/ CrtcKnown
  /\ stage = "fb" => Excuse \/ StillThere \/ Shown(2)
  /\ stage = "retry" => Excuse \/ Shown(tries + 2)
  /\ stage = "refetch" => Excuse \/ (Shown(tries + 2) /\ (StillThere \/ Shown(tries + 3)))
  /\ stage \in {"cleanup", "done"} /\ size = Null =>
       Excuse \/ (tries = MaxTries + 2 /\ Shown(MaxTries + 4))

SizeInv ==
  /\ drm \in Devices
  /\ stage \in Setups \union Measures \union {"cleanup", "done", "crashed"}
  /\ kms = [res |-> kms.res, connector |-> kms.connector, encoder |-> kms.encoder, crtc |-> kms.crtc]
  /\ PlanesInv /\ ObjectsInv /\ ReasonInv

LEMMA Tables ==
  ASSUME drm \in Devices
  PROVE  /\ Len(drm.connectors) \in Nat /\ CrtcIds \subseteq Nat
         /\ Len(drm.encoders) \in Nat /\ Len(drm.planes) \in Nat
         /\ drm.encoders = <<>> <=> Len(drm.encoders) = 0
         /\ \A e \in 1..Len(drm.encoders) : /\ drm.encoders[e].possible \subseteq Nat
                                            /\ drm.encoders[e].crtc \in CrtcIds \union {0}
         /\ \A c \in 1..Len(drm.connectors) : drm.connectors[c] \in 0..Len(drm.encoders)
         /\ PrimaryPlanes \subseteq 1..Len(drm.planes)
<1>1. /\ drm.crtcs \in Seq(Nat \ {0})
      /\ drm.encoders \in Seq([possible : SUBSET (0..Len(drm.crtcs) - 1), crtc : CrtcIds \union {0}])
      /\ drm.connectors \in Seq(0..Len(drm.encoders))
      /\ drm.planes \in Seq({"primary", "overlay", "cursor"})
  BY DevicesAssumption DEF CrtcIds
<1>2. CrtcIds \subseteq Nat
  BY <1>1 DEF CrtcIds
<1>3. ASSUME NEW e \in 1..Len(drm.encoders)
      PROVE  drm.encoders[e].possible \subseteq Nat /\ drm.encoders[e].crtc \in CrtcIds \union {0}
  <2>1. drm.encoders[e] \in [possible : SUBSET (0..Len(drm.crtcs) - 1), crtc : CrtcIds \union {0}]
    <3> DEFINE T == [possible : SUBSET (0..Len(drm.crtcs) - 1), crtc : CrtcIds \union {0}]
    <3>1. drm.encoders \in Seq(T) /\ e \in 1..Len(drm.encoders)
      BY <1>1, <1>3
    <3> HIDE DEF T
    <3>2. drm.encoders[e] \in T
      BY <3>1
    <3> QED BY <3>2 DEF T
  <2>2. 0..Len(drm.crtcs) - 1 \subseteq Nat
    BY <1>1
  <2> QED BY <2>1, <2>2
<1>4. drm.encoders = <<>> <=> Len(drm.encoders) = 0
  BY <1>1, EmptySeq
<1> QED BY <1>1, <1>2, <1>3, <1>4 DEF PrimaryPlanes

\* A new framebuffer is one that has not been seen.
LEMMA MaxIsLargest ==
  ASSUME NEW n \in Nat, NEW S \in SUBSET (0..n), S # {}
  PROVE  Max(S) \in S /\ \A x \in S : x <= Max(S)
<1> DEFINE I == {n - x : x \in S}
<1>0. \A x \in S : x \in Nat /\ n - x \in Nat
  OBVIOUS
<1>1. I \subseteq Nat /\ I # {}
  BY <1>0
<1>2. Min(I) \in I /\ \A j \in I : Min(I) <= j
  <2> HIDE DEF I
  <2> QED BY <1>1, MinIsElement
<1>3. PICK m \in S : Min(I) = n - m
  BY <1>2
<1>4. ASSUME NEW x \in S PROVE m >= x
  <2>1. n - x \in I
    OBVIOUS
  <2>2. n - m <= n - x
    BY <1>2, <1>3, <2>1
  <2> QED BY <1>0, <2>2
<1> QED BY <1>0, <1>4 DEF Max

LEMMA SeenIsFinite ==
  ASSUME NEW S \in SUBSET (0..MaxFlips + 1)
  PROVE  IsFiniteSet(S) /\ Cardinality(S) \in Nat /\ (S # {} => Cardinality(S) >= 1)
<1>1. IsFiniteSet(0..MaxFlips + 1)
  BY DevicesAssumption, FS_Interval
<1>2. IsFiniteSet(S)
  BY <1>1, FS_Subset
<1> QED BY <1>2, FS_CardinalityType, FS_EmptySet

LEMMA SizeStart == SizeInit => SizeInv
<1> SUFFICES ASSUME SizeInit PROVE SizeInv
  OBVIOUS
<1> USE DEF SizeInit, Empty
<1>1. PlanesInv
  BY DEF PlanesInv, SizeWasShown
<1>2. ObjectsInv
  BY DEF ObjectsInv, Measures
<1>3. ReasonInv
  <2>1. shown \in [1..Len(drm.planes) -> 0..MaxFlips + 1]
    BY DevicesAssumption
  <2>2. seen \in SUBSET (0..MaxFlips + 1)
    BY <2>1, Tables
  <2> QED BY <2>1, <2>2 DEF ReasonInv
<1> QED BY <1>1, <1>2, <1>3 DEF SizeInv, Setups

\* The tables of the device and the compositor.
LEMMA FlipKeepsSize ==
  ASSUME SizeInv, NEW n \in 1..Len(drm.planes), Flip(n)
  PROVE  SizeInv'
<1> DEFINE old == Range(shown) \union seen \union {0}
<1>1. /\ UNCHANGED <<drm, stage, kms, plane, tries, live, size, failed>>
      /\ seen' = seen \union {shown'[m] : m \in PrimaryPlanes}
      /\ Max(old) < MaxFlips
  BY DEF Flip
<1>2. PICK fb \in {0, 1 + Max(old)} : shown' = [shown EXCEPT ![n] = fb]
  BY DEF Flip
<1>3. /\ shown \in [1..Len(drm.planes) -> 0..MaxFlips + 1] /\ seen \in SUBSET (0..MaxFlips + 1)
      /\ MaxFlips \in Nat /\ MaxTries \in Nat /\ tries \in Nat /\ PrimaryPlanes \subseteq 1..Len(drm.planes)
      /\ \A m \in PrimaryPlanes : shown[m] \in seen
  BY DevicesAssumption, Tables DEF SizeInv, ReasonInv, PlanesInv
<1>4. fb \in 0..MaxFlips /\ (fb # 0 => fb \notin seen)
  <2>1. Range(shown) \subseteq 0..MaxFlips + 1
    BY <1>3 DEF Range
  <2>2. old \in SUBSET (0..MaxFlips + 1) /\ old # {} /\ MaxFlips + 1 \in Nat
    <3> DEFINE R == Range(shown)
    <3>1. R \subseteq 0..MaxFlips + 1 /\ {0} \subseteq 0..MaxFlips + 1 /\ seen \subseteq 0..MaxFlips + 1
      BY <1>3, <2>1
    <3>2. old = R \union seen \union {0}
      OBVIOUS
    <3> HIDE DEF R, old
    <3> QED BY <1>3, <3>1, <3>2
  <2>3. Max(old) \in old /\ \A x \in old : x <= Max(old)
    <3> HIDE DEF old
    <3> QED BY <2>2, MaxIsLargest
  <2>4. Max(old) \in Nat /\ \A x \in seen : x \in Nat /\ x <= Max(old)
    <3> DEFINE m == Max(old)
    <3>1. \A x \in seen : x \in old /\ x \in 0..MaxFlips + 1
      BY <1>3
    <3>2. 0..MaxFlips + 1 \subseteq Nat
      BY <1>3
    <3>3. m \in old /\ \A x \in old : x <= m
      BY <2>3
    <3> HIDE DEF old, m
    <3>4. m \in Nat /\ \A x \in seen : x \in Nat /\ x <= m
      BY <2>2, <3>1, <3>2, <3>3
    <3> QED BY <3>4 DEF m
  <2> DEFINE m == Max(old)
  <2>5. m < MaxFlips /\ m \in Nat /\ MaxFlips \in Nat /\ fb \in {0, 1 + m}
        /\ \A x \in seen : x \in Nat /\ x <= m
    BY <1>1, <1>2, <1>3, <2>4
  <2> HIDE DEF m
  <2> QED BY <2>5
<1> HIDE DEF old
<1>5. PlanesInv'
  BY <1>1 DEF SizeInv, PlanesInv, PrimaryPlanes, SizeWasShown
<1>6. ObjectsInv'
  BY <1>1 DEF SizeInv, ObjectsInv, Owned
<1>7. /\ shown' \in [1..Len(drm.planes) -> 0..MaxFlips + 1] /\ seen' \in SUBSET (0..MaxFlips + 1)
      /\ (Excuse => Excuse') /\ (CrtcKnown => CrtcKnown')
  <2>1. (Excuse => Excuse') /\ (CrtcKnown => CrtcKnown')
    BY <1>1 DEF Excuse, CrtcKnown, Leads, PrimaryPlanes, CrtcIds
  <2>2. shown' \in [1..Len(drm.planes) -> 0..MaxFlips + 1]
    BY <1>2, <1>3, <1>4
  <2>3. \A m \in PrimaryPlanes : shown'[m] \in 0..MaxFlips + 1
    BY <1>3, <2>2
  <2> QED BY <1>1, <1>3, <2>1, <2>2, <2>3
<1>8. CASE n \notin PrimaryPlanes
  <2>1. seen' = seen
    BY <1>1, <1>2, <1>3, <1>8
  <2>2. stage \in {"fb", "refetch"} => StillThere' = StillThere
    BY <1>1, <1>2, <1>3, <1>8 DEF SizeInv, PlanesInv, StillThere
  <2>3. \A k : Shown(k)' = Shown(k)
    BY <2>1 DEF Shown
  <2>4. ReasonInv'
    BY <1>1, <1>7, <2>2, <2>3 DEF SizeInv, ReasonInv
  <2> QED BY <1>1, <1>5, <1>6, <2>4 DEF SizeInv
<1>9. CASE n \in PrimaryPlanes
  <2>1. seen' = seen \union {fb}
    BY <1>1, <1>2, <1>3, <1>9
  <2>2. /\ IsFiniteSet(seen) /\ Cardinality(seen) \in Nat /\ Cardinality(seen) >= 1
        /\ fb # 0 => Cardinality(seen') = Cardinality(seen) + 1
    BY <1>3, <1>4, <1>9, <2>1, SeenIsFinite, FS_AddElement
  <2>3. \A k \in Nat : Shown(k) => Shown(k + 1)' /\ Shown(k)'
    BY <2>1, <2>2 DEF Shown
  <2>4. Shown(2)'
    BY <2>1, <2>2 DEF Shown
  <2>5. /\ Shown(tries + 2) => Shown(tries + 3)' /\ Shown(tries + 2)'
        /\ Shown(MaxTries + 4) => Shown(MaxTries + 4)'
    <3>1. tries + 2 \in Nat /\ MaxTries + 4 \in Nat /\ tries + 2 + 1 = tries + 3
      BY <1>3
    <3> QED BY <1>1, <2>3, <3>1
  <2>6. ReasonInv'
    BY <1>1, <1>7, <2>4, <2>5 DEF SizeInv, ReasonInv, Shown
  <2> QED BY <1>1, <1>5, <1>6, <2>6 DEF SizeInv
<1> QED BY <1>8, <1>9

\* Stages that leave the planes alone.
LEMMA SamePlanes ==
  ASSUME SizeInv, UNCHANGED device, UNCHANGED query, stage' \notin {"fb", "refetch"}
  PROVE  PlanesInv'
BY DEF SizeInv, PlanesInv, device, query, PrimaryPlanes, SizeWasShown

\* What a step of kms_setup has to establish.
Passed == {"connector", "encoder", "plane"}

LEMMA SetupStep ==
  ASSUME SizeInv, stage \in Setups, UNCHANGED device, UNCHANGED query,
         stage' \in {"connector", "encoder", "crtc", "plane", "cleanup", "crashed"},
         kms' = [res |-> kms'.res, connector |-> kms'.connector, encoder |-> kms'.encoder,
                 crtc |-> kms'.crtc],
         stage' # "crashed" => Owned' \subseteq live',
         \A o \in live' : o \in Owned' \/ o.kind \in Passed,
         stage' = "connector" => kms'.connector = Null,
         stage' \in {"connector", "encoder"} => kms'.encoder = Null,
         stage' \in Setups => kms'.crtc = Null,
         stage' = "crtc" => Excuse' \/ CrtcKnown',
         stage' = "cleanup" => Excuse'
  PROVE  SizeInv'
<1>1. drm' = drm /\ shown' = shown /\ seen' = seen /\ tries' = tries /\ size' = size
  BY DEF device, query
<1>2. PlanesInv'
  BY SamePlanes
<1>3. ObjectsInv'
  BY DEF ObjectsInv, Passed, Measures
<1>4. ReasonInv'
  BY <1>1 DEF SizeInv, ReasonInv
<1> QED BY <1>1, <1>2, <1>3, <1>4 DEF SizeInv, Setups, Measures

LEMMA SetupKeepsSize == ASSUME SizeInv, Setup PROVE SizeInv'
<1>1. /\ stage = "open" /\ UNCHANGED device /\ UNCHANGED query /\ live = {}
      /\ kms.connector = Null /\ kms.encoder = Null /\ kms.crtc = Null
  BY DEF Setup, SizeInv, ObjectsInv, Setups
<1>2. CASE stage' = "connector" /\ kms' = [kms EXCEPT !.res = TRUE] /\ live' = {Object("res", 0)}
  <2>1. /\ kms'.connector = Null /\ kms'.encoder = Null /\ kms'.crtc = Null
        /\ kms' = [res |-> kms'.res, connector |-> kms'.connector, encoder |-> kms'.encoder,
                   crtc |-> kms'.crtc]
    BY <1>1, <1>2 DEF SizeInv
  <2>2. Owned' = {Object("res", 0)}
    BY <2>1 DEF Owned, Held
  <2> QED BY <1>1, <1>2, <2>1, <2>2, SetupStep DEF Setups
<1>3. CASE stage' = "crashed" /\ UNCHANGED <<kms, live>>
  BY <1>1, <1>3, SetupStep DEF Setups, SizeInv
<1> QED BY <1>2, <1>3 DEF Setup

LEMMA SetupConnectorKeepsSize == ASSUME SizeInv, SetupConnector PROVE SizeInv'
<1>1. /\ stage = "connector" /\ stage' = "encoder" /\ UNCHANGED device /\ UNCHANGED query
      /\ kms.encoder = Null /\ kms.crtc = Null /\ Len(drm.connectors) \in Nat
      /\ Owned \subseteq live /\ \A o \in live : o \in Owned \/ o.kind \in Passed
  BY Tables DEF SetupConnector, SizeInv, ObjectsInv, Setups, Passed
<1>2. Owned = {Object("res", 0)}
  BY <1>1 DEF SizeInv, ObjectsInv, Owned, Held
<1>3. PICK answer \in [1..Len(drm.connectors) -> {"null", "dark", "lit"}] :
        /\ kms' = [kms EXCEPT !.connector =
                     IF Chosen(answer) = 0 \/ answer[Chosen(answer)] = "null" THEN Null
                     ELSE [id |-> Chosen(answer), encoder |-> drm.connectors[Chosen(answer)]]]
        /\ live' = live \union {Object("connector", n) :
                                  n \in {n \in 1..Chosen(answer) : answer[n] # "null"}}
  BY DEF SetupConnector
<1> DEFINE c == Chosen(answer)
<1>4. c \in 0..Len(drm.connectors)
  <2> DEFINE lit == {n \in 1..Len(drm.connectors) : answer[n] = "lit"}
  <2>0. lit \subseteq Nat
    BY <1>1
  <2>1. lit # {} => Min(lit) \in lit
    <3> HIDE DEF lit
    <3> QED BY <2>0, MinIsElement
  <2>2. c = IF lit # {} THEN Min(lit) ELSE Len(drm.connectors)
    BY DEF Chosen
  <2>3. lit \subseteq 1..Len(drm.connectors)
    OBVIOUS
  <2> HIDE DEF c, lit
  <2>4. lit # {} => c \in 1..Len(drm.connectors)
    BY <2>1, <2>2, <2>3
  <2> QED BY <1>1, <2>2, <2>4
<1> HIDE DEF c
<1>5. /\ kms' = [kms EXCEPT !.connector = IF c = 0 \/ answer[c] = "null" THEN Null
                                          ELSE [id |-> c, encoder |-> drm.connectors[c]]]
      /\ live' = live \union {Object("connector", n) : n \in {n \in 1..c : answer[n] # "null"}}
  BY <1>3 DEF c
<1>6. /\ kms'.encoder = Null /\ kms'.crtc = Null
      /\ kms'.connector = IF c = 0 \/ answer[c] = "null" THEN Null
                          ELSE [id |-> c, encoder |-> drm.connectors[c]]
      /\ kms' = [res |-> kms'.res, connector |-> kms'.connector, encoder |-> kms'.encoder,
                 crtc |-> kms'.crtc]
  BY <1>1, <1>5 DEF SizeInv
<1>7. Owned' \subseteq live'
  <2>1. Object("res", 0) \in live'
    BY <1>1, <1>2, <1>5
  <2>2. Owned' = Held("connector", kms'.connector) \union {Object("res", 0)}
    BY <1>6 DEF Owned, Held
  <2>3. Held("connector", kms'.connector) \subseteq live'
    <3>1. CASE c = 0 \/ answer[c] = "null"
      BY <1>6, <3>1 DEF Held
    <3>2. CASE ~(c = 0 \/ answer[c] = "null")
      <4>1. c \in {n \in 1..c : answer[n] # "null"}
        BY <1>1, <1>4, <3>2
      <4>2. Object("connector", c) \in live'
        BY <1>5, <4>1
      <4>3. kms'.connector.id = c
        BY <1>6, <3>2
      <4> QED BY <4>2, <4>3 DEF Held
    <3> QED BY <3>1, <3>2
  <2> QED BY <2>1, <2>2, <2>3
<1>8. ASSUME NEW o \in live' PROVE o \in Owned' \/ o.kind \in Passed
  <2>1. CASE o \in live
    BY <1>1, <1>2, <2>1 DEF Owned
  <2>2. CASE o \notin live
    <3>1. PICK n \in {n \in 1..c : answer[n] # "null"} : o = Object("connector", n)
      BY <1>5, <1>8, <2>2
    <3> QED BY <3>1 DEF Object, Passed
  <2> QED BY <2>1, <2>2
<1> QED BY <1>1, <1>6, <1>7, <1>8, SetupStep DEF Setups

\* kms_setup_encoder ends with encoder e, the objects of K fetched on the way.
LEMMA EncoderStep ==
  ASSUME SizeInv, stage = "encoder", UNCHANGED device, UNCHANGED query, NEW e, NEW K,
         live' = live \union {Object("encoder", k) : k \in K}, failed => failed',
         \/ /\ stage' = "crtc" /\ kms' = [kms EXCEPT !.encoder = e]
            /\ e = Null \/ e.id \in K
            /\ Excuse \/ failed' \/ (e # Null /\ e.crtc \in CrtcIds)
         \/ stage' = "crashed" /\ kms' = kms
  PROVE  SizeInv'
<1>1. /\ kms.encoder = Null /\ kms.crtc = Null
      /\ Owned \subseteq live /\ \A o \in live : o \in Owned \/ o.kind \in Passed
      /\ kms = [res |-> kms.res, connector |-> kms.connector, encoder |-> kms.encoder,
                crtc |-> kms.crtc]
  BY DEF SizeInv, ObjectsInv, Setups, Passed
<1>2. Owned = Held("connector", kms.connector) \union {Object("res", 0)}
  BY <1>1 DEF Owned, Held
<1>3. /\ kms'.connector = kms.connector /\ kms'.crtc = Null
      /\ kms' = [res |-> kms'.res, connector |-> kms'.connector, encoder |-> kms'.encoder,
                 crtc |-> kms'.crtc]
  BY <1>1
<1>4. Owned' = Owned \union Held("encoder", kms'.encoder)
  BY <1>2, <1>3 DEF Owned, Held
<1>5. ASSUME NEW o \in live' PROVE o \in Owned' \/ o.kind \in Passed
  BY <1>1, <1>4 DEF Object, Passed
<1>6. CASE /\ stage' = "crtc" /\ kms' = [kms EXCEPT !.encoder = e]
           /\ e = Null \/ e.id \in K
           /\ Excuse \/ failed' \/ (e # Null /\ e.crtc \in CrtcIds)
  <2>1. kms'.encoder = e
    BY <1>1, <1>6
  <2>2. Owned' \subseteq live'
    BY <1>1, <1>4, <1>6, <2>1 DEF Held
  <2>3. drm' = drm
    BY DEF device
  <2>4. Excuse' \/ CrtcKnown'
    BY <1>3, <1>6, <2>1, <2>3 DEF Excuse, CrtcKnown, Leads, PrimaryPlanes, CrtcIds
  <2> QED BY <1>3, <1>5, <1>6, <2>2, <2>4, SetupStep DEF Setups
<1>7. CASE stage' = "crashed" /\ kms' = kms
  BY <1>1, <1>5, <1>7, SetupStep DEF Setups
<1> QED BY <1>6, <1>7

LEMMA SetupEncoderKeepsSize == ASSUME SizeInv, SetupEncoder PROVE SizeInv'
<1> DEFINE n == Len(drm.encoders)
           stops == {e \in 1..n : Stops(e)}
           first == IF stops = {} THEN n ELSE Min(stops)
<1>1. /\ stage = "encoder" /\ UNCHANGED device /\ UNCHANGED query /\ n \in Nat
      /\ drm.encoders = <<>> <=> n = 0
      /\ CrtcIds \subseteq Nat
      /\ \A e \in 1..n : drm.encoders[e].possible \subseteq Nat
      /\ \A e \in 1..n : drm.encoders[e].crtc \in CrtcIds \union {0}
  BY Tables DEF SetupEncoder, SizeInv
<1>2. stops # {} => first \in stops /\ \A e \in stops : first <= e
  BY <1>1, MinIsElement
\* When the connector's encoder leads to a CRTC, the loop stops there.
<1>3. ASSUME ~Excuse PROVE /\ stops # {} /\ first = kms.connector.encoder
                           /\ drm.encoders[first].crtc \in CrtcIds
  <2> DEFINE e == kms.connector.encoder
  <2>1. e \in 1..n /\ drm.encoders[e].crtc # 0 /\ \A k \in 1..e - 1 : drm.encoders[k].possible = {}
    BY <1>3 DEF Excuse, Leads
  <2>2. e \in stops
    BY <2>1 DEF Stops, Matches
  <2>3. \A k \in 1..e - 1 : k \notin stops
    BY <1>1, <2>1 DEF Stops, Matches
  <2>4. first \in 1..n /\ first <= e /\ first \in stops
    BY <1>2, <2>2
  <2> HIDE DEF first, stops
  <2>5. first = e
    BY <1>1, <2>1, <2>3, <2>4
  <2> QED BY <1>1, <2>1, <2>2, <2>5
<1>4. ASSUME NEW e, EncoderFails(e) PROVE SizeInv'
  BY <1>1, <1>4, EncoderStep DEF EncoderFails
<1>5. CASE /\ kms.connector = Null /\ drm.encoders # <<>> /\ stage' = "crashed"
           /\ UNCHANGED <<kms, live, failed>>
  <2>1. live' = live \union {Object("encoder", k) : k \in {}}
    BY <1>5
  <2> QED BY <1>1, <1>5, <2>1, EncoderStep
<1>6. CASE stops # {} /\ MatchingEncoder(first)
  <2> HIDE DEF first, stops
  <2> DEFINE e == [id |-> first, crtc |-> drm.encoders[first].crtc]
  <2>1. /\ kms' = [kms EXCEPT !.encoder = e] /\ stage' = "crtc" /\ failed' = failed
        /\ live' = live \union {Object("encoder", k) : k \in 1..first}
    BY <1>6 DEF MatchingEncoder
  <2>2. first \in 1..n
    BY <1>2, <1>6 DEF stops
  <2>3. e.id \in 1..first
    BY <1>1, <2>2
  <2>4. e # Null
    <3>1. drm.encoders[first].crtc \in CrtcIds \union {0}
      BY <1>1, <2>2
    <3>2. drm.encoders[first].crtc \in Nat /\ first \in Nat
      <4> DEFINE r == drm.encoders[first].crtc
      <4>1. first \in Nat
        <5> HIDE DEF n
        <5> QED BY <1>1, <2>2
      <4>2. CrtcIds \subseteq Nat
        BY <1>1
      <4>3. r \in CrtcIds \union {0}
        BY <3>1
      <4> HIDE DEF r
      <4>4. r \in Nat
        BY <4>2, <4>3
      <4> QED BY <4>1, <4>4 DEF r
    <3>3. e \in [id : Nat, crtc : Nat]
      BY <3>2
    <3>4. \A x : x \in [id : Nat, crtc : Nat] => x # Null
      BY NullAssumption
    <3> HIDE DEF e
    <3> QED BY <3>3, <3>4
  <2>5. e.crtc = drm.encoders[first].crtc
    OBVIOUS
  <2> HIDE DEF e
  <2> QED BY <1>1, <1>3, <2>1, <2>3, <2>4, <2>5, EncoderStep
<1>7. CASE stops # {} /\ OtherEncoder(first)
  <2> HIDE DEF first, stops
  <2> DEFINE j == Min(drm.encoders[first].possible)
             e == [id |-> 0, crtc |-> j]
  <2>1. Excuse
    BY <1>3, <1>7 DEF OtherEncoder, Matches
  <2>2. e.id \in (1..first - 1) \union {0}
    OBVIOUS
  <2> HIDE DEF j
  <2>3. CASE /\ kms' = [kms EXCEPT !.encoder = e] /\ stage' = "crtc" /\ failed' = failed
             /\ live' = live \union {Object("encoder", k) : k \in (1..first - 1) \union {0}}
    <3> HIDE DEF e
    <3> QED BY <1>1, <2>1, <2>2, <2>3, EncoderStep
  <2>4. CASE /\ stage' = "crashed" /\ kms' = kms /\ failed' = failed
             /\ live' = live \union {Object("encoder", k) : k \in 1..first - 1}
    BY <1>1, <2>4, EncoderStep
  <2> QED BY <1>7, <2>3, <2>4 DEF OtherEncoder, Refetched, j
<1>8. CASE stops = {} /\ NoEncoder
  <2>1. /\ kms' = [kms EXCEPT !.encoder = IF n = 0 THEN Null
                                          ELSE [id |-> n, crtc |-> drm.encoders[n].crtc]]
        /\ stage' = "crtc" /\ live' = live \union {Object("encoder", k) : k \in 1..n}
        /\ failed' = failed /\ Excuse
    BY <1>3, <1>8 DEF NoEncoder
  <2> HIDE DEF n, first, stops
  <2>2. CASE n = 0
    <3>1. kms' = [kms EXCEPT !.encoder = Null]
      BY <2>1, <2>2
    <3> QED BY <1>1, <2>1, <3>1, EncoderStep
  <2>3. CASE n # 0
    <3> DEFINE e == [id |-> n, crtc |-> drm.encoders[n].crtc]
    <3>1. kms' = [kms EXCEPT !.encoder = e] /\ e.id \in 1..n
      BY <1>1, <2>1, <2>3
    <3> HIDE DEF e
    <3> QED BY <1>1, <2>1, <3>1, EncoderStep
  <2> QED BY <2>2, <2>3
<1> QED BY <1>4, <1>5, <1>6, <1>7, <1>8 DEF SetupEncoder

LEMMA SetupCrtcKeepsSize == ASSUME SizeInv, SetupCrtc PROVE SizeInv'
<1>1. /\ stage = "crtc" /\ UNCHANGED device /\ UNCHANGED query /\ kms.crtc = Null
      /\ Owned \subseteq live /\ \A o \in live : o \in Owned \/ o.kind \in Passed
      /\ kms = [res |-> kms.res, connector |-> kms.connector, encoder |-> kms.encoder,
                crtc |-> kms.crtc]
  BY DEF SetupCrtc, SizeInv, ObjectsInv, Setups, Passed
<1>2. CASE /\ kms.encoder # Null /\ kms.encoder.crtc \in CrtcIds
           /\ kms' = [kms EXCEPT !.crtc = [id |-> kms.encoder.crtc]]
           /\ live' = live \union {Object("crtc", kms.encoder.crtc)} /\ stage' = "plane"
  <2>1. /\ kms'.connector = kms.connector /\ kms'.encoder = kms.encoder
        /\ kms'.crtc = [id |-> kms.encoder.crtc]
        /\ kms' = [res |-> kms'.res, connector |-> kms'.connector, encoder |-> kms'.encoder,
                   crtc |-> kms'.crtc]
    BY <1>1, <1>2
  <2>2. kms'.crtc # Null
    <3>1. kms.encoder.crtc \in Nat
      BY <1>2, Tables DEF SizeInv
    <3> QED BY <2>1, <3>1, NullAssumption
  <2>3. Owned' = Owned \union {Object("crtc", kms.encoder.crtc)}
    BY <1>1, <2>1, <2>2 DEF Owned, Held
  <2>4. Owned' \subseteq live' /\ \A o \in live' : o \in Owned' \/ o.kind \in Passed
    BY <1>1, <1>2, <2>3
  <2> QED BY <1>1, <1>2, <2>1, <2>4, SetupStep DEF Setups
<1>3. CASE stage' = "cleanup" /\ failed' = (failed \/ CrtcKnown) /\ UNCHANGED <<kms, live>>
  <2>1. Owned' = Owned
    BY <1>3 DEF Owned
  <2>2. drm' = drm
    BY <1>1 DEF device
  <2>3. Excuse'
    BY <1>1, <1>3, <2>2 DEF SizeInv, ReasonInv, Excuse, Leads, PrimaryPlanes
  <2> QED BY <1>1, <1>3, <2>1, <2>3, SetupStep DEF Setups
<1> QED BY <1>2, <1>3 DEF SetupCrtc, CrtcKnown

LEMMA GetPrimaryPlaneKeepsSize == ASSUME SizeInv, GetPrimaryPlane PROVE SizeInv'
<1>1. /\ stage \in {"plane", "retry"} /\ UNCHANGED <<kms, tries, size>>
      /\ drm' = drm /\ shown' = shown /\ seen' = seen
  BY DEF GetPrimaryPlane, device
<1>2. PICK readable \in SUBSET (1..Len(drm.planes)) :
        /\ LET primary == FirstPrimary(readable)
           IN IF primary # {}
              THEN /\ plane' = [id |-> Min(primary), fb |-> shown[Min(primary)]]
                   /\ live' = live \union {Object("plane", IF stage = "plane" THEN 0 ELSE tries + 1)}
                   /\ stage' = IF stage = "plane" THEN "fb" ELSE "refetch"
              ELSE /\ plane' = Null
                   /\ stage' = IF stage = "plane" THEN "cleanup" ELSE "crashed"
                   /\ UNCHANGED live
        /\ failed' = (failed \/ readable # 1..Len(drm.planes))
  BY DEF GetPrimaryPlane
<1> DEFINE primary == FirstPrimary(readable)
<1>3. /\ primary # {} => Min(primary) \in PrimaryPlanes
      /\ primary = {} => failed' \/ PrimaryPlanes = {}
  <2>1. /\ primary = readable \intersect PrimaryPlanes /\ PrimaryPlanes \subseteq 1..Len(drm.planes)
        /\ primary \subseteq Nat
    BY Tables DEF FirstPrimary, SizeInv
  <2> HIDE DEF primary
  <2>2. primary # {} => Min(primary) \in primary
    BY <2>1, MinIsElement
  <2> QED BY <1>2, <2>1, <2>2
<1> HIDE DEF primary
<1>4. \/ /\ plane'.id \in PrimaryPlanes /\ plane'.fb = shown[plane'.id]
         /\ stage' = (IF stage = "plane" THEN "fb" ELSE "refetch")
         /\ \E id : live' = live \union {Object("plane", id)}
      \/ /\ stage' = (IF stage = "plane" THEN "cleanup" ELSE "crashed") /\ live' = live
         /\ failed' \/ PrimaryPlanes = {}
  <2>1. CASE primary # {}
    <3>1. plane' = [id |-> Min(primary), fb |-> shown[Min(primary)]]
      BY <1>2, <2>1 DEF primary
    <3>2. plane'.id \in PrimaryPlanes /\ plane'.fb = shown[plane'.id]
      BY <1>3, <2>1, <3>1
    <3> QED BY <1>1, <1>2, <2>1, <3>2 DEF primary
  <2>2. CASE primary = {}
    BY <1>1, <1>2, <1>3, <2>2 DEF primary
  <2> QED BY <2>1, <2>2
<1>5. PlanesInv'
  BY <1>1, <1>4 DEF SizeInv, PlanesInv, PrimaryPlanes, SizeWasShown
<1>6. ObjectsInv'
  <2>1. Owned' = Owned
    BY <1>1 DEF Owned
  <2>2. \A o \in live' : o \in Owned' \/ o.kind \in Passed
    BY <1>4, <2>1 DEF SizeInv, ObjectsInv, Object, Passed
  <2>3. Owned' \subseteq live'
    BY <1>1, <1>4, <2>1 DEF SizeInv, ObjectsInv, Measures
  <2> QED BY <1>1, <1>4, <2>2, <2>3 DEF ObjectsInv, Passed, Setups
<1>7. ReasonInv'
  <2>1. failed => failed'
    BY <1>2
  <2>2. Excuse => Excuse'
    BY <1>1, <2>1 DEF Excuse, Leads, PrimaryPlanes
  <2>3. plane'.id \in PrimaryPlanes /\ plane'.fb = shown[plane'.id] =>
          StillThere' \/ 0 \in seen'
    <3>1. \A m \in PrimaryPlanes : shown[m] \in seen
      BY DEF SizeInv, PlanesInv
    <3> QED BY <1>1, <3>1 DEF StillThere
  <2>4. \A k : Shown(k)' = Shown(k)
    BY <1>1 DEF Shown
  <2>5. 0 \in seen' => \A k : Shown(k)'
    BY DEF Shown
  <2>6. failed' \/ PrimaryPlanes = {} => Excuse'
    BY <1>1 DEF Excuse, PrimaryPlanes
  <2>7. CASE stage = "plane"
    BY <1>1, <1>4, <2>2, <2>3, <2>5, <2>6, <2>7 DEF SizeInv, ReasonInv, Setups
  <2>8. CASE stage = "retry"
    <3>1. Excuse' \/ Shown(tries + 2)
      BY <2>2, <2>8 DEF SizeInv, ReasonInv
    <3> QED BY <1>1, <1>4, <2>3, <2>4, <2>5, <2>6, <2>8, <3>1 DEF SizeInv, ReasonInv, Setups
  <2> QED BY <1>1, <2>7, <2>8
<1> QED BY <1>1, <1>4, <1>5, <1>6, <1>7 DEF SizeInv, Measures

LEMMA GetFBKeepsSize == ASSUME SizeInv, GetFB PROVE SizeInv'
<1>1. /\ stage \in {"fb", "refetch"} /\ UNCHANGED <<drm, shown, seen, kms, plane, live>>
      /\ tries' = IF stage = "refetch" THEN tries + 1 ELSE tries
      /\ plane.id \in PrimaryPlanes /\ shown[plane.id] \in seen
      /\ seen \subseteq 0..MaxFlips + 1 /\ tries \in Nat /\ MaxTries \in Nat
  BY DevicesAssumption DEF GetFB, Tried, device, SizeInv, PlanesInv, ReasonInv
<1>2. \/ size' = plane.fb /\ StillThere /\ stage' = "cleanup" /\ failed' = failed
      \/ /\ size' = size /\ failed' = (failed \/ StillThere)
         /\ stage' = IF stage = "refetch" /\ tries > MaxTries THEN "cleanup" ELSE "retry"
  BY DEF GetFB, Measure
<1>3. size' = size \/ (size' \in seen /\ size' # Null)
  <2>1. CASE size' = plane.fb /\ StillThere
    <3>1. size' \in seen
      BY <1>1, <2>1 DEF StillThere
    <3> QED BY <1>1, <3>1, NullAssumption
  <2> QED BY <1>2, <2>1
<1>4. PlanesInv'
  BY <1>1, <1>2, <1>3 DEF SizeInv, PlanesInv, PrimaryPlanes, SizeWasShown
<1>5. ObjectsInv'
  BY <1>1, <1>2 DEF SizeInv, ObjectsInv, Owned, Measures, Setups
<1>6. ReasonInv'
  <2>1. (Excuse => Excuse') /\ (failed' => Excuse') /\ \A k : Shown(k) <=> Shown(k)'
    <3>1. failed => failed'
      BY <1>2
    <3>2. \A k : Shown(k) <=> Shown(k)'
      BY <1>1 DEF Shown
    <3> QED BY <1>1, <3>1, <3>2 DEF Excuse, Leads, PrimaryPlanes
  <2>2. CASE size' = plane.fb /\ StillThere /\ stage' = "cleanup"
    <3>1. size' # Null
      <4>1. plane.fb \in 0..MaxFlips + 1
        BY <1>1, <2>2 DEF StillThere
      <4> QED BY <2>2, <4>1, NullAssumption
    <3> QED BY <1>1, <2>2, <3>1 DEF SizeInv, ReasonInv, Setups
  <2>3. CASE stage = "fb" /\ ~(size' = plane.fb /\ StillThere /\ stage' = "cleanup")
    <3>1. stage' = "retry" /\ tries' = 0 /\ (Excuse' \/ Shown(2))
      BY <1>1, <1>2, <2>1, <2>3 DEF SizeInv, ReasonInv
    <3> QED BY <1>1, <2>1, <3>1 DEF SizeInv, ReasonInv, Setups
  <2>4. CASE stage = "refetch" /\ ~(size' = plane.fb /\ StillThere /\ stage' = "cleanup")
    <3>1. tries' = tries + 1 /\ tries <= MaxTries + 1 /\ (Excuse' \/ Shown(tries + 3))
      BY <1>1, <1>2, <2>1, <2>4 DEF SizeInv, ReasonInv
    <3>2. CASE tries > MaxTries
      <4>1. tries = MaxTries + 1 /\ stage' = "cleanup"
        BY <1>1, <1>2, <2>4, <3>1, <3>2
      <4>2. tries' = MaxTries + 2 /\ tries + 3 = MaxTries + 4
        BY <1>1, <3>1, <4>1
      <4> QED BY <1>1, <2>1, <3>1, <4>1, <4>2 DEF SizeInv, ReasonInv, Setups
    <3>3. CASE ~(tries > MaxTries)
      <4>1. stage' = "retry" /\ tries' <= MaxTries + 1 /\ tries' + 2 = tries + 3 /\ tries' \in Nat
        BY <1>1, <1>2, <2>4, <3>1, <3>3
      <4> QED BY <1>1, <2>1, <3>1, <4>1 DEF SizeInv, ReasonInv, Setups
    <3> QED BY <3>2, <3>3
  <2> QED BY <1>1, <2>2, <2>3, <2>4
<1> QED BY <1>1, <1>2, <1>4, <1>5, <1>6 DEF SizeInv, Measures

LEMMA CleanupKeepsSize == ASSUME SizeInv, Cleanup PROVE SizeInv'
<1>1. /\ stage = "cleanup" /\ stage' = "done" /\ live' = live \ Owned
      /\ UNCHANGED <<drm, shown, seen, kms, plane, size, tries, failed>>
  BY DEF Cleanup, Released, device, query
<1>2. Owned' = Owned
  BY <1>1 DEF Owned
<1>3. PlanesInv'
  BY <1>1 DEF SizeInv, PlanesInv, PrimaryPlanes, SizeWasShown
<1>4. ObjectsInv'
  BY <1>1, <1>2 DEF SizeInv, ObjectsInv, Measures, Setups
<1>5. ReasonInv'
  BY <1>1 DEF SizeInv, ReasonInv, Setups, Excuse, Leads, PrimaryPlanes, Shown
<1> QED BY <1>1, <1>3, <1>4, <1>5 DEF SizeInv

LEMMA SizeStep == SizeInv /\ [SizeNext]_sizeVars => SizeInv'
<1> SUFFICES ASSUME SizeInv, [SizeNext]_sizeVars PROVE SizeInv'
  OBVIOUS
<1>1. CASE getGraphicSize
  BY <1>1, SetupKeepsSize, SetupConnectorKeepsSize, SetupEncoderKeepsSize, SetupCrtcKeepsSize,
     GetPrimaryPlaneKeepsSize, GetFBKeepsSize, CleanupKeepsSize DEF getGraphicSize
<1>2. ASSUME NEW n \in 1..Len(drm.planes), Flip(n) PROVE SizeInv'
  BY <1>2, FlipKeepsSize
<1>3. CASE UNCHANGED sizeVars
  <2>1. UNCHANGED <<drm, shown, seen, stage, kms, plane, tries, live, size, failed>>
    BY <1>3 DEF sizeVars
  <2>2. PlanesInv' /\ ObjectsInv'
    BY <2>1 DEF SizeInv, PlanesInv, ObjectsInv, PrimaryPlanes, SizeWasShown, Owned
  <2>3. ReasonInv'
    BY <2>1 DEF SizeInv, ReasonInv, Excuse, Leads, PrimaryPlanes, Shown, CrtcKnown, CrtcIds, StillThere
  <2> QED BY <2>1, <2>2, <2>3 DEF SizeInv
<1> QED BY <1>1, <1>2, <1>3 DEF SizeNext, SizeRest

LEMMA SizeInvariant == SizeSpec => []SizeInv
<1> QED BY SizeStart, SizeStep, PTL DEF SizeSpec

\* SoC_abstraction.cpp:104-160: a size is never that of a framebuffer that was
\* on no primary plane during the query, whatever the compositor does.
THEOREM MeasuredWasShown == SizeSpec => []SizeWasShown
<1>1. SizeInv => SizeWasShown
  BY DEF SizeInv, PlanesInv
<1> QED BY <1>1, SizeInvariant, PTL

\* SoC_abstraction.cpp:104-146, 173-185: for any device, compositor and number
\* of retries, the callers return an unwritten size only when libdrm failed,
\* the connector's encoder leads to no CRTC, there is no primary plane, or
\* every look at its framebuffer came too late.
THEOREM UnwrittenForAReason == SizeSpec => []MissingSizeHasAReason
<1>1. ASSUME SizeInv, Shown(MaxTries + 4) PROVE 0 \in seen \/ Cardinality(seen) > MaxTries + 3
  <2>1. Cardinality(seen) \in Nat /\ MaxTries \in Nat
    BY <1>1, DevicesAssumption, SeenIsFinite DEF SizeInv, ReasonInv
  <2> QED BY <1>1, <2>1 DEF Shown
<1>2. SizeInv => MissingSizeHasAReason
  BY <1>1 DEF SizeInv, ReasonInv, MissingSizeHasAReason, Excuse
<1> QED BY <1>2, SizeInvariant, PTL

\* kms.c:122-135: whichever call failed, kms_cleanup_context frees what is
\* allocated, once, and leaves only what the walk passed over.
THEOREM WalkReleases == SizeSpec => []ContextIsReleased
<1>1. SizeInv => ContextIsReleased
  BY DEF SizeInv, ObjectsInv, ContextIsReleased
<1> QED BY <1>1, SizeInvariant, PTL
=============================================================================
