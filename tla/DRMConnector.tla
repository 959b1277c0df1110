---------------------------- MODULE DRMConnector ----------------------------
(***************************************************************************)
(* The constructor of Linux::DRMConnector: a loop over the connectors of   *)
(* the DRM device, and for each one of the wanted type a loop over its     *)
(* modes, for the largest or for the preferred one.                        *)
(*                                                                         *)
(* libdrm is external: got holds what drmModeGetConnector returns for each *)
(* connector, at the moment of each call.  A mode is its hdisplay *        *)
(* vdisplay, which operator> compares (below 2^31), and whether it is      *)
(* marked preferred.                                                       *)
(***************************************************************************)
EXTENDS Naturals, Sequences

CONSTANTS
  Modes,   \* lists of modes a connector may have
  Counts   \* numbers of connectors a device may have

Mode == [area : Nat, preferred : BOOLEAN]
ASSUME ModesAssumption == Modes \subseteq Seq(Mode)
ASSUME CountsAssumption == Counts \subseteq Nat

VARIABLES
  count,      \* count_connectors
  got,        \* per connector: its modes, wanted when it is of drmConnectorType
  preferred,  \* usePreferredMode
  pc,         \* where the constructor is
  i,          \* the connector the loop is at
  index,      \* the mode BestMode or PreferredMode is at
  result,     \* the mode it has found so far, 0 for nullptr
  chosen      \* connector and mode behind _connected, _width, _height, _refreshRate

vars == <<count, got, preferred, pc, i, index, result, chosen>>
inputs == <<count, got, preferred>>

NoMode == [connector |-> 0, mode |-> 0]

Init ==
  /\ count \in Counts
  /\ got \in [1..count -> [wanted : BOOLEAN, modes : Modes]]
  /\ preferred \in BOOLEAN
  /\ pc = "open" /\ i = 1 /\ index = 1 /\ result = 0 /\ chosen = NoMode

\* Without a device nothing is read; without resources the loop's bound is
\* read through a null pointer.
Open ==
  /\ pc = "open"
  /\ pc' \in {"connector", "done", "crashed"}
  /\ UNCHANGED <<inputs, i, index, result, chosen>>

\* A connector of another type, or one that drmModeGetConnector did not
\* return, is passed over.
NextConnector ==
  /\ pc = "connector" /\ i <= count
  /\ IF got[i].wanted THEN pc' = "mode" /\ index' = 1 /\ result' = 0 /\ UNCHANGED i
     ELSE i' = i + 1 /\ UNCHANGED <<pc, index, result>>
  /\ UNCHANGED <<inputs, chosen>>

NotSmaller(a, b) == a.area >= b.area
Larger(a, b) == a.area > b.area

\* BestMode: the mode so far stays only while it is larger.
BestMode(modes, r, n) == IF r # 0 /\ Larger(modes[r], modes[n]) THEN r ELSE n
PreferredMode(modes, r, n) == IF modes[n].preferred THEN n ELSE r

ScanMode ==
  /\ pc = "mode" /\ index <= Len(got[i].modes)
  /\ result' = IF preferred THEN PreferredMode(got[i].modes, result, index)
               ELSE BestMode(got[i].modes, result, index)
  /\ index' = index + 1
  /\ UNCHANGED <<inputs, pc, i, chosen>>

\* Every connector of the type starts over: what an earlier one gave is lost.
InitializeWithConnector ==
  /\ pc = "mode" /\ index > Len(got[i].modes)
  /\ chosen' = [connector |-> i, mode |-> result]
  /\ pc' = "connector" /\ i' = i + 1
  /\ UNCHANGED <<inputs, index, result>>

Close ==
  /\ pc = "connector" /\ i > count
  /\ pc' = "done"
  /\ UNCHANGED <<inputs, i, index, result, chosen>>

Rest == pc \in {"done", "crashed"} /\ UNCHANGED vars

Next == Open \/ NextConnector \/ ScanMode \/ InitializeWithConnector \/ Close \/ Rest
Spec == Init /\ [][Next]_vars
-----------------------------------------------------------------------------
(* Properties.                                                             *)

\* What the scan of the first n modes should find: the last of the largest
\* modes, or the last preferred one, 0 when there is none.
IsBest(modes, n, r) ==
  IF n = 0 THEN r = 0
  ELSE r \in 1..n /\ \A m \in 1..n : /\ modes[m].area <= modes[r].area
                                     /\ m > r => modes[m].area < modes[r].area
IsPreferred(modes, n, r) ==
  /\ r \in 0..n
  /\ r # 0 => modes[r].preferred
  /\ \A m \in 1..n : modes[m].preferred => m <= r
IsFound(pref, modes, n, r) ==
  IF pref THEN IsPreferred(modes, n, r) ELSE IsBest(modes, n, r)

\* What the object holds once the first n connectors have been read: the mode
\* of the last one of the wanted type, and nothing of the others.
IsChosen(table, pref, n, c) ==
  /\ c.connector \in 0..n
  /\ c.connector = 0 => c.mode = 0
  /\ c.connector # 0 => /\ table[c.connector].wanted
                        /\ IsFound(pref, table[c.connector].modes,
                                   Len(table[c.connector].modes), c.mode)
  /\ \A m \in 1..n : table[m].wanted => m <= c.connector

TypeOK ==
  /\ count \in Nat
  /\ got \in [1..count -> [wanted : BOOLEAN, modes : Seq(Mode)]]
  /\ preferred \in BOOLEAN
  /\ pc \in {"open", "connector", "mode", "done", "crashed"}
  /\ i \in 1..count + 1 /\ (pc = "mode" => i <= count) /\ index \in Nat \ {0} /\ result \in Nat
  /\ chosen \in [connector : Nat, mode : Nat]

\* The width, height and refresh rate the backend answers with are those of
\* the last of the largest (or of the preferred) modes of the last HDMI
\* connector, and a device that cannot be opened is not connected.
ChosenIsRight ==
  pc = "done" => IF i = count + 1 THEN IsChosen(got, preferred, count, chosen)
                 ELSE chosen = NoMode

\* The loops' invariant: what has been scanned so far has been judged right.
ScannedIsRight ==
  /\ pc = "open" => i = 1 /\ chosen = NoMode
  /\ pc \in {"connector", "mode"} => IsChosen(got, preferred, i - 1, chosen)
  /\ pc = "mode" => /\ got[i].wanted /\ index <= Len(got[i].modes) + 1
                    /\ IsFound(preferred, got[i].modes, index - 1, result)
=============================================================================
