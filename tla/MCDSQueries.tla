--------------------------- MODULE MCDSQueries ---------------------------
(* Finite instances of DSQueries for TLC: a projector whose EDID is good   *)
(* and longer than the bound of uint16_t, a panel with a short EDID, and a *)
(* component port, which the HDCP queries must pass over.                  *)
EXTENDS DSQueries, TLC

CONSTANTS c1, hdmi, panel, component

OneCaller == {c1}

ThreePorts == <<component, panel, hdmi>>
ThreeTypes == (component :> "Component") @@ (panel :> "Internal") @@ (hdmi :> "HDMI")

NoEdid == [size |-> 0, valid |-> FALSE, width |-> 0, height |-> 0, refresh |-> 0,
           cm |-> <<0, 0>>, colorimetry |-> {}]
Projector ==
  [edid |-> [size |-> 30, valid |-> TRUE, width |-> 3840, height |-> 2160, refresh |-> 60,
             cm |-> <<121, 68>>, colorimetry |-> {"XVYCC601", "BT2020CL", "BT2020NCL"}],
   colourSpace |-> "YCbCr422", frameRate |-> "k59dot94", depth |-> 10, range |-> "LIMITED",
   eotf |-> "HDR10", formats |-> {"HDR10", "HLG"}, isHDR |-> TRUE,
   matrix |-> "BT_2020_NCL", stereo |-> "PassThru"]
OldPanel ==
  [edid |-> [NoEdid EXCEPT !.size = 8],
   colourSpace |-> "RGB", frameRate |-> "k120", depth |-> 6, range |-> "FULL",
   eotf |-> "SDR", formats |-> {}, isHDR |-> FALSE,
   matrix |-> "RGB", stereo |-> "Stereo"]
Nothing ==
  [edid |-> NoEdid, colourSpace |-> "UNKNOWN", frameRate |-> "UNKNOWN", depth |-> 0,
   range |-> "UNKNOWN", eotf |-> "NONE", formats |-> {}, isHDR |-> FALSE,
   matrix |-> "UNKNOWN", stereo |-> "UNKNOWN"]

TwoSinks == {Projector, OldPanel}
STBBits == {"HDR10", "DolbyVision", "SDR"}
SomeLengths == {0, 4, 20}
EveryQuery == Queries
=============================================================================
