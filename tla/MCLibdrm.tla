------------------------------ MODULE MCLibdrm ------------------------------
(* The two uses of libdrm, DRMConnector and GraphicSize, for TLC.  They share
   nothing: a behaviour is one call of either, and the other has ended. *)
EXTENDS DRMConnector, GraphicSize

SmallModes ==
  LET Small == [area : 1..2, preferred : BOOLEAN]
  IN {<<>>} \union {<<a>> : a \in Small} \union {<<a, b>> : a, b \in Small}
     \union {<<a, b, c>> : a, b, c \in [area : 1..2, preferred : {FALSE}]}
UpToTwo == 0..2

\* No connector, one, or two; no encoder, one, or two, bound or not and able to
\* drive a CRTC or not; identifiers that are indices too, or no index; two
\* planes of which one or both are primary, or one that is not.
SmallDevices ==
  LET Encoders(ids) == [possible : {{}, {1}}, crtc : {0, ids[1]}]
                       \union {[possible |-> {0, 1}, crtc |-> ids[2]]}
      Tables(ids) == [crtcs : {ids}, connectors : {<<1>>, <<0, 2>>},
                      encoders : {<<a, b>> : a, b \in Encoders(ids)},
                      planes : {<<"overlay", "primary">>}]
                     \union
                     [crtcs : {ids}, connectors : {<<>>, <<1>>}, encoders : {<<a>> : a \in Encoders(ids)},
                      planes : {<<"primary", "primary">>, <<"cursor">>}]
  IN Tables(<<1, 2>>) \union Tables(<<5, 6>>)
     \union [crtcs : {<<>>}, connectors : {<<>>, <<0>>}, encoders : {<<>>}, planes : {<<>>}]

NoDevice == [crtcs |-> <<>>, connectors |-> <<>>, encoders |-> <<>>, planes |-> <<>>]

NoConnector ==
  /\ count = 0 /\ got = <<>> /\ preferred = FALSE
  /\ pc = "done" /\ i = 1 /\ index = 1 /\ result = 0 /\ chosen = NoMode
NoSize ==
  /\ drm = NoDevice /\ shown = <<>> /\ seen = {} /\ stage = "done" /\ kms = Empty
  /\ plane = Null /\ tries = 0 /\ live = {} /\ size = Null /\ failed = FALSE

LibdrmInit == (Init /\ NoSize) \/ (SizeInit /\ NoConnector)
LibdrmNext == (Next /\ UNCHANGED sizeVars) \/ (SizeNext /\ UNCHANGED vars)
LibdrmSpec == LibdrmInit /\ [][LibdrmNext]_<<vars, sizeVars>> /\ WF_sizeVars(getGraphicSize)
=============================================================================
