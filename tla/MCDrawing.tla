------------------------------ MODULE MCDrawing -------------------------------
(* What is drawn, for TLC, one part in each behaviour: the spectrogram's texture *)
(* (a ring of four columns that goes around, with two time spans to choose from  *)
(* or with one), the labels of the axes on narrow and wide viewports, and the     *)
(* renderer's fonts and textures.                                                *)
EXTENDS Integers

CONSTANTS
    Parts,                              \* the parts to run
    MaxTime, TwoSpans, OneSpan,         \* of the spectrogram
    TimeStarts, TimeSpans, Extents,     \* of the axes, see AxisLabels
    Chars, Zooms, MaxTextures           \* of the renderer, see CanvasResources

VARIABLES
    part,                                                           \* the one that runs
    now, span, show, track, nfft, xOffset, lastTimeEnd, nffts, tex, drawn, sent, late, fresh,
                                                                    \* see SpectrogramTexture
    axis, lo, hi, extent, labelExtent, ticks, class, at, bits, labels, omitted,
                                                                    \* see AxisLabels
    phase, zoom, mZoomScale, mZoomScaleText, font, textures, mSpecTex, programs, ftFailed, misuse
                                                                    \* see CanvasResources

textureVars == <<now, span, show, track, nfft, xOffset, lastTimeEnd, nffts, tex, drawn, sent,
                 late, fresh>>
axisVars == <<axis, lo, hi, extent, labelExtent, ticks, class, at, bits, labels, omitted>>
canvasVars == <<phase, zoom, mZoomScale, mZoomScaleText, font, textures, mSpecTex, programs, ftFailed, misuse>>
vars == <<part, textureVars, axisVars, canvasVars>>

MCTimeStarts == -12..4

Texture == INSTANCE SpectrogramTexture WITH
    texWidth <- 4, texHeight <- 2, Nffts <- {1, 2}, Delay <- 1, MaxLate <- 2, KeepDuration <- 5,
    Spans <- TwoSpans
SteadyTexture == INSTANCE SpectrogramTexture WITH
    texWidth <- 4, texHeight <- 2, Nffts <- {1, 2}, Delay <- 1, MaxLate <- 2, KeepDuration <- 5,
    Spans <- OneSpan
Axis == INSTANCE AxisLabels WITH
    LinearRanges <- {<<1, 1900>>, <<950, 3001>>, <<1900, 1200>>},
    LogRanges <- {<<1, 300>>, <<60, 900>>, <<60, 12000>>, <<150, 160>>, <<900, 60>>, <<12, 1>>},
    LabelExtents <- {<<4, 3, 2>>, <<9, 7, 5>>},
    drawn <- labels
Canvas == INSTANCE CanvasResources

ASSUME Texture!TextureAssumption /\ SteadyTexture!TextureAssumption
ASSUME Axis!AxisAssumption /\ Canvas!CanvasAssumption
------------------------------------------------------------------------------
NoTexture ==
    /\ now = 0 /\ span = 0 /\ show = 0 /\ track = 0 /\ nfft = 0 /\ xOffset = 0 /\ lastTimeEnd = 0
    /\ nffts = 0 /\ tex = 0 /\ drawn = 0 /\ sent = 0 /\ late = 0 /\ fresh = 0
NoAxis ==
    /\ axis = 0 /\ lo = 0 /\ hi = 0 /\ extent = 0 /\ labelExtent = 0 /\ ticks = 0 /\ class = 0
    /\ at = 0 /\ bits = 0 /\ labels = 0 /\ omitted = 0
NoCanvas ==
    /\ phase = 0 /\ zoom = 0 /\ mZoomScale = 0 /\ mZoomScaleText = 0 /\ font = 0 /\ textures = 0
    /\ mSpecTex = 0 /\ programs = 0 /\ ftFailed = 0 /\ misuse = 0

Init ==
    /\ part \in Parts
    /\ \/ part = "texture" /\ Texture!Init /\ NoAxis /\ NoCanvas
       \/ part = "steady texture" /\ SteadyTexture!Init /\ NoAxis /\ NoCanvas
       \/ part = "axis" /\ Axis!Init /\ NoTexture /\ NoCanvas
       \/ part = "canvas" /\ Canvas!Init /\ NoTexture /\ NoAxis

Next ==
    \/ part = "texture" /\ Texture!Next /\ UNCHANGED <<part, axisVars, canvasVars>>
    \/ part = "steady texture" /\ SteadyTexture!Next /\ UNCHANGED <<part, axisVars, canvasVars>>
    \/ part = "axis" /\ Axis!Next /\ UNCHANGED <<part, textureVars, canvasVars>>
    \/ part = "canvas" /\ Canvas!Next /\ UNCHANGED <<part, textureVars, axisVars>>

Spec == Init /\ [][Next]_vars
------------------------------------------------------------------------------
(* What is drawn: the properties of each module, named there.                   *)

\* A slice is sent to the texture once and in order and the ring's columns hold the
\* last ones; with one time span, all that were drawn were sent but those behind
\* what had been sent, and without such the slices in view are the last ones sent.
TextureCorrect ==
    /\ part \in {"texture", "steady texture"} => Texture!SentOnce /\ Texture!RingInOrder
    /\ part = "steady texture" => SteadyTexture!DrawnSent /\ SteadyTexture!ViewSent

\* Labels do not overlap, one is left out only for one of its class or a larger
\* one, none is forgotten, and a frequency has one tick.
LabelsCorrect ==
    part = "axis" => Axis!TypeOK /\ Axis!LabelsApart /\ Axis!OmittedForLarger /\ Axis!LabelsDecided /\ Axis!TicksOnce

\* Fonts are deleted once and not used afterwards, textures do not leak, and text
\* is drawn at the frame's zoom, over any number of frames and renderers.
ResourcesCorrect ==
    part = "canvas" => Canvas!TypeOK /\ Canvas!FontsUsable /\ Canvas!TexturesOwned /\ Canvas!ZoomFollows

\* "Split it into two chunks if it overlaps the texture width." (qpainterwrapper_static.cpp:100):
\* a column has the length and all the values of its slice.
ColumnsWhole == part = "steady texture" => SteadyTexture!ColumnsWhole
==============================================================================
