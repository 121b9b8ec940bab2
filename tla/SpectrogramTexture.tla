------------------------- MODULE SpectrogramTexture -------------------------
(***************************************************************************)
(* The spectrogram on the screen (QPainterWrapper::drawSpectrogram of      *)
(* src/src/gui/qpainterwrapper_static.cpp and CanvasRenderer's): a texture *)
(* used as a ring of columns, to which a frame adds the slices that came   *)
(* into view since the last one.  Slices come late, and behind others that *)
(* came before them when the FFT's length has grown (no two with one time);*)
(* the user hides the spectrogram and changes the time span it shows; a    *)
(* new renderer has a new texture, while the ring's statics stay.          *)
(***************************************************************************)
EXTENDS Integers, Sequences, FiniteSetsExt, SequencesExt

CONSTANTS
    texWidth, texHeight,    \* columns, and values of a column
    Nffts,                  \* lengths of a slice
    Spans,                  \* the time spans that can be chosen
    Delay,                  \* the view's timeDelay
    MaxLate,                \* how late after its time a slice comes
    KeepDuration,           \* slices older than that are removed
    MaxTime                 \* bound: of the real time

TextureAssumption ==
    /\ texWidth \in Nat \ {0} /\ texHeight \in Nat \ {0} /\ MaxTime \in Nat
    /\ Nffts \subseteq 1..texHeight
    /\ \A s \in Spans : s < KeepDuration /\ s < texWidth    \* "The maximum number of slices ... is ~1500"
    /\ Delay \in Nat /\ MaxLate \in Nat

VARIABLES
    now, span, show,    \* the real time, getViewTimeSpan(), getViewShowSpectrogram()
    track,              \* the times of the slices in the spectrogram track
    nfft,               \* the length of every slice that has come
    xOffset, lastTimeEnd,
    nffts, tex,         \* of the texture's columns: their length and their values
    drawn, sent,        \* the slices of the last frame; all that were sent, in order
    late,               \* history: the slices that came behind one already sent
    fresh               \* how many were sent to the textures of earlier renderers

texture == <<xOffset, lastTimeEnd, nffts, tex, drawn, sent, fresh>>
vars == <<now, span, show, track, nfft, late, texture>>

Columns == 0..(texWidth - 1)
Rows == 0..(texHeight - 1)
Nothing == <<0, 0>>     \* the value of a slot no slice was written to

Init ==
    /\ now = 0 /\ span \in Spans /\ show \in BOOLEAN
    /\ track = {} /\ nfft = <<>>
    /\ xOffset = 0 /\ lastTimeEnd = -1000
    /\ nffts = [x \in Columns |-> 0] /\ tex = [x \in Columns |-> [k \in Rows |-> Nothing]]
    /\ drawn = {} /\ sent = <<>> /\ late = {} /\ fresh = 0

Tick == now < MaxTime /\ now' = now + 1 /\ UNCHANGED <<span, show, track, nfft, late, texture>>

\* The processor inserts a slice, not always behind all the others.
Insert(t, n) ==
    /\ t \in Max({1, now - MaxLate})..now
    /\ t \notin DOMAIN nfft
    /\ track' = track \cup {t}
    /\ late' = IF \E i \in DOMAIN sent : sent[i] > t THEN late \cup {t} ELSE late
    /\ nfft' = [u \in DOMAIN nfft \cup {t} |-> IF u = t THEN n ELSE nfft[u]]
    /\ UNCHANGED <<now, span, show, texture>>

\* The user's switch and slider.
SetShow == show' = ~ show /\ UNCHANGED <<now, span, track, nfft, late, texture>>
SetSpan(s) == s # span /\ span' = s /\ UNCHANGED <<now, show, track, nfft, late, texture>>

\* The slices in view, and of these the ones after lastTimeEnd, by their times.
View == {t \in track : now - Delay - span <= t /\ t <= now - Delay}
ToRender == SetToSortSeq({t \in View : t > lastTimeEnd}, <)
sliceCount == Len(ToRender)

\* The two chunks, on either side of the texture's end.
offset == xOffset % texWidth
sliceCount1 == IF offset + sliceCount > texWidth THEN texWidth - offset ELSE sliceCount
sliceCount2 == sliceCount - sliceCount1

\* data1 and data2: value k of slice ioff is at k * sliceCount + ioff, from the
\* chunk's first slice; glTexSubImage2D reads rows of the chunk's own length.
Element(first, count, x, k) ==
    LET p == k * count + x
        at == p \div sliceCount
        slice == p % sliceCount
    IN  IF slice < count /\ at < nfft[ToRender[first + slice + 1]]
        THEN <<ToRender[first + slice + 1], at>> ELSE Nothing

TexSubImage(x, k) ==
    IF x \in offset..(offset + sliceCount1 - 1) THEN Element(0, sliceCount1, x - offset, k)
    ELSE IF x < sliceCount2 THEN Element(sliceCount1, sliceCount2, x, k)
    ELSE tex[x][k]

\* The column of slice ioff in nffts and sampleRates.
Index(ioff) == IF ioff < sliceCount1 THEN offset + ioff ELSE ioff

\* Mutant of LastTime: the end of the view instead of the last slice in it.
LastTimeOfView == now - Delay

\* The time of the last slice sent
LastTime == Max(View)

drawSpectrogram ==
    /\ UNCHANGED fresh
    /\ lastTimeEnd' = LastTime
    /\ drawn' = View
    /\ xOffset' = xOffset + sliceCount
    /\ sent' = sent \o ToRender
    /\ IF sliceCount = 0 THEN UNCHANGED <<nffts, tex>>
       ELSE /\ nffts' = [x \in Columns |->
                LET is == {i \in 0..(sliceCount - 1) : Index(i) = x}
                IN  IF is = {} THEN nffts[x] ELSE nfft[ToRender[Max(is) + 1]]]
            /\ tex' = [x \in Columns |-> [k \in Rows |-> TexSubImage(x, k)]]

\* View::Spectrogram::render.
Render ==
    /\ track' = {t \in track : t >= now - KeepDuration}
    /\ IF show /\ View # {} THEN drawSpectrogram ELSE UNCHANGED texture
    /\ UNCHANGED <<now, span, show, nfft, late>>

\* CanvasRenderer::initialize, of a second renderer: the texture is empty, and
\* drawSpectrogram goes on where it was.
NewRenderer ==
    /\ fresh < Len(sent)
    /\ fresh' = Len(sent)
    /\ tex' = [x \in Columns |-> [k \in Rows |-> Nothing]]
    /\ UNCHANGED <<now, span, show, track, nfft, late, xOffset, lastTimeEnd, nffts, drawn, sent>>

Next ==
    \/ Tick
    \/ \E t \in 1..MaxTime, n \in Nffts : Insert(t, n)
    \/ SetShow
    \/ \E s \in Spans : SetSpan(s)
    \/ Render
    \/ NewRenderer

Spec == Init /\ [][Next]_vars

-----------------------------------------------------------------------------
(* What is on the screen.                                                  *)

Recent(j) == sent[Len(sent) - j + 1]
InTexture == 1..Min({texWidth, Len(sent) - fresh})
Column(j) == (xOffset - j) % texWidth

\* A slice is sent to the texture once, and in the order of the times, whatever
\* came late and whenever the spectrogram was hidden.
SentOnce == \A i, j \in DOMAIN sent : i < j => sent[i] < sent[j]

\* "Only render the slices that have not been rendered yet.": every slice of the
\* last frame has been sent, but for those that came behind one already sent.
\* These never are: lastTimeEnd has passed them.  (Neither are the older slices
\* that a longer time span brings into view: this holds for one span.)
DrawnSent == \A t \in drawn : (\E i \in DOMAIN sent : sent[i] = t) <=> t \notin late

\* The ring's columns before xOffset hold the last slices, newest last, as far as
\* this renderer has had them, also when a frame's slices go around the texture's end.
RingInOrder == \A j \in InTexture : tex[Column(j)][0] = <<Recent(j), 0>>

\* Unless one came behind, the slices in view are the last ones sent, so that the
\* columns drawn, so many before xOffset, are theirs.
ViewSent ==
    drawn \cap late = {} => drawn = {Recent(j) : j \in 1..Min({Cardinality(drawn), Len(sent)})}

\* "Split it into two chunks if it overlaps the texture width." (qpainterwrapper_static.cpp:100):
\* a column has the length and all the values of its slice.
ColumnsWhole ==
    \A j \in InTexture :
        /\ nffts[Column(j)] = nfft[Recent(j)]
        /\ \A k \in Rows : tex[Column(j)][k] = IF k < nfft[Recent(j)] THEN <<Recent(j), k>> ELSE Nothing
=============================================================================
