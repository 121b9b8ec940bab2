-------------------------- MODULE CanvasResources --------------------------
(***************************************************************************)
(* The canvas's renderer (src/src/gui/canvas_renderer.cpp, font.cpp and    *)
(* canvas_item.cpp) and what it holds of OpenGL: three fonts with a        *)
(* texture for each glyph, made anew before every frame and whenever the   *)
(* zoom changes, programs with their arrays and buffers, and the           *)
(* spectrogram's texture.  A name is the smallest one that is free, as the *)
(* driver's are.  Zooms are in sixtieths.                                  *)
(***************************************************************************)
EXTENDS Integers, FiniteSets

CONSTANTS
    Chars,          \* the characters of the font
    Zooms,          \* the zooms of the settings
    MaxTextures     \* bound: of the textures' names, above what a renderer holds

CanvasAssumption == MaxTextures \in Nat /\ Zooms \subseteq Nat \ {0}

Kinds == {"normal", "small", "smaller"}
One == 60           \* a zoom of 1
Unset == 0          \* mZoomScaleText before it is assigned

VARIABLES
    phase,          \* the renderer: "none", "idle", "synchronized", "drawing"
    zoom,           \* getViewZoom()
    mZoomScale, mZoomScaleText,
    font,           \* the object each font pointer points to
    textures,       \* the names of textures in use
    mSpecTex,
    programs,       \* the programs, each with its array and buffer
    ftFailed,       \* FreeType could not be initialized, once
    misuse          \* "deleted": a font deleted twice; "used": a deleted font used

vars == <<phase, zoom, mZoomScale, mZoomScaleText, font, textures, mSpecTex, programs, ftFailed, misuse>>

Garbage == [state |-> "garbage", chars |-> {}, textures |-> {}, scale |-> Unset]

TypeOK ==
    /\ phase \in {"none", "idle", "synchronized", "drawing"}
    /\ zoom \in Zooms /\ mZoomScale \in Zooms \cup {One} /\ mZoomScaleText \in Nat
    /\ textures \subseteq 1..MaxTextures
    /\ \A k \in Kinds : font[k].state \in {"garbage", "live", "deleted"} /\ font[k].textures \subseteq 1..MaxTextures
    /\ misuse \subseteq {"deleted", "used"}

Init ==
    /\ phase = "none" /\ zoom \in Zooms
    /\ mZoomScale = One /\ mZoomScaleText = Unset
    /\ font = [k \in Kinds |-> Garbage]
    /\ textures = {} /\ mSpecTex = 0 /\ programs = {}
    /\ ftFailed = FALSE /\ misuse = {}

\* glGenTextures: the free names that come as number from + 1 ... from + n.
Gen(used, from, n) ==
    {x \in 1..(Cardinality(used) + from + n) \ used :
        Cardinality(1..x \ used) \in (from + 1)..(from + n)}

\* deleteFonts: ~Font deletes the textures of its characters.
Owned(fonts) == UNION {fonts[k].textures : k \in {j \in Kinds : fonts[j].state = "live"}}
Deleted(fonts) == [k \in Kinds |-> [Garbage EXCEPT !.state = "deleted"]]
TexturesAfter(fonts) == textures \ Owned(fonts)
DeleteMisuse(fonts) == IF \E k \in Kinds : fonts[k].state # "live" THEN {"deleted"} ELSE {}

\* initFonts: three new fonts with the glyphs that could be loaded, or nothing
\* when FreeType cannot be initialized.
NewFonts(loaded, used, scale) ==
    [k \in Kinds |->
        LET before == CASE k = "normal" -> {} [] k = "small" -> {"normal"} [] k = "smaller" -> {"normal", "small"}
            from == Cardinality({<<j, c>> \in before \X Chars : c \in loaded[j]})
        IN  [state |-> "live", chars |-> loaded[k], scale |-> scale,
             textures |-> Gen(used, from, Cardinality(loaded[k]))]]

\* Mutant of initFonts: the third font stays the one that was deleted.
initFontsTwo(fonts, used, scale) ==
    \E loaded \in [Kinds -> SUBSET Chars] :
        /\ font' = [NewFonts(loaded, used, scale) EXCEPT !["smaller"] = fonts["smaller"]]
        /\ textures' = used \cup Owned(font')
        /\ UNCHANGED ftFailed

initFonts(fonts, used, scale) ==
    \/ /\ font' = fonts /\ textures' = used
       /\ ftFailed' = TRUE
    \/ \E loaded \in [Kinds -> SUBSET Chars] :
         /\ font' = NewFonts(loaded, used, scale)
         /\ textures' = used \cup Owned(NewFonts(loaded, used, scale))
         /\ UNCHANGED ftFailed

\* The programs that deleteShaders knows of; it leaves the circles' out.
Programs == {"text", "spec", "circle"}
DeletedPrograms == {"text", "spec"}

\* createRenderer: the members of a new renderer hold anything until initialize()
\* sets them, which makes fonts of a size nobody has set.
initialize ==
    /\ phase = "none"
    /\ mZoomScale' = One
    /\ \E loaded \in [Kinds -> SUBSET Chars], fails \in BOOLEAN :
         LET fonts == NewFonts(loaded, textures, Unset)
             used == IF fails THEN textures ELSE textures \cup Owned(fonts)
             spec == CHOOSE x \in Gen(used, 0, 1) : TRUE
         IN  /\ font' = IF fails THEN [k \in Kinds |-> Garbage] ELSE fonts
             /\ ftFailed' = (ftFailed \/ fails)
             /\ mSpecTex' = spec
             /\ textures' = used \cup {spec}
    /\ programs' = programs \cup Programs
    /\ phase' = "idle"
    /\ mZoomScaleText' = Unset
    /\ UNCHANGED <<zoom, misuse>>

\* The scene graph synchronizes the renderer before a frame: everything that depends
\* on the window is taken anew, and the zoom goes back to 1.
ResetZoom == One
synchronize ==
    /\ phase = "idle"
    /\ mZoomScale' = ResetZoom /\ mZoomScaleText' = One
    /\ misuse' = misuse \cup DeleteMisuse(font)
    /\ initFonts(Deleted(font), TexturesAfter(font), One)
    /\ phase' = "synchronized"
    /\ UNCHANGED <<zoom, mSpecTex, programs>>

\* "Rescale max zoom from 0.5-5x to 0.75-2x for fonts."
TextZoom(z) == IF z > One THEN One + ((z - One) * 2) \div 5 ELSE One - ((One - z) * 2) \div 3

\* render() to the painter's setZoom(): setZoomScale.
SameZoom == mZoomScale = zoom
setZoomScale ==
    /\ phase = "synchronized"
    /\ IF SameZoom THEN UNCHANGED <<mZoomScale, mZoomScaleText, font, textures, ftFailed, misuse>>
       ELSE /\ mZoomScale' = zoom /\ mZoomScaleText' = TextZoom(zoom)
            /\ misuse' = misuse \cup DeleteMisuse(font)
            /\ initFonts(Deleted(font), TexturesAfter(font), TextZoom(zoom))
    /\ phase' = "drawing"
    /\ UNCHANGED <<zoom, mSpecTex, programs>>

\* drawText and textBounds: charFor() adds a character it does not find, with a
\* texture of name 0, which deleting leaves alone.
drawText(k, c) ==
    /\ phase = "drawing"
    /\ misuse' = misuse \cup IF font[k].state = "live" THEN {} ELSE {"used"}
    /\ font' = [font EXCEPT ![k].chars = @ \cup {c}]
    /\ UNCHANGED <<phase, zoom, mZoomScale, mZoomScaleText, textures, mSpecTex, programs, ftFailed>>

EndFrame ==
    /\ phase = "drawing"
    /\ phase' = "idle"
    /\ UNCHANGED <<zoom, mZoomScale, mZoomScaleText, font, textures, mSpecTex, programs, ftFailed, misuse>>

\* The settings' zoom changes while the window is up.
SetViewZoom(z) ==
    /\ zoom' = z
    /\ UNCHANGED <<phase, mZoomScale, mZoomScaleText, font, textures, mSpecTex, programs, ftFailed, misuse>>

\* ~CanvasInFboRenderer.
cleanup ==
    /\ phase = "idle"
    /\ misuse' = misuse \cup DeleteMisuse(font)
    /\ font' = Deleted(font)
    /\ textures' = TexturesAfter(font) \ {mSpecTex}
    /\ programs' = programs \ DeletedPrograms
    /\ mSpecTex' = 0
    /\ phase' = "none"
    /\ UNCHANGED <<zoom, mZoomScale, mZoomScaleText, ftFailed>>

Next ==
    \/ initialize \/ synchronize \/ setZoomScale
    \/ \E k \in Kinds, c \in Chars : drawText(k, c)
    \/ EndFrame
    \/ \E z \in Zooms \ {zoom} : SetViewZoom(z)
    \/ cleanup

Spec == Init /\ [][Next]_vars

-----------------------------------------------------------------------------
(* What the renderer holds.                                                *)

\* As long as FreeType could be initialized every time, no font is deleted twice
\* or used when deleted, over any number of frames and renderers.
FontsUsable == misuse # {} => ftFailed

\* Over any number of frames the textures in use are those of the three fonts and
\* the spectrogram's, and none without a renderer: making the fonts anew leaks none.
TexturesOwned ==
    ~ ftFailed => textures = (IF phase = "none" THEN {} ELSE Owned(font) \cup {mSpecTex})

\* Text is drawn with fonts made for the zoom that the frame uses, although every
\* frame begins with fonts for a zoom of 1.
ZoomFollows ==
    phase = "drawing" /\ ~ ftFailed => \A k \in Kinds : font[k].scale = TextZoom(mZoomScale)

\* "Rescale max zoom from 0.5-5x to 0.75-2x for fonts." (canvas_renderer.cpp:126)
TextZoomRange ==
    mZoomScaleText # Unset /\ mZoomScale \in 30..300 => mZoomScaleText \in 45..120
=============================================================================
