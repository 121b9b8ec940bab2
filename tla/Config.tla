------------------------------- MODULE Config -------------------------------
(***************************************************************************)
(* The settings (src/src/context/config.cpp): a TOML table read when the   *)
(* program starts and written when it ends, whose getters add what they do *)
(* not find and whose setters assign through a reference to what a getter  *)
(* has put there; and the four solvers that ContextManager makes from      *)
(* them.  A value is 0 for the default of its field, other numbers for     *)
(* other values.  The file may have been written by hand.                  *)
(*                                                                         *)
(* All steps are taken as atomic, as on one thread; that the render thread *)
(* and the main thread both use the table is not.                          *)
(***************************************************************************)
EXTENDS Integers, FiniteSets, Sequences

CONSTANTS
    Fields,         \* the fields followed, some of DOMAIN Schema
    Torch,          \* ENABLE_TORCH
    Formants,       \* the formants whose colour is asked for, from 0
    MaxStarts       \* bound: how often the program is started

Field(t, y) == [table |-> t, type |-> y]

SolverFields ==
    [audioBackend |-> Field("root", "integer"),
     pitchAlgorithm |-> Field("solvers", "integer"), linpredAlgorithm |-> Field("solvers", "integer"),
     formantAlgorithm |-> Field("solvers", "integer"), invglotAlgorithm |-> Field("solvers", "integer")]

ViewFields ==
    [viewZoom |-> Field("view", "float"), viewMinFrequency |-> Field("view", "integer"),
     viewMaxFrequency |-> Field("view", "integer"), viewFFTSize |-> Field("view", "integer"),
     viewMaxGain |-> Field("view", "integer"), viewTimeSpan |-> Field("view", "float"),
     viewFrequencyScale |-> Field("view", "integer"), viewFormantCount |-> Field("view", "integer")]

ShowFields ==
    [f \in {"viewShowSpectrogram", "viewShowPitch", "viewShowFormants"} |-> Field("view", "boolean")]

AnalysisNumbers ==
    [f \in {"analysisMaxFrequency", "analysisLpOffset", "analysisPitchSampleRate"} |-> Field("analysis", "integer")]

AnalysisTimes ==
    [f \in {"analysisGranularity", "analysisSpectrogramWindow", "analysisPitchWindow", "analysisFormantWindow",
            "analysisOscilloscopeWindow", "analysisPitchSpacing", "analysisFormantSpacing",
            "analysisOscilloscopeSpacing"} |-> Field("analysis", "float")]

Sections == {SolverFields, ViewFields, ShowFields, AnalysisNumbers, AnalysisTimes}
Schema(f) == (CHOOSE p \in Sections : f \in DOMAIN p)[f]

\* The fields without a setter.
ReadOnly == {"viewFormantCount"} \cup DOMAIN AnalysisNumbers

Solvers == {"pitchAlgorithm", "linpredAlgorithm", "formantAlgorithm", "invglotAlgorithm"}
Deep == 2       \* FormantAlgorithm::Deep
Unknown == 3    \* a number of no algorithm

\* What the constructor of ContextManager reads, with loadConfig().
ReadAtStart ==
    Solvers \cup {"audioBackend", "viewMinFrequency", "viewMaxFrequency", "viewFFTSize"}
            \cup DOMAIN AnalysisNumbers

Values(f) ==
    CASE f = "formantAlgorithm" -> {0, 1, Deep, Unknown}
      [] f \in Solvers \ {"formantAlgorithm"} -> {0, 1, Unknown}
      [] OTHER -> {0, 1}

\* The values the lists of the window offer.
Offered(f) == Values(f) \ ({Unknown} \cup IF Torch THEN {} ELSE {Deep})

Types == {"integer", "float", "boolean", "string"}
None == [type |-> "none", val |-> 0]
Nodes(f) == {None} \cup [type : Types, val : Values(f)]
Tables == {"root", "solvers", "view", "ui", "analysis"}
Entries == {"ownColour", "defaultColour", "otherArray", "scalar"}
NoColours == [is |-> "none", at |-> <<>>]
Colours ==
    [is : {"none", "notArray"}, at : {<<>>}]
    \cup [is : {"array"}, at : UNION {[1..n -> Entries] : n \in 0..Cardinality(Formants)}]

ConfigAssumption ==
    /\ \A f \in Fields : \E p \in Sections : f \in DOMAIN p
    /\ Torch \in BOOLEAN
    /\ Formants \subseteq Nat
    /\ MaxStarts \in Nat \ {0}

VARIABLES
    file,           \* the file, "absent", "torn" or "whole", and the table in it
    mTbl,           \* the fields' nodes
    colours,        \* view.formantColors: not there, not an array, or the array's entries
    phase,          \* the program: "off", "running", "saving", "refused"
    solver,         \* the algorithm each solver was made for
    got,            \* the fields a getter has been called for
    asked, depth,   \* the call of getViewFormantColor under way and its level
    edited,         \* fields that had another type in the file as it was read
    undefined,      \* fields whose setter had undefined behaviour
    may, saved,     \* the values a field may have: now, and when the file is read
    starts

vars == <<file, mTbl, colours, phase, solver, got, asked, depth, edited, undefined, may, saved, starts>>
history == <<may, saved, starts>>
call == <<asked, depth>>
disk == <<file, phase, starts, saved, edited>>

Idle == -1                      \* no call of getViewFormantColor

TypeOK ==
    /\ file.state \in {"absent", "torn", "whole"}
    /\ \A f \in Fields : mTbl[f] \in Nodes(f) /\ may[f] \subseteq Values(f) /\ saved[f] \subseteq Values(f)
    /\ colours.is \in {"none", "notArray", "array"} /\ \A j \in DOMAIN colours.at : colours.at[j] \in Entries
    /\ phase \in {"off", "running", "saving", "refused"}
    /\ \A s \in Solvers \cap Fields : solver[s] \in Values(s)
    /\ got \subseteq Fields /\ edited \subseteq Fields /\ undefined \subseteq Fields
    /\ asked \in Formants \cup {Idle} /\ depth \in Nat /\ starts \in 0..MaxStarts

\* The types that node::value<T>() converts to T.
Converted(type) ==
    CASE type = "integer" -> {"integer", "float", "boolean"}
      [] type = "float" -> {"float", "integer"}
      [] type = "boolean" -> {"boolean", "integer"}

\* valueField, valueCastField: the value read, and the table afterwards; insert()
\* leaves a key alone that is there.
Readable(tbl, f) == tbl[f].type \in Converted(Schema(f).type)
Value(tbl, f) == IF Readable(tbl, f) THEN tbl[f].val ELSE 0
Default(f) == [type |-> Schema(f).type, val |-> 0]
Get(tbl, f) == IF tbl[f] = None THEN [tbl EXCEPT ![f] = Default(f)] ELSE tbl

\* ref<T>() is defined only of a node of that very type.
Settable(tbl, f) == tbl[f].type = Schema(f).type

\* getFormantAlgorithm() of a build without torch sets Filtered, the default, for Deep.
Replaced(f, v) == f = "formantAlgorithm" /\ v = Deep /\ ~ Torch
Filtered(tbl, f) ==
    IF Replaced(f, Value(tbl, f)) /\ Settable(tbl, f) THEN [tbl EXCEPT ![f].val = 0] ELSE tbl
Result(tbl, f) == Value(Filtered(tbl, f), f)

\* makePitchSolver ... makeInvglotSolver: whether there is such an algorithm.
Makes(s, v) == v # Unknown /\ (v = Deep => Torch)

\* Mutant of initSubTable: the empty table is put there whatever the file has.
initSubTableAlways(f) == IF Schema(f).table = "root" THEN file.node[f] ELSE None

\* getConfigTable(): the nodes of the fields in the file's tables; initSubTable()
\* puts an empty table where a table is missing or something else.
initSubTable(f) == IF file.kind[Schema(f).table] = "table" THEN file.node[f] ELSE None
LoadedColours == IF file.kind["view"] = "table" THEN file.colours ELSE NoColours

\* A file written by hand: any kinds of tables, nodes and entries.
Absent ==
    [state |-> "absent", kind |-> [t \in Tables |-> "missing"], node |-> [f \in Fields |-> None], colours |-> NoColours]
Files ==
    [state : {"whole"},
     kind : {[t \in Tables |-> IF t = "view" THEN k ELSE "table"] : k \in {"table", "missing", "other"}},
     node : {n \in [Fields -> UNION {Nodes(f) : f \in Fields}] : \A f \in Fields : n[f] \in Nodes(f)},
     colours : Colours]

Init ==
    /\ file \in {Absent} \cup Files
    /\ mTbl = [f \in Fields |-> None] /\ colours = NoColours
    /\ phase = "off"
    /\ solver = [s \in Solvers \cap Fields |-> 0]
    /\ got = {} /\ asked = Idle /\ depth = 0 /\ edited = {} /\ undefined = {} /\ starts = 0
    /\ saved = [f \in Fields |-> {Value([g \in Fields |-> initSubTable(g)], f)}]
    /\ may = saved

\* The constructors of Config and ContextManager.  A file that does not parse,
\* and a solver that cannot be made, throw, and the program ends.
Start ==
    /\ phase = "off"
    /\ starts < MaxStarts
    /\ starts' = starts + 1
    /\ IF file.state = "torn"
       THEN phase' = "refused" /\ UNCHANGED <<mTbl, colours, solver, got, may, edited, undefined>>
       ELSE LET read == [f \in Fields |-> initSubTable(f)]
                atStart == Fields \cap ReadAtStart
                tbl == [f \in Fields |-> IF f \in atStart THEN Filtered(Get(read, f), f)[f] ELSE read[f]]
            IN  /\ mTbl' = tbl
                /\ colours' = LoadedColours
                /\ edited' = {f \in Fields : read[f].type \notin {"none", Schema(f).type}}
                /\ undefined' = {f \in atStart : Replaced(f, Value(read, f)) /\ ~ Settable(read, f)}
                /\ got' = atStart
                /\ may' = [f \in Fields |-> {IF Replaced(f, v) THEN 0 ELSE v : v \in saved[f]}]
                /\ solver' = [s \in DOMAIN solver |-> Value(tbl, s)]
                /\ phase' = IF \A s \in DOMAIN solver : Makes(s, Value(tbl, s)) THEN "running" ELSE "refused"
    /\ UNCHANGED <<file, asked, depth, saved>>

\* A getter, called for the first time by the window or by the render thread.
GetField(f) ==
    /\ phase = "running" /\ asked = Idle
    /\ f \notin got
    /\ got' = got \cup {f}
    /\ mTbl' = Get(mTbl, f)
    /\ UNCHANGED <<disk, call, colours, solver, undefined, may>>

\* The handlers of the algorithms' signals.
SolverAfter(f, v) == IF f \in DOMAIN solver THEN [solver EXCEPT ![f] = v] ELSE solver

\* A setter, called by a control that shows the field; the handler of the signal
\* makes another solver.  Through a reference of another type it writes some bits.
SetField(f, v) ==
    /\ phase = "running" /\ asked = Idle
    /\ f \in got \ ReadOnly
    /\ IF Settable(mTbl, f)
       THEN mTbl' = [mTbl EXCEPT ![f].val = v] /\ UNCHANGED undefined
       ELSE /\ \E w \in Values(f) : mTbl' = [mTbl EXCEPT ![f].val = w]
            /\ undefined' = undefined \cup {f}
    /\ may' = [may EXCEPT ![f] = {v}]
    /\ solver' = SolverAfter(f, v)
    /\ UNCHANGED <<disk, call, colours, got>>

\* getViewFormantColor(i) for the formants that are drawn.
AskColour(i) ==
    /\ phase = "running" /\ asked = Idle
    /\ asked' = i /\ depth' = 1
    /\ UNCHANGED <<disk, mTbl, colours, solver, got, undefined, may>>

\* Mutant of ResizedColours: a new array, for the colours it had too.
ResizedAfresh(i) == [j \in 1..(i + 1) |-> "defaultColour"]

\* array.resize(i + 1, the default colour of formant i), which also shortens.
ResizedColours(i) ==
    [j \in 1..(i + 1) |-> IF j <= Len(colours.at) THEN colours.at[j] ELSE "defaultColour"]

Scalar(i) == i < Len(colours.at) /\ colours.at[i + 1] = "scalar"
HasColour(i) == i < Len(colours.at) /\ ~ Scalar(i)

\* One level of the call: it returns the colour, cut or filled up to three numbers, ...
ColourFound ==
    /\ asked # Idle
    /\ HasColour(asked)
    /\ colours' = IF colours.at[asked + 1] = "otherArray"
                  THEN [colours EXCEPT !.at[asked + 1] = "ownColour"] ELSE colours
    /\ asked' = Idle /\ depth' = 0
    /\ UNCHANGED <<disk, mTbl, solver, got, undefined, may>>

\* ... or makes room for it and calls itself.
DefaultColours == [j \in 1..3 |-> "defaultColour"]
ColourMissing ==
    /\ asked # Idle
    /\ ~ HasColour(asked)
    /\ colours' = [is |-> "array", at |-> IF colours.is = "array" THEN ResizedColours(asked) ELSE DefaultColours]
    /\ depth' = IF depth > 3 THEN depth ELSE depth + 1
    /\ UNCHANGED <<disk, mTbl, solver, got, undefined, may, asked>>

\* ~Config opens the file, which empties it, ...
Save ==
    /\ phase = "running" /\ asked = Idle
    /\ phase' = "saving"
    /\ file' = [file EXCEPT !.state = "torn"]
    /\ UNCHANGED <<mTbl, colours, solver, got, call, edited, undefined, history>>

\* ... and writes the table.
Written(s) ==
    [state |-> "whole", kind |-> [t \in Tables |-> "table"],
     node |-> [f \in Fields |-> IF f \in s THEN mTbl[f] ELSE None], colours |-> colours]
SaveDone ==
    /\ phase = "saving"
    /\ file' = Written(Fields)
    /\ saved' = may
    /\ phase' = "off"
    /\ UNCHANGED <<mTbl, colours, solver, got, call, edited, undefined, may, starts>>

\* The process dies: while it writes, what it has written so far stays, and may
\* happen to be whole lines.
Crash ==
    /\ phase \in {"running", "saving"}
    /\ IF phase = "running" THEN UNCHANGED <<file, saved>>
       ELSE \E s \in SUBSET Fields :
              /\ file' \in {file, Written(s)}
              /\ saved' = [f \in Fields |-> IF f \in s THEN may[f] ELSE {0}]
    /\ phase' = "off"
    /\ asked' = Idle /\ depth' = 0
    /\ UNCHANGED <<mTbl, colours, solver, got, edited, undefined, may, starts>>

Next ==
    \/ Start
    \/ \E f \in Fields : GetField(f) \/ \E v \in Offered(f) : SetField(f, v)
    \/ \E i \in Formants : AskColour(i)
    \/ ColourFound \/ ColourMissing
    \/ Save \/ SaveDone
    \/ Crash

Spec == Init /\ [][Next]_vars /\ WF_vars(ColourFound \/ ColourMissing)

-----------------------------------------------------------------------------
(* What the settings promise.                                              *)

\* A setter reaches a node that is there and of its type, since a control that
\* sets a field has shown it first; only a field that somebody wrote into the
\* file with another type is beyond it.
SettersDefined == undefined \subseteq edited

\* What was set is what is read, also after an end and a start, and a crash gives
\* the value of the last start or, in the middle of saving, the default.
SettingsKept ==
    phase = "running" => \A f \in Fields \ edited : Result(mTbl, f) \in may[f]

\* The solver in use is the one of the algorithm that the settings name, and one
\* this build has.
SolverFollows ==
    phase = "running" => \A s \in DOMAIN solver \ undefined : solver[s] = Result(mTbl, s) /\ Makes(s, solver[s])

\* getViewFormantColor, which calls itself until it finds the colour, returns,
\* unless the file has something that is no array in the place of a colour.
ColourReturns ==
    \A i \in Formants :
        (asked = i /\ ~ Scalar(i)) ~> asked = Idle

\* Asking for a colour changes no other colour of the array.
ColoursKept ==
    [][asked # Idle /\ ~ Scalar(asked)
        => \A j \in DOMAIN colours.at \ {asked + 1} : j \in DOMAIN colours'.at /\ colours'.at[j] = colours.at[j]]_vars
=============================================================================
