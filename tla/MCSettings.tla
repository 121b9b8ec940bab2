------------------------------ MODULE MCSettings ------------------------------
(* The settings for TLC, one part in each behaviour: a solver and a duration     *)
(* over two starts of the program, the colours of the formants over one, and     *)
(* the path of the file, with base folders on both sides of what the array holds *)
(* and longer than the array.                                                    *)
EXTENDS Integers

CONSTANTS
    Parts,                              \* the parts to run
    SomeFields, Torch, MaxStarts,       \* of the settings, see Config
    SomeFormants,                       \* of the colours
    BaseLengths, MAX_PATH, MaxCalls     \* of the path, see CfgPath

VARIABLES
    part,                                                       \* the one that runs
    file, mTbl, colours, phase, solver, got, asked, depth, edited, undefined, may, saved, starts,
                                                                \* see Config
    platform, named, home, baseLength, garbage, dirs, out, last, called, calls
                                                                \* see CfgPath

configVars == <<file, mTbl, colours, phase, solver, got, asked, depth, edited, undefined, may, saved, starts>>
pathVars == <<platform, named, home, baseLength, garbage, dirs, out, last, called, calls>>
vars == <<part, configVars, pathVars>>

Settings == INSTANCE Config WITH Fields <- SomeFields, Formants <- {}
FormantColours == INSTANCE Config WITH
    Fields <- {"viewFormantCount"}, Formants <- SomeFormants, MaxStarts <- 1
Path == INSTANCE CfgPath WITH Platforms <- {"linux", "windows", "apple"}

ASSUME SettingsAssumption ==
    Settings!ConfigAssumption /\ FormantColours!ConfigAssumption /\ Path!CfgPathAssumption
------------------------------------------------------------------------------
NoConfig ==
    /\ file = 0 /\ mTbl = 0 /\ colours = 0 /\ phase = 0 /\ solver = 0 /\ got = 0
    /\ asked = FormantColours!Idle
    /\ depth = 0 /\ edited = 0 /\ undefined = 0 /\ may = 0 /\ saved = 0 /\ starts = 0
NoPath ==
    /\ platform = 0 /\ named = 0 /\ home = 0 /\ baseLength = 0 /\ garbage = 0 /\ dirs = {}
    /\ out = 0 /\ last = 0 /\ called = 0 /\ calls = 0

Init ==
    /\ part \in Parts
    /\ \/ part = "settings" /\ Settings!Init /\ NoPath
       \/ part = "colours" /\ FormantColours!Init /\ NoPath
       \/ part = "path" /\ Path!Init /\ NoConfig

Next ==
    \/ part = "settings" /\ Settings!Next /\ UNCHANGED <<part, pathVars>>
    \/ part = "colours" /\ FormantColours!Next /\ UNCHANGED <<part, pathVars>>
    \/ part = "path" /\ Path!Next /\ UNCHANGED <<part, configVars>>

\* Inside getViewFormantColor the program goes on.
ColourStep ==
    /\ part = "colours"
    /\ FormantColours!ColourFound \/ FormantColours!ColourMissing
    /\ UNCHANGED <<part, pathVars>>

Spec == Init /\ [][Next]_vars /\ WF_vars(ColourStep)
------------------------------------------------------------------------------
(* What the settings promise: the properties of each module, named there.       *)

\* A setter finds its node, a solver is the one the settings name, and what was
\* set is there after a restart; after a crash, what the last start had or, when
\* it cut a save short, the default.
SettingsCorrect ==
    part = "settings" => Settings!TypeOK /\ Settings!SettersDefined /\ Settings!SolverFollows /\ Settings!SettingsKept

\* A colour asked for is returned, however many the file has, and the others stay.
ColoursCorrect == FormantColours!ColourReturns /\ FormantColours!ColoursKept

\* A path fits the caller's array with its null, and the folders it names are there.
PathCorrect ==
    part = "path" => Path!FitsArray /\ Path!FolderReady /\ Path!TableFolderReady
==============================================================================
