------------------------------ MODULE CfgPath ------------------------------
(***************************************************************************)
(* Where the settings are kept (src/src/context/cfgpath.h): four functions *)
(* that put a path into the caller's array and make folders on the way.    *)
(* A path is the sequence of its names; beside it goes its length in       *)
(* characters, for the array's end.  The array is not initialized: what    *)
(* mkdir() reads in it goes on to the first zero.                          *)
(***************************************************************************)
EXTENDS Integers, Sequences, SequencesExt

CONSTANTS
    Platforms,      \* a subset of {"linux", "windows", "apple"}
    BaseLengths,    \* lengths of the folder that the environment or the system names
    MAX_PATH,       \* length of the caller's array
    MaxCalls        \* bound: calls

CfgPathAssumption ==
    /\ Platforms \subseteq {"linux", "windows", "apple"}
    /\ MAX_PATH \in Nat \ {0} /\ BaseLengths \subseteq Nat
    /\ MaxCalls \in Nat \ {0}

FunctionNames == {"config_file", "config_folder", "data_folder", "cache_folder"}

VARIABLES
    platform,
    named,          \* the folder that XDG_..._HOME names: "unset", "there", "missing"
    home,           \* the same of HOME; of AppData or Application Support elsewhere
    baseLength,     \* its length
    garbage,        \* what the array held where the path ends: no name, or one
    dirs,           \* the folders that exist
    out,            \* the path returned, <<>> for the empty string
    last,           \* the greatest index written, -1 for none
    called,         \* the function called last, "none", or "table" for getConfigTable
    calls

vars == <<platform, named, home, baseLength, garbage, dirs, out, last, called, calls>>
environment == <<platform, named, home, baseLength, garbage>>

\* What the function looks for below the home folder, and its length with slashes.
Below == [config_file |-> <<".config">>, config_folder |-> <<".config">>,
          data_folder |-> <<".local", "share">>, cache_folder |-> <<".cache">>]
BelowLength == [config_file |-> 8, config_folder |-> 8, data_folder |-> 13, cache_folder |-> 7]
AppLength == 9      \* "informant"
ExtLength == 5      \* ".conf"; ".ini" is shorter by one

\* getenv(): the environment's folder, of the first variable that is set.
XdgUsed == platform = "linux" /\ named # "unset"
Found == XdgUsed \/ home # "unset"
Base == IF XdgUsed THEN <<"xdg">> ELSE <<"home">>
ConfigLength(fn) == IF platform = "linux" /\ ~ XdgUsed THEN BelowLength[fn] ELSE 0
Under(fn) == IF platform = "linux" /\ ~ XdgUsed THEN Below[fn] ELSE <<>>

\* The characters after the base, its slash and the folder below it: those of the
\* name and of the extension or of the trailing slash.
TailLength(fn) ==
    AppLength + (IF fn = "config_file" THEN (IF platform = "windows" THEN ExtLength - 1 ELSE ExtLength) ELSE 1)

\* "first +1 is "/", second is terminating null"
Needed(fn) == baseLength + 1 + ConfigLength(fn) + TailLength(fn) + 1
TooLong(fn) == Needed(fn) > MAX_PATH

\* mkdir() makes one folder, in one that exists.
Mkdir(ds, path) == IF Front(path) \in ds THEN ds \cup {path} ELSE ds

\* mkdir() of the array: on to the first zero when nothing has ended the string.
Ended(path) == path
NotEnded(path) == path \o garbage

Folder(fn) == Base \o Under(fn) \o <<"informant">>

\* The part of each function that makes folders.
FolderBelow(fn, path) == IF Under(fn) = <<>> THEN dirs ELSE Mkdir(dirs, path)
FileFolders == FolderBelow("config_file", NotEnded(Base \o Under("config_file")))

\* Mutant of FolderFolders: neither path is ended before the call.
FolderFoldersUnended(fn) == Mkdir(FolderBelow(fn, NotEnded(Base \o Under(fn))), Folder(fn))

FolderFolders(fn) == Mkdir(FolderBelow(fn, Ended(Base \o Under(fn))), Ended(Folder(fn)))

\* getenv() returns a string of any length; SHGetFolderPath() and strncpy() end it
\* inside an array of MAX_PATH.
Init ==
    /\ platform \in Platforms
    /\ named \in {"unset", "there", "missing"}
    /\ home \in {"unset", "there"}
    /\ baseLength \in BaseLengths
    /\ platform # "linux" => baseLength < MAX_PATH
    /\ garbage \in {<<>>, <<"junk">>}
    /\ \E made \in SUBSET {<<"home", ".config">>, <<"home", ".local">>, <<"home", ".cache">>} :
         dirs = {<<"home">>} \cup made \cup IF named = "there" THEN {<<"xdg">>} ELSE {}
    /\ out = <<>> /\ last = -1 /\ called = "none" /\ calls = 0

\* out[0] = 0.  On Windows the base is in the caller's array by then.
Failed(fn) ==
    /\ ~ Found \/ TooLong(fn)
    /\ out' = <<>>
    /\ last' = IF platform = "windows" /\ Found THEN baseLength ELSE 0
    /\ UNCHANGED dirs

get_user_config_file ==
    \/ Failed("config_file")
    \/ /\ Found /\ ~ TooLong("config_file")
       /\ dirs' = FileFolders
       /\ out' = Base \o Under("config_file") \o <<"informant.conf">>
       /\ last' = baseLength + 1 + ConfigLength("config_file") + TailLength("config_file")

\* The same but for the folders made and the end.
FolderPath(fn) ==
    \/ Failed(fn)
    \/ /\ Found /\ ~ TooLong(fn)
       /\ dirs' = FolderFolders(fn)
       /\ out' = Folder(fn)
       /\ last' = baseLength + 1 + ConfigLength(fn) + TailLength(fn)

get_user_config_folder == FolderPath("config_folder")

\* Elsewhere than on Linux the data folder is the config folder.
get_user_data_folder == FolderPath(IF platform = "linux" THEN "data_folder" ELSE "config_folder")

\* On Windows it is below another base, on a Mac it is the config folder.
get_user_cache_folder == FolderPath(IF platform = "apple" THEN "config_folder" ELSE "cache_folder")

Call(fn) ==
    /\ calls < MaxCalls
    /\ calls' = calls + 1
    /\ called' = fn
    /\ \/ fn = "config_file" /\ get_user_config_file
       \/ fn = "config_folder" /\ get_user_config_folder
       \/ fn = "data_folder" /\ get_user_data_folder
       \/ fn = "cache_folder" /\ get_user_cache_folder
    /\ UNCHANGED environment

\* getConfigTable(), of the path it has got: create_directories(path.parent_path()).
CreateDirectories(path) == dirs \cup {SubSeq(path, 1, k) : k \in 1..(Len(path) - 1)}
getConfigTable ==
    /\ called = "config_file" /\ out # <<>>
    /\ dirs' = CreateDirectories(out)
    /\ called' = "table"
    /\ UNCHANGED <<environment, out, last, calls>>

Next == getConfigTable \/ \E fn \in FunctionNames : Call(fn)

Spec == Init /\ [][Next]_vars

-----------------------------------------------------------------------------
(* What the functions promise.                                             *)

\* A path is written with its terminating null inside the caller's array, or not
\* at all, whatever folders the environment names.
FitsArray == last < MAX_PATH

\* When the base folder exists, the folder that the config or cache function
\* returns exists, whatever the array held before.
FolderReady ==
    called \in {"config_folder", "cache_folder"} /\ out # <<>> /\ Base \in dirs => out \in dirs

\* Once getConfigTable has read the file, the folder to save it in exists.
TableFolderReady == called = "table" => Front(out) \in dirs

\* "@post The folder holding the file is created if needed." (cfgpath.h:125), of
\* get_user_config_file and a home folder that exists.
FileFolderCreated == called = "config_file" /\ out # <<>> /\ Base \in dirs => Front(out) \in dirs

\* "@post The folder is created if needed." (cfgpath.h:371), of get_user_data_folder
\* and a home folder that exists.
DataFolderCreated == called = "data_folder" /\ out # <<>> /\ Base \in dirs => out \in dirs
=============================================================================
