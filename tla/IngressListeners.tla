-------------------------- MODULE IngressListeners --------------------------
(***************************************************************************)
(* The routing table of ingress (GondolinListeners and the hooks of the    *)
(* /etc/gondolin mount in host/src/ingress.ts): the file                   *)
(* /etc/gondolin/listeners, which the guest edits through the VFS and the  *)
(* host rewrites in canonical form, and the host's copy of its routes.     *)
(*                                                                         *)
(* A file is a sequence of cells, one per line: the line of a route, a bad *)
(* line, an empty line or the NUL padding a write behind the end leaves.   *)
(* The directory and its files are MemoryProvider's: handles of one file   *)
(* share its content.                                                      *)
(***************************************************************************)
EXTENDS Integers, Sequences, FiniteSets, Filtering

CONSTANTS
    Routes,     \* the routes a line can state
    BadLine,    \* a line parseListenersFile refuses
    EmptyLine,  \* an empty line
    NulCell,    \* the padding of a hole
    MaxCells,   \* MAX_LISTENERS_FILE_BYTES, in cells
    MaxFile,    \* bound on the length of any other file
    FileNumbers, \* bound on the files at a time
    Plans       \* the configurations: does the guest link files, in which names
                \* does it work, which tables does the host set

ASSUME ListenersAssumption ==
    /\ MaxCells \in Nat \ {0} /\ MaxFile \in Nat /\ MaxFile >= MaxCells
    /\ {BadLine, EmptyLine, NulCell} \cap Routes = {}
    /\ BadLine \notin {EmptyLine, NulCell} /\ EmptyLine # NulCell
    /\ FileNumbers \subseteq Nat \ {0} /\ 1 \in FileNumbers
    /\ \A s \in Plans : s.links \in BOOLEAN /\ s.tables \subseteq Seq(Routes)

VARIABLES
    plan,       \* the configuration of this behaviour
    dir,        \* the names of /etc/gondolin and their files
    data,       \* the content of each file
    opened,     \* the guest's open handle, under the path it was opened with
    listeners,  \* GondolinListeners: routes, reloadTimer, lastReloadError
    unseen      \* history: the file differs from the last table by a change that
                \* came neither under its name nor from a table that fits it

listenersVars == <<plan, dir, data, opened, listeners, unseen>>

Names == {"listeners", "tmp"}
NoPath == "none"
Closed == [path |-> NoPath, ino |-> 0, offset |-> 0]

-----------------------------------------------------------------------------
(* Parsing and serializing. *)

\* The routes of a text (one sequence, as the set of it): padding and empty
\* lines say nothing.
Parse(text) == Filtered(text, {i \in DOMAIN text : text[i] \in Routes})
Parses(text) == \A i \in DOMAIN text : text[i] # BadLine

\* The canonical text of a table; the empty table is one empty line.
Serialize(routes) == IF routes = <<>> THEN <<EmptyLine>> ELSE routes

Exists(name) == dir[name] # 0
Text == IF Exists("listeners") THEN data[dir["listeners"]] ELSE <<>>

\* A file that no name and no handle holds is gone, and its number free.
InUse(i) == opened.ino = i \/ \E n \in Names : dir[n] = i
FreeFiles == {i \in FileNumbers : ~InUse(i)}
NewFile == CHOOSE i \in FreeFiles : TRUE
Collect == data' = [i \in FileNumbers |-> IF InUse(i)' THEN data[i] ELSE <<>>]

\* writeListenersText: open for writing, which creates or empties the file,
\* and write the whole text.  It refuses a text above the limit.
Fits(text) == Len(text) <= MaxCells
WriteListenersText(text) ==
    LET ino == IF Exists("listeners") THEN dir["listeners"] ELSE NewFile IN
        /\ Exists("listeners") \/ FreeFiles # {}
        /\ dir' = [dir EXCEPT !["listeners"] = ino]
        /\ data' = [data EXCEPT ![ino] = text]

Untouched == UNCHANGED <<dir, data>>

\* createGondolinEtcMount: the file exists and is canonical and empty.
ListenersInit ==
    /\ plan \in Plans
    /\ dir = [n \in Names |-> IF n = "listeners" THEN 1 ELSE 0]
    /\ data = [i \in FileNumbers |-> IF i = 1 THEN Serialize(<<>>) ELSE <<>>]
    /\ opened = Closed
    /\ listeners = [routes |-> <<>>, timer |-> FALSE, failed |-> FALSE]
    /\ unseen = FALSE

-----------------------------------------------------------------------------
(* The guest's file operations, as FUSE requests reach the mount's hooks. *)

\* a bug: renames do not reload
AfterNoRename(op, paths) ==
    listeners' = [listeners EXCEPT !.timer = @ \/ (op \in {"truncate", "unlink", "release"} /\ "listeners" \in paths)]

\* createGondolinEtcHooks.after: these operations on the path of the file
\* schedule a reload, unless one is scheduled.
ReloadOps == {"truncate", "rename", "unlink", "release"}
After(op, paths) ==
    listeners' = [listeners EXCEPT !.timer = @ \/ (op \in ReloadOps /\ "listeners" \in paths)]

\* A step that changes the file by way of paths that do not name it.
Watch(paths) == unseen' = (unseen \/ (Text' # Text /\ "listeners" \notin paths))

\* createGondolinEtcHooks.before: growth above the limit is refused, where the
\* operation comes by the path of the file.
Before(path, length) == path = "listeners" => length <= MaxCells

Open(name, truncates) ==
    /\ opened = Closed
    /\ Exists(name) \/ FreeFiles # {}
    /\ LET ino == IF Exists(name) THEN dir[name] ELSE NewFile IN
        /\ dir' = [dir EXCEPT ![name] = ino]
        /\ data' = IF truncates \/ ~Exists(name) THEN [data EXCEPT ![ino] = <<>>] ELSE data
        /\ opened' = [path |-> name, ino |-> ino, offset |-> 0]
    /\ UNCHANGED <<plan, listeners>>
    /\ Watch({name})

\* A write at an offset the file does not reach pads the hole.
Padded(text, length) == text \o [i \in 1 .. length - Len(text) |-> NulCell]
Write(cell) ==
    LET at == opened.offset + 1 IN
        /\ opened # Closed /\ at <= MaxFile
        /\ Before(opened.path, at)
        /\ data' = [data EXCEPT ![opened.ino] = [Padded(@, at) EXCEPT ![at] = cell]]
        /\ opened' = [opened EXCEPT !.offset = at]
        /\ UNCHANGED <<plan, dir, listeners>>
        /\ Watch({opened.path})

Truncate(name) ==
    /\ Exists(name)
    /\ data' = [data EXCEPT ![dir[name]] = <<>>]
    /\ After("truncate", {name})
    /\ UNCHANGED <<plan, dir, opened>>
    /\ Watch({name})

Release ==
    /\ opened # Closed
    /\ opened' = Closed
    /\ After("release", {opened.path})
    /\ UNCHANGED <<plan, dir, unseen>>
    /\ Collect

\* The handle keeps its file and the path it was opened with.
Rename(old, new) ==
    /\ old # new /\ Exists(old)
    /\ dir' = [dir EXCEPT ![new] = dir[old], ![old] = 0]
    /\ After("rename", {old, new})
    /\ UNCHANGED <<plan, opened, unseen>>
    /\ Collect

Unlink(name) ==
    /\ Exists(name)
    /\ dir' = [dir EXCEPT ![name] = 0]
    /\ After("unlink", {name})
    /\ UNCHANGED <<plan, opened, unseen>>
    /\ Collect

Link(old, new) ==
    /\ plan.links
    /\ Exists(old) /\ ~Exists(new)
    /\ dir' = [dir EXCEPT ![new] = dir[old]]
    /\ After("link", {old, new})
    /\ UNCHANGED <<plan, data, opened>>
    /\ Watch({})

-----------------------------------------------------------------------------
(* The host. *)

\* setRoutes: the table first, then the file.
SetRoutes(routes) ==
    /\ IF Fits(Serialize(routes)) THEN WriteListenersText(Serialize(routes)) ELSE Untouched
    /\ listeners' = [listeners EXCEPT !.routes = routes, !.failed = FALSE]
    /\ unseen' = ~Fits(Serialize(routes))
    /\ UNCHANGED <<plan, opened>>

\* The timer of notifyDirty: reloadNow, with the old table kept on an error.
Reload ==
    /\ listeners.timer
    /\ IF Fits(Text) /\ Parses(Text)
       THEN \E routes \in Parse(Text) :
            /\ listeners' = [routes |-> routes, timer |-> FALSE, failed |-> FALSE]
            /\ IF Serialize(routes) # Text THEN WriteListenersText(Serialize(routes)) ELSE Untouched
       ELSE /\ listeners' = [listeners EXCEPT !.timer = FALSE, !.failed = TRUE]
            /\ Untouched
    /\ unseen' = FALSE
    /\ UNCHANGED <<plan, opened>>

ListenersNext ==
    \/ \E n \in Names, t \in BOOLEAN : Open(n, t)
    \/ \E c \in Routes \cup {BadLine} : Write(c)
    \/ \E n \in Names : Truncate(n) \/ Unlink(n)
    \/ \E m, n \in Names : Rename(m, n) \/ Link(m, n)
    \/ Release
    \/ \E routes \in plan.tables : SetRoutes(routes)
    \/ Reload

ListenersSpec == ListenersInit /\ [][ListenersNext]_listenersVars

-----------------------------------------------------------------------------
(* Properties *)

Quiet == ~listeners.timer /\ opened.path # "listeners"
RoutesAreTheFile == Parses(Text) /\ listeners.routes \in Parse(Text)

\* With no reload scheduled and no handle open under the file's name, the host
\* routes by what the file says or knows that it could not read it, whatever
\* order writes, renames, reloads and setRoutes came in, as long as the file
\* changed under its own name.
RoutesFollowTheFile == Quiet /\ ~unseen => listeners.failed \/ RoutesAreTheFile
=============================================================================
