---------------------------- MODULE PluginTypes ----------------------------
(***************************************************************************)
(* The table of plugin types of the core (plugins.js) and the files it is  *)
(* made from: filled at its first use, in the order of the directory, up   *)
(* to the first file that does not load; extended by uploads and by a      *)
(* refresh; lost with the process, which needs it to start again if there  *)
(* are plugins.                                                            *)
(*                                                                         *)
(* The graph is that of CoreManager; here a plugin is its type, saved as   *)
(* soon as it runs.                                                        *)
(*                                                                         *)
(* A definition introduced as a slip is a wrong variant of the next one.   *)
(***************************************************************************)
EXTENDS Naturals

CONSTANTS
  Types,     \* the names of types, each the place of its file in the directory
  Contents,  \* what a file that loads may hold
  Absent,    \* no file; no type
  Cut,       \* of a file: it cannot be parsed
  Wrong,     \* of a file: it is parsed, but its init throws
  MaxWrites  \* bound on the files written and the crashes

ASSUME PluginTypesAssumption ==
  /\ Types \subseteq Nat
  /\ {Absent, Cut, Wrong} \cap Contents = {}
  /\ Absent \notin {Cut, Wrong} /\ Cut # Wrong
  /\ MaxWrites \in Nat

VARIABLES
  up,        \* the core runs
  file,      \* the directory of plugins
  made,      \* the table exists
  table,     \* what is loaded of each type
  stuck,     \* the types whose module is loaded, and wrong: it is not read again
  plugins,   \* the types of the plugins of the graph
  deployed,  \* observed only: a file was put there by hand and no refresh followed
  writes

pvars == <<up, file, made, table, stuck, plugins, deployed, writes>>

Broken == {Cut, Wrong}

Empty == [n \in Types |-> Absent]

PTypeOK ==
  /\ up \in BOOLEAN
  /\ file \in [Types -> Contents \cup Broken \cup {Absent}]
  /\ made \in BOOLEAN
  /\ table \in [Types -> Contents \cup {Absent}]
  /\ stuck \subseteq Types
  /\ plugins \subseteq Types
  /\ deployed \in BOOLEAN
  /\ writes \in 0 .. MaxWrites

PInit ==
  /\ up = TRUE
  /\ file \in [Types -> Contents \cup {Absent}]
  /\ made = FALSE /\ table = Empty /\ stuck = {}
  /\ plugins = {}
  /\ deployed = FALSE
  /\ writes = 0

Write == writes < MaxWrites /\ writes' = writes + 1

-----------------------------------------------------------------------------
(* The table                                                               *)

\* The files that stop a refresh: names in the table are passed over, and a module that
\* node has loaded is not loaded again.
Stopping(f, t) ==
  {n \in Types : t[n] = Absent /\ f[n] # Absent /\ (f[n] \in Broken \/ n \in stuck)}

\* refreshPluginTypes: the table, filled as far as the first file that stops it.
Refreshed(f, t) ==
  [n \in Types |->
     IF t[n] = Absent /\ \A b \in Stopping(f, t) : n < b THEN f[n] ELSE t[n]]

\* The module of the file that stops it, if it was parsed.
StuckBy(f, t) ==
  stuck \cup {n \in Stopping(f, t) : f[n] = Wrong /\ \A b \in Stopping(f, t) : n <= b}

\* A slip: the table is made anew at each use.
CheckedAnew == Refreshed(file, Empty)

\* checkPluginTypes: the table at its next use, and if that use fails.
Checked == IF made THEN table ELSE Refreshed(file, Empty)

CheckFails == ~made /\ Stopping(file, Empty) # {}

\* The first use makes the table, whatever comes of it.
Use ==
  /\ up /\ made' = TRUE
  /\ table' = Checked
  /\ stuck' = IF made THEN stuck ELSE StuckBy(file, Empty)

\* GET pluginTypes.
GetTypes == Use /\ UNCHANGED <<up, file, plugins, deployed, writes>>

\* GET pluginTypes/refresh, which does not make the table.
RefreshTypes ==
  /\ up /\ made
  /\ table' = Refreshed(file, table)
  /\ stuck' = StuckBy(file, table)
  /\ deployed' = FALSE
  /\ UNCHANGED <<up, file, made, plugins, writes>>

-----------------------------------------------------------------------------
(* An upload: POST pluginTypes                                             *)

\* A use that fails or is refused.
Register500(n) ==
  /\ Use
  /\ CheckFails \/ Checked[n] # Absent
  /\ UNCHANGED <<up, file, plugins, deployed, writes>>

\* A slip: the name is not looked up.
MayRegisterAny(n) == ~CheckFails

MayRegister(n) == ~CheckFails /\ Checked[n] = Absent

\* A slip: the table is refreshed by the check only, when it is made.
RegisterUnread(n, c) ==
  /\ up /\ MayRegister(n) /\ Write
  /\ file' = [file EXCEPT ![n] = c]
  /\ made' = TRUE /\ table' = Checked /\ stuck' = stuck
  /\ deployed' = FALSE
  /\ UNCHANGED <<up, plugins>>

\* register: the file is written, whatever it holds, and the table refreshed.
Register(n, c) ==
  /\ up /\ MayRegister(n) /\ Write
  /\ file' = [file EXCEPT ![n] = c]
  /\ made' = TRUE
  /\ table' = Refreshed(file', Checked) /\ stuck' = StuckBy(file', Checked)
  /\ deployed' = FALSE
  /\ UNCHANGED <<up, plugins>>

\* The file cannot be written in whole: what is left may be empty, which can be parsed.
RegisterFails(n) ==
  /\ Use /\ MayRegister(n) /\ Write
  /\ \E c \in Broken \cup {file[n]} : file' = [file EXCEPT ![n] = c]
  /\ UNCHANGED <<up, plugins, deployed>>

Down == up' = FALSE /\ made' = FALSE /\ table' = Empty /\ stuck' = {}

\* The process ends...
Crash == up /\ Write /\ Down /\ UNCHANGED <<file, plugins, deployed>>

\* ...while it writes the file.
RegisterCrash(n, c) ==
  /\ up /\ MayRegister(n) /\ Write
  /\ file' = [file EXCEPT ![n] = c]
  /\ Down
  /\ UNCHANGED <<plugins, deployed>>

-----------------------------------------------------------------------------
(* The plugins and the process                                             *)

\* create.  A type that is not in the table has no class: an exception.
AddPlugin(n) ==
  /\ Use
  /\ plugins' = IF CheckFails \/ Checked[n] = Absent THEN plugins ELSE plugins \cup {n}
  /\ UNCHANGED <<up, file, deployed, writes>>

\* destroy, of a plugin without links.
RemovePlugin(n) ==
  /\ up /\ n \in plugins
  /\ plugins' = plugins \ {n}
  /\ UNCHANGED <<up, file, made, table, stuck, deployed, writes>>

\* initialize: what it throws ends the process.
Boots == plugins # {} => ~CheckFails /\ \A n \in plugins : Checked[n] # Absent

Boot ==
  /\ ~up /\ Boots
  /\ up' = TRUE
  /\ made' = (plugins # {})
  /\ table' = IF plugins # {} THEN Checked ELSE Empty
  /\ deployed' = FALSE
  /\ UNCHANGED <<file, stuck, plugins, writes>>

\* A file put in the directory by hand, in the place of none or of one that does not load.
Deploy(n, c) ==
  /\ file[n] \notin Contents /\ Write
  /\ file' = [file EXCEPT ![n] = c]
  /\ deployed' = TRUE
  /\ UNCHANGED <<up, made, table, stuck, plugins>>

PNext ==
  \/ GetTypes \/ RefreshTypes \/ Crash \/ Boot
  \/ \E n \in Types :
       \/ Register500(n) \/ RegisterFails(n)
       \/ AddPlugin(n) \/ RemovePlugin(n)
       \/ \E c \in Contents \cup Broken : Register(n, c) \/ RegisterCrash(n, c)
       \/ \E c \in Contents : Deploy(n, c)

PSpec == PInit /\ [][PNext]_pvars

-----------------------------------------------------------------------------
(* Properties                                                              *)

\* A plugin keeps the type it runs over a restart: its file holds what is loaded, whatever
\* is uploaded, cut short, put there by hand or missing from the table.
RestartKeepsTypes ==
  \A n \in plugins :
    /\ file[n] \in Contents
    /\ up => made /\ table[n] = file[n]

\* Once every file loads, a table that is in use holds them all, though its first use or
\* an upload failed half way: of files put there by hand, after a refresh; of a module
\* whose init threw, after a restart.
Complete ==
  up /\ made /\ ~deployed /\ stuck = {} /\ (\A n \in Types : file[n] \notin Broken) =>
    table = file
=============================================================================
