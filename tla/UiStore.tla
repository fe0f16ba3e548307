------------------------------ MODULE UiStore ------------------------------
(***************************************************************************)
(* The structure of the ui: kept by the core beside its graph (data.js),   *)
(* saved whole by browsers through the designer's server (uiManager.js),   *)
(* and served to the screens by the ui's server, which completes it with   *)
(* the plugins and types of the core (structure.js).                       *)
(*                                                                         *)
(* Both servers pass on what the core answers without looking at its       *)
(* status: a 500 to a save is told as a success; a 500 to a GET is not     *)
(* JSON, which ends the server.                                            *)
(*                                                                         *)
(* A structure is abstracted to the components it displays, each the only  *)
(* plugin of its type.                                                     *)
(*                                                                         *)
(* A definition introduced as a slip is a wrong variant of the next one.   *)
(***************************************************************************)
EXTENDS PluginTypes

CONSTANT Structures  \* the structures that are drawn

ASSUME StructuresAssumption ==
  /\ Structures \subseteq SUBSET Types
  /\ {Absent, Cut} \cap Structures = {}

VARIABLES
  uiFile,  \* ui.json: a structure, or Cut
  uiMem,   \* the core's copy, or Absent
  alive,   \* the servers that run
  page,    \* what the ui's server has read of the core for a screen
  held,    \* observed only: what was last told saved, or Absent
  failed   \* observed only: the last save told so was not written

store == <<uiFile, uiMem, held, failed>>
svars == <<pvars, store, alive, page>>

Servers == {"designer", "ui"}
Parts == {"ui", "plugins", "types"}

\* began and whole are observed only: the plugins when it was asked, and no restart since.
NoPage ==
  [unread |-> Parts, ui |-> {}, plugins |-> {}, types |-> {}, began |-> {}, whole |-> FALSE]

SInit ==
  /\ PInit
  /\ uiFile \in Structures /\ uiMem = Absent
  /\ alive = Servers
  /\ page = NoPage
  /\ held = Absent /\ failed = FALSE

-----------------------------------------------------------------------------
(* The core                                                                *)

\* checkUiData: ui.json is read once, if it can be.
UiServed == uiMem # Absent \/ uiFile # Cut
UiCopy == IF uiMem = Absent THEN uiFile ELSE uiMem
GetUi == uiMem' = (IF UiServed THEN UiCopy ELSE Absent) /\ UNCHANGED <<uiFile, held, failed>>

\* A slip: the copy is replaced when the file is written.
SetUiAfter(s, written) ==
  /\ uiFile' \in (IF written THEN {s} ELSE {uiFile, Cut})
  /\ uiMem' = IF written THEN s ELSE uiMem
  /\ held' = s /\ failed' = ~written

\* setUi.  Who saves is told that it is done, written or not.
SetUi(s, written) ==
  /\ uiFile' \in (IF written THEN {s} ELSE {uiFile, Cut})
  /\ uiMem' = s
  /\ held' = s /\ failed' = ~written

\* With the process goes what was not written.
LoseCopy ==
  /\ uiMem' = Absent
  /\ held' = IF failed THEN Absent ELSE held
  /\ failed' = FALSE

\* A use of the table by somebody else, an upload, a change of the graph, a boot.
CoreStep ==
  /\ \/ Boot
     \/ \E n \in Types :
          \/ Register500(n) \/ RegisterFails(n)
          \/ AddPlugin(n) \/ RemovePlugin(n)
          \/ \E c \in Contents \cup Broken : Register(n, c)
          \/ \E c \in Contents : Deploy(n, c)
     \/ RefreshTypes
  /\ UNCHANGED <<store, alive, page>>

CoreEnds ==
  /\ Crash \/ \E n \in Types, c \in Contents \cup Broken : RegisterCrash(n, c)
  /\ LoseCopy
  /\ page' = [page EXCEPT !.whole = FALSE]
  /\ UNCHANGED <<uiFile, alive>>

-----------------------------------------------------------------------------
(* The designer's server                                                   *)

Dies(s, fails) == alive' = IF fails THEN alive \ {s} ELSE alive

\* get, for the designer's screen.
DesignerLoad ==
  /\ up /\ "designer" \in alive
  /\ GetUi
  /\ Dies("designer", ~UiServed)
  /\ UNCHANGED <<pvars, page>>

\* components, and the types among componentManager's data.
DesignerTypes ==
  /\ "designer" \in alive
  /\ GetTypes
  /\ Dies("designer", CheckFails)
  /\ UNCHANGED <<store, page>>

\* set, and the browser's word that it is done.
DesignerSave(s) ==
  /\ up /\ "designer" \in alive
  /\ SetUi(s, TRUE)
  /\ UNCHANGED <<pvars, alive, page>>

\* The same when the core could not write it, and answered with a 500.
DesignerSaveFails(s) ==
  /\ up /\ "designer" \in alive
  /\ SetUi(s, FALSE)
  /\ UNCHANGED <<pvars, alive, page>>

\* The core ends meanwhile: nobody is told anything.
DesignerSaveCrash(s) ==
  /\ "designer" \in alive
  /\ Crash
  /\ uiFile' \in {s, Cut}
  /\ uiMem' = Absent /\ held' = Absent /\ failed' = FALSE
  /\ page' = [page EXCEPT !.whole = FALSE]
  /\ UNCHANGED alive

-----------------------------------------------------------------------------
(* The ui's server                                                         *)

\* structure.get: three requests at once.
Ask ==
  /\ "ui" \in alive
  /\ page' = [NoPage EXCEPT !.began = plugins, !.whole = up]
  /\ UNCHANGED <<pvars, store, alive>>

Answered(part, value) == page' = [page EXCEPT ![part] = value, !.unread = @ \ {part}]

Asked(part) == up /\ "ui" \in alive /\ part \in page.unread

ReadUi ==
  /\ Asked("ui")
  /\ GetUi
  /\ Dies("ui", ~UiServed)
  /\ IF UiServed THEN Answered("ui", UiCopy) ELSE page' = NoPage
  /\ UNCHANGED pvars

ReadPlugins ==
  /\ Asked("plugins")
  /\ Answered("plugins", plugins)
  /\ UNCHANGED <<pvars, store, alive>>

ReadTypes ==
  /\ Asked("types")
  /\ GetTypes
  /\ Dies("ui", CheckFails)
  /\ IF CheckFails THEN page' = NoPage
     ELSE Answered("types", {n \in Types : Checked[n] # Absent})
  /\ UNCHANGED store

\* A slip: what is not an answer is taken for one.
UnansweredParsed ==
  /\ ~up /\ page.unread # {} /\ "ui" \in alive
  /\ page' = NoPage
  /\ Dies("ui", TRUE)
  /\ UNCHANGED <<pvars, store>>

\* Nobody listens on the core's port: the screen gets an error.
Unanswered ==
  /\ ~up /\ page.unread # {} /\ "ui" \in alive
  /\ page' = NoPage
  /\ UNCHANGED <<pvars, store, alive>>

\* Started again by hand.
Restart(s) ==
  /\ s \notin alive
  /\ alive' = alive \cup {s}
  /\ UNCHANGED <<pvars, store, page>>

SNext ==
  \/ CoreStep \/ CoreEnds
  \/ DesignerLoad \/ DesignerTypes
  \/ \E s \in Structures :
       DesignerSave(s) \/ DesignerSaveFails(s) \/ DesignerSaveCrash(s)
  \/ Ask \/ ReadUi \/ ReadPlugins \/ ReadTypes \/ Unanswered
  \/ \E s \in Servers : Restart(s)

SSpec == SInit /\ [][SNext]_svars

-----------------------------------------------------------------------------
(* Properties                                                              *)

\* What was last told saved is what is served, though the designer's server does not look
\* if it was written: until the core, its write having failed, ends.
SavedIsServed == held # Absent => UiServed /\ UiCopy = held

\* The attributes that a screen displays are found in the nick (attributeIndex), of every
\* component that was there when the page was asked and is when the plugins are read: the
\* three requests may be answered in any order with uploads, failures and changes of the
\* graph in between, but not a restart.
Indexed ==
  page.unread = {} /\ page.whole =>
    page.ui \cap page.began \cap page.plugins \subseteq page.types

\* The servers survive the core; they end by a file that does not load, which an upload or
\* a save cut short has left, or a module of which node keeps the wrong form.
DiesByFile ==
  [][alive \ alive' # {} =>
       uiFile = Cut \/ stuck # {} \/ \E n \in Types : file[n] \in Broken]_svars
=============================================================================
