--------------------------- MODULE UiStoreProofs ---------------------------
(***************************************************************************)
(* Theorems about PluginTypes and UiStore, for all types, contents of      *)
(* files, structures and numbers of writes.                                *)
(***************************************************************************)
EXTENDS UiStore, TLAPS

\* The file of a type that is loaded holds what is loaded: an upload writes only what the
\* table does not have, and a table is lost with the process.
LoadedIsFile == \A n \in Types : table[n] # Absent => table[n] = file[n]

\* Without a table, or without a process, nothing is loaded.
NothingLoaded ==
  /\ ~up => ~made
  /\ ~made => table = Empty /\ stuck = {}

\* The invariant.
TypesInv == PTypeOK /\ LoadedIsFile /\ NothingLoaded /\ RestartKeepsTypes

-----------------------------------------------------------------------------
(* The table                                                               *)

\* A refresh loads only files that load, and loads them as they are.
LEMMA RefreshedLoads ==
  ASSUME NEW f \in [Types -> Contents \cup Broken \cup {Absent}],
         NEW t \in [Types -> Contents \cup {Absent}],
         \A n \in Types : t[n] # Absent => t[n] = f[n]
  PROVE  LET r == Refreshed(f, t)
         IN /\ r \in [Types -> Contents \cup {Absent}]
            /\ \A n \in Types : r[n] # Absent => r[n] = f[n]
            /\ \A n \in Types : t[n] # Absent => r[n] = t[n]
<1> DEFINE r == Refreshed(f, t)
<1>1. ASSUME NEW n \in Types
      PROVE  /\ r[n] \in Contents \cup {Absent}
             /\ r[n] # Absent => r[n] = f[n]
             /\ t[n] # Absent => r[n] = t[n]
  <2>1. r[n] = IF t[n] = Absent /\ \A b \in Stopping(f, t) : n < b THEN f[n] ELSE t[n]
    BY DEF Refreshed
  <2>2. CASE t[n] = Absent /\ \A b \in Stopping(f, t) : n < b
    <3>1. n \notin Stopping(f, t)
      BY <2>2, PluginTypesAssumption
    <3>2. f[n] = Absent \/ f[n] \notin Broken
      BY <2>2, <3>1 DEF Stopping
    <3> QED BY <2>1, <2>2, <3>2
  <2>3. CASE ~(t[n] = Absent /\ \A b \in Stopping(f, t) : n < b)
    BY <2>1, <2>3
  <2> QED BY <2>2, <2>3
<1>2. r \in [Types -> Contents \cup {Absent}]
  BY <1>1 DEF Refreshed
<1> QED BY <1>1, <1>2

\* The modules that stop a refresh are modules of types.
LEMMA StuckByTypes ==
  ASSUME stuck \subseteq Types, NEW f, NEW t
  PROVE  StuckBy(f, t) \subseteq Types
  BY DEF StuckBy, Stopping

\* A table that is used is typed, is what the files hold, and keeps what it had.
LEMMA CheckedLoads ==
  ASSUME TypesInv
  PROVE  /\ Checked \in [Types -> Contents \cup {Absent}]
         /\ \A n \in Types : Checked[n] # Absent => Checked[n] = file[n]
         /\ \A n \in Types : table[n] # Absent => Checked[n] = table[n]
<1>1. CASE made
  BY <1>1 DEF Checked, TypesInv, PTypeOK, LoadedIsFile
<1>2. CASE ~made
  <2>1. Checked = Refreshed(file, Empty) /\ table = Empty
    BY <1>2 DEF Checked, TypesInv, NothingLoaded
  <2>2. /\ Empty \in [Types -> Contents \cup {Absent}]
        /\ \A n \in Types : Empty[n] = Absent
    BY DEF Empty
  <2>3. file \in [Types -> Contents \cup Broken \cup {Absent}]
    BY DEF TypesInv, PTypeOK
  <2> QED BY <2>1, <2>2, <2>3, RefreshedLoads
<1> QED BY <1>1, <1>2

\* A use of the table that leaves the files alone, and keeps the plugins or adds one
\* that the table holds.
LEMMA UseKeeps ==
  ASSUME TypesInv, Use, file' = file, up' = up, deployed' = deployed, writes' = writes,
         plugins' \subseteq Types,
         \A n \in plugins' : n \in plugins \/ Checked[n] # Absent
  PROVE  TypesInv'
<1>1. table' = Checked /\ made' = TRUE /\ up
  BY DEF Use
<1>2. stuck' \subseteq Types
  BY StuckByTypes DEF Use, TypesInv, PTypeOK
<1>3. PTypeOK'
  BY <1>1, <1>2, CheckedLoads DEF TypesInv, PTypeOK
<1>4. LoadedIsFile'
  BY <1>1, CheckedLoads DEF LoadedIsFile
<1>5. NothingLoaded'
  BY <1>1 DEF NothingLoaded
<1>6. RestartKeepsTypes'
  <2> SUFFICES ASSUME NEW n \in plugins'
               PROVE  file[n] \in Contents /\ Checked[n] = file[n]
    BY <1>1 DEF RestartKeepsTypes
  <2>1. n \in Types
    OBVIOUS
  <2>2. CASE n \in plugins
    <3>1. file[n] \in Contents /\ table[n] = file[n]
      BY <1>1, <2>2 DEF TypesInv, RestartKeepsTypes
    <3>2. table[n] # Absent
      BY <3>1, PluginTypesAssumption
    <3> QED BY <2>1, <3>1, <3>2, CheckedLoads
  <2>3. CASE Checked[n] # Absent
    BY <2>1, <2>3, CheckedLoads
  <2> QED BY <2>2, <2>3
<1> QED BY <1>3, <1>4, <1>5, <1>6 DEF TypesInv

\* The file of a type that the table in use does not have is no plugin's.
LEMMA UnloadedUnused ==
  ASSUME TypesInv, up, NEW n \in Types, MayRegister(n)
  PROVE  n \notin plugins
<1>1. ASSUME n \in plugins PROVE FALSE
  <2>1. table[n] = file[n] /\ file[n] \in Contents
    BY <1>1 DEF TypesInv, RestartKeepsTypes
  <2>2. table[n] # Absent
    BY <2>1, PluginTypesAssumption
  <2> QED BY <2>2, CheckedLoads DEF MayRegister
<1> QED BY <1>1

-----------------------------------------------------------------------------
(* Each action                                                             *)

\* The process is gone, and with it what was loaded; a file of no plugin may have been
\* written.
LEMMA DownKeeps ==
  ASSUME TypesInv, Down, plugins' = plugins, deployed' \in BOOLEAN, Write,
         file' \in [Types -> Contents \cup Broken \cup {Absent}],
         \A n \in plugins : file'[n] = file[n]
  PROVE  TypesInv'
<1>1. table' = Empty /\ made' = FALSE /\ up' = FALSE /\ stuck' = {}
  BY DEF Down
<1>2. /\ Empty \in [Types -> Contents \cup {Absent}]
      /\ \A n \in Types : Empty[n] = Absent
  BY DEF Empty
<1>3. writes' \in 0 .. MaxWrites
  BY PluginTypesAssumption DEF Write, TypesInv, PTypeOK
<1>4. PTypeOK'
  BY <1>1, <1>2, <1>3 DEF TypesInv, PTypeOK
<1>5. LoadedIsFile' /\ NothingLoaded'
  BY <1>1, <1>2 DEF LoadedIsFile, NothingLoaded
<1>6. RestartKeepsTypes'
  BY <1>1 DEF TypesInv, RestartKeepsTypes
<1> QED BY <1>4, <1>5, <1>6 DEF TypesInv

\* A file of a type that is not loaded is written, and the table is what it was checked to
\* be or a refresh of it.
LEMMA WriteKeeps ==
  ASSUME TypesInv, up, up' = up, made' = TRUE, plugins' = plugins, deployed' \in BOOLEAN, Write,
         NEW n \in Types, MayRegister(n), NEW c \in Contents \cup Broken \cup {Absent},
         file' = [file EXCEPT ![n] = c], stuck' \subseteq Types,
         table' \in {Checked, Refreshed(file', Checked)}
  PROVE  TypesInv'
<1>1. file' \in [Types -> Contents \cup Broken \cup {Absent}]
  BY DEF TypesInv, PTypeOK
<1>2. /\ Checked \in [Types -> Contents \cup {Absent}]
      /\ \A m \in Types : Checked[m] # Absent => Checked[m] = file'[m]
      /\ \A m \in Types : table[m] # Absent => Checked[m] = table[m]
  BY CheckedLoads DEF MayRegister, TypesInv, PTypeOK
<1>3. /\ table' \in [Types -> Contents \cup {Absent}]
      /\ \A m \in Types : table'[m] # Absent => table'[m] = file'[m]
      /\ \A m \in Types : Checked[m] # Absent => table'[m] = Checked[m]
  <2> DEFINE r == Refreshed(file', Checked)
  <2>1. /\ r \in [Types -> Contents \cup {Absent}]
        /\ \A m \in Types : r[m] # Absent => r[m] = file'[m]
        /\ \A m \in Types : Checked[m] # Absent => r[m] = Checked[m]
    BY <1>1, <1>2, RefreshedLoads
  <2> QED BY <1>2, <2>1
<1>4. writes' \in 0 .. MaxWrites
  BY PluginTypesAssumption DEF Write, TypesInv, PTypeOK
<1>5. PTypeOK'
  BY <1>1, <1>3, <1>4 DEF TypesInv, PTypeOK
<1>6. LoadedIsFile' /\ NothingLoaded'
  BY <1>3 DEF LoadedIsFile, NothingLoaded
<1>7. RestartKeepsTypes'
  <2> SUFFICES ASSUME NEW m \in plugins
               PROVE  file'[m] \in Contents /\ table'[m] = file'[m]
    BY DEF RestartKeepsTypes
  <2>1. m \in Types /\ m # n
    BY UnloadedUnused DEF TypesInv, PTypeOK
  <2>2. file[m] \in Contents /\ table[m] = file[m] /\ file'[m] = file[m]
    BY <2>1 DEF TypesInv, PTypeOK, RestartKeepsTypes
  <2>3. table[m] # Absent
    BY <2>2, PluginTypesAssumption
  <2> QED BY <1>2, <1>3, <2>1, <2>2, <2>3
<1> QED BY <1>5, <1>6, <1>7 DEF TypesInv

\* Boot: all that the plugins need is loaded.
LEMMA BootKeeps ==
  ASSUME TypesInv, Boot
  PROVE  TypesInv'
<1>1. ~made /\ table = Empty /\ stuck = {} /\ file' = file /\ plugins' = plugins /\ stuck' = stuck
  BY DEF Boot, TypesInv, NothingLoaded
<1>2. /\ Empty \in [Types -> Contents \cup {Absent}]
      /\ \A n \in Types : Empty[n] = Absent
  BY DEF Empty
<1>3. /\ table' \in [Types -> Contents \cup {Absent}]
      /\ \A n \in Types : table'[n] # Absent => table'[n] = file[n]
  BY <1>2, CheckedLoads DEF Boot
<1>4. PTypeOK'
  BY <1>1, <1>3 DEF Boot, TypesInv, PTypeOK
<1>5. LoadedIsFile' /\ NothingLoaded'
  BY <1>1, <1>3 DEF Boot, LoadedIsFile, NothingLoaded
<1>6. RestartKeepsTypes'
  <2> SUFFICES ASSUME NEW n \in plugins
               PROVE  file[n] \in Contents /\ made' /\ table'[n] = file[n]
    BY <1>1 DEF RestartKeepsTypes
  <2>1. plugins # {} /\ Checked[n] # Absent /\ n \in Types
    BY DEF Boot, Boots, TypesInv, PTypeOK
  <2>2. table' = Checked /\ made'
    BY <2>1 DEF Boot
  <2> QED BY <1>3, <2>1, <2>2 DEF TypesInv, RestartKeepsTypes
<1> QED BY <1>4, <1>5, <1>6 DEF TypesInv

\* A refresh, which changes no plugin and no file.
LEMMA RefreshKeeps ==
  ASSUME TypesInv, RefreshTypes
  PROVE  TypesInv'
<1>1. /\ table' \in [Types -> Contents \cup {Absent}]
      /\ \A n \in Types : table'[n] # Absent => table'[n] = file[n]
      /\ \A n \in Types : table[n] # Absent => table'[n] = table[n]
  BY RefreshedLoads DEF RefreshTypes, TypesInv, PTypeOK, LoadedIsFile
<1>2. stuck' \subseteq Types
  BY StuckByTypes DEF RefreshTypes, TypesInv, PTypeOK
<1>3. PTypeOK'
  BY <1>1, <1>2 DEF RefreshTypes, TypesInv, PTypeOK
<1>4. LoadedIsFile' /\ NothingLoaded'
  BY <1>1 DEF RefreshTypes, LoadedIsFile, NothingLoaded
<1>5. RestartKeepsTypes'
  BY <1>1, PluginTypesAssumption DEF RefreshTypes, TypesInv, PTypeOK, RestartKeepsTypes
<1> QED BY <1>3, <1>4, <1>5 DEF TypesInv

\* A file put there by hand takes the place of none or of one that does not load.
LEMMA DeployKeeps ==
  ASSUME TypesInv, NEW n \in Types, NEW c \in Contents, Deploy(n, c)
  PROVE  TypesInv'
<1>1. /\ file' = [file EXCEPT ![n] = c] /\ file[n] \notin Contents
      /\ UNCHANGED <<up, made, table, stuck, plugins>> /\ deployed' = TRUE
  BY DEF Deploy
<1>2. table[n] = Absent
  BY <1>1 DEF TypesInv, PTypeOK, LoadedIsFile
<1>3. writes' \in 0 .. MaxWrites
  BY PluginTypesAssumption DEF Deploy, Write, TypesInv, PTypeOK
<1>4. PTypeOK'
  BY <1>1, <1>3 DEF TypesInv, PTypeOK
<1>5. LoadedIsFile' /\ NothingLoaded'
  BY <1>1, <1>2 DEF TypesInv, PTypeOK, LoadedIsFile, NothingLoaded
<1>6. RestartKeepsTypes'
  BY <1>1 DEF TypesInv, PTypeOK, RestartKeepsTypes
<1> QED BY <1>4, <1>5, <1>6 DEF TypesInv

\* Every step of the core keeps the invariant.
LEMMA TypesStep ==
  ASSUME TypesInv, [PNext]_pvars
  PROVE  TypesInv'
<1>1. CASE GetTypes
  BY <1>1, UseKeeps DEF GetTypes, TypesInv, PTypeOK
<1>2. CASE RefreshTypes
  BY <1>2, RefreshKeeps
<1>3. CASE Crash
  BY <1>3, DownKeeps DEF Crash, TypesInv, PTypeOK
<1>4. CASE Boot
  BY <1>4, BootKeeps
<1>5. ASSUME NEW n \in Types, Register500(n) PROVE TypesInv'
  BY <1>5, UseKeeps DEF Register500, TypesInv, PTypeOK
<1>6. ASSUME NEW n \in Types, RegisterFails(n) PROVE TypesInv'
  <2>1. PICK c \in Broken \cup {file[n]} : file' = [file EXCEPT ![n] = c]
    BY <1>6 DEF RegisterFails
  <2>2. c \in Contents \cup Broken \cup {Absent}
    BY DEF TypesInv, PTypeOK
  <2>3. /\ up /\ up' = up /\ made' = TRUE /\ table' = Checked /\ Write /\ MayRegister(n)
        /\ plugins' = plugins /\ deployed' = deployed
        /\ stuck' = IF made THEN stuck ELSE StuckBy(file, Empty)
    BY <1>6 DEF RegisterFails, Use
  <2>4. stuck' \subseteq Types /\ deployed' \in BOOLEAN
    BY <2>3, StuckByTypes DEF TypesInv, PTypeOK
  <2> QED BY <2>1, <2>2, <2>3, <2>4, WriteKeeps
<1>7. ASSUME NEW n \in Types, AddPlugin(n) PROVE TypesInv'
  BY <1>7, UseKeeps DEF AddPlugin, TypesInv, PTypeOK
<1>8. ASSUME NEW n \in Types, RemovePlugin(n) PROVE TypesInv'
  BY <1>8 DEF RemovePlugin, TypesInv, PTypeOK, LoadedIsFile, NothingLoaded, RestartKeepsTypes
<1>9. ASSUME NEW n \in Types, NEW c \in Contents \cup Broken, Register(n, c)
      PROVE  TypesInv'
  <2>1. stuck' \subseteq Types
    BY <1>9, StuckByTypes DEF Register, TypesInv, PTypeOK
  <2> QED BY <1>9, <2>1, WriteKeeps DEF Register
<1>10. ASSUME NEW n \in Types, NEW c \in Contents \cup Broken, RegisterCrash(n, c)
       PROVE  TypesInv'
  <2>1. n \notin plugins
    BY <1>10, UnloadedUnused DEF RegisterCrash
  <2>2. /\ file' \in [Types -> Contents \cup Broken \cup {Absent}]
        /\ \A m \in plugins : file'[m] = file[m]
    BY <1>10, <2>1 DEF RegisterCrash, TypesInv, PTypeOK
  <2> QED BY <1>10, <2>2, DownKeeps DEF RegisterCrash, TypesInv, PTypeOK
<1>11. ASSUME NEW n \in Types, NEW c \in Contents, Deploy(n, c) PROVE TypesInv'
  BY <1>11, DeployKeeps
<1>12. CASE UNCHANGED pvars
  BY <1>12 DEF pvars, TypesInv, PTypeOK, LoadedIsFile, NothingLoaded, RestartKeepsTypes
<1> QED BY <1>1, <1>2, <1>3, <1>4, <1>5, <1>6, <1>7, <1>8, <1>9, <1>10, <1>11, <1>12
        DEF PNext

\* It holds when the core first starts.
LEMMA TypesBegin ==
  ASSUME PInit
  PROVE  TypesInv
<1>1. /\ Empty \in [Types -> Contents \cup {Absent}]
      /\ \A n \in Types : Empty[n] = Absent
  BY DEF Empty
<1>2. file \in [Types -> Contents \cup Broken \cup {Absent}]
  BY DEF PInit
<1>3. PTypeOK
  <2>1. 0 \in 0 .. MaxWrites
    BY PluginTypesAssumption
  <2>2. table \in [Types -> Contents \cup {Absent}]
    BY <1>1 DEF PInit
  <2> QED BY <1>2, <2>1, <2>2, Zenon DEF PInit, PTypeOK
<1>4. LoadedIsFile /\ NothingLoaded
  BY <1>1 DEF PInit, LoadedIsFile, NothingLoaded
<1>5. RestartKeepsTypes
  BY DEF PInit, RestartKeepsTypes
<1> QED BY <1>3, <1>4, <1>5 DEF TypesInv

\* The inductive invariant holds in every state of the core.
THEOREM TypesInductive == PSpec => []TypesInv
<1>1. PInit => TypesInv
  BY TypesBegin
<1>2. TypesInv /\ [PNext]_pvars => TypesInv'
  BY TypesStep
<1> QED BY <1>1, <1>2, PTL DEF PSpec

\* The type invariant of the table of types.
THEOREM TableTypes == PSpec => []PTypeOK
<1>1. TypesInv => PTypeOK
  BY DEF TypesInv
<1> QED BY <1>1, TypesInductive, PTL

-----------------------------------------------------------------------------
(* The table is complete                                                   *)

\* If every file loads and no module is stuck, a refresh leaves nothing out.
LEMMA RefreshedAll ==
  ASSUME NEW f \in [Types -> Contents \cup Broken \cup {Absent}],
         NEW t \in [Types -> Contents \cup {Absent}],
         \A n \in Types : t[n] # Absent => t[n] = f[n],
         \A n \in Types : f[n] \notin Broken, stuck = {}
  PROVE  Refreshed(f, t) = f
<1>1. Stopping(f, t) = {}
  BY DEF Stopping
<1>2. ASSUME NEW n \in Types PROVE Refreshed(f, t)[n] = f[n]
  BY <1>1 DEF Refreshed
<1>3. Refreshed(f, t) = [n \in Types |-> Refreshed(f, t)[n]]
  BY DEF Refreshed
<1> QED BY <1>2, <1>3

\* What a table made or refreshed now would hold.
LEMMA UseCompletes ==
  ASSUME TypesInv, Complete, up, ~deployed \/ ~made,
         stuck = {}, \A n \in Types : file[n] \notin Broken
  PROVE  Checked = file
<1>1. CASE made
  BY <1>1 DEF Complete, Checked
<1>2. CASE ~made
  <2>1. /\ Empty \in [Types -> Contents \cup {Absent}]
        /\ \A n \in Types : Empty[n] = Absent
    BY DEF Empty
  <2> QED BY <1>2, <2>1, RefreshedAll DEF Checked, TypesInv, PTypeOK
<1> QED BY <1>1, <1>2

\* A use of the table completes it, or leaves a sign why not.
LEMMA UseKeepsComplete ==
  ASSUME TypesInv, Complete, Use, deployed' = deployed,
         \A n \in Types : file'[n] \notin Broken => file'[n] = file[n],
         file' \in [Types -> Contents \cup Broken \cup {Absent}]
  PROVE  Complete'
<1> SUFFICES ASSUME ~deployed, stuck' = {}, \A n \in Types : file'[n] \notin Broken
             PROVE  table' = file'
  BY DEF Complete
<1>1. file' = file
  BY DEF TypesInv, PTypeOK
<1>2. stuck = {}
  BY DEF Use, StuckBy
<1> QED BY <1>1, <1>2, UseCompletes DEF Use

\* Every step of the core leaves the table complete.
LEMMA CompleteStep ==
  ASSUME TypesInv, Complete, [PNext]_pvars
  PROVE  Complete'
<1> USE DEF TypesInv, PTypeOK
<1>1. CASE GetTypes
  BY <1>1, UseKeepsComplete DEF GetTypes
<1>2. CASE RefreshTypes
  <2> SUFFICES ASSUME stuck' = {}, \A n \in Types : file[n] \notin Broken
               PROVE  table' = file
    BY <1>2 DEF Complete, RefreshTypes
  <2>1. stuck = {}
    BY <1>2 DEF RefreshTypes, StuckBy
  <2> QED BY <1>2, <2>1, RefreshedAll DEF RefreshTypes, LoadedIsFile
<1>3. CASE Crash
  BY <1>3 DEF Crash, Down, Complete
<1>4. CASE Boot
  <2> SUFFICES ASSUME plugins # {}, \A n \in Types : file[n] \notin Broken
               PROVE  table' = file
    BY <1>4 DEF Boot, Complete
  <2>1. ~made /\ stuck = {} /\ table' = Refreshed(file, Empty)
    BY <1>4 DEF Boot, NothingLoaded, Checked
  <2>2. /\ Empty \in [Types -> Contents \cup {Absent}]
        /\ \A n \in Types : Empty[n] = Absent
    BY DEF Empty
  <2> QED BY <2>1, <2>2, RefreshedAll
<1>5. ASSUME NEW n \in Types, Register500(n) PROVE Complete'
  BY <1>5, UseKeepsComplete DEF Register500
<1>6. ASSUME NEW n \in Types, RegisterFails(n) PROVE Complete'
  <2>1. PICK c \in Broken \cup {file[n]} : file' = [file EXCEPT ![n] = c]
    BY <1>6 DEF RegisterFails
  <2>2. /\ \A m \in Types : file'[m] \notin Broken => file'[m] = file[m]
        /\ file' \in [Types -> Contents \cup Broken \cup {Absent}]
    BY <2>1
  <2>3. Use /\ deployed' = deployed
    BY <1>6 DEF RegisterFails
  <2> QED BY <2>2, <2>3, UseKeepsComplete
<1>7. ASSUME NEW n \in Types, AddPlugin(n) PROVE Complete'
  BY <1>7, UseKeepsComplete DEF AddPlugin
<1>8. ASSUME NEW n \in Types, RemovePlugin(n) PROVE Complete'
  BY <1>8 DEF RemovePlugin, Complete
<1>9. ASSUME NEW n \in Types, NEW c \in Contents \cup Broken, Register(n, c)
      PROVE  Complete'
  <2> SUFFICES ASSUME stuck' = {}, \A m \in Types : file'[m] \notin Broken
               PROVE  table' = file'
    BY DEF Complete
  <2>1. stuck = {} /\ table' = Refreshed(file', Checked)
    BY <1>9 DEF Register, StuckBy
  <2>2. file' = [file EXCEPT ![n] = c] /\ Checked[n] = Absent
    BY <1>9 DEF Register, MayRegister
  <2>3. /\ Checked \in [Types -> Contents \cup {Absent}]
        /\ \A m \in Types : Checked[m] # Absent => Checked[m] = file'[m]
    BY <2>2, CheckedLoads
  <2>4. file' \in [Types -> Contents \cup Broken \cup {Absent}]
    BY <2>2
  <2> QED BY <2>1, <2>3, <2>4, RefreshedAll
<1>10. ASSUME NEW n \in Types, NEW c \in Contents \cup Broken, RegisterCrash(n, c)
       PROVE  Complete'
  BY <1>10 DEF RegisterCrash, Down, Complete
<1>11. ASSUME NEW n \in Types, NEW c \in Contents, Deploy(n, c) PROVE Complete'
  BY <1>11 DEF Deploy, Complete
<1>12. CASE UNCHANGED pvars
  BY <1>12 DEF pvars, Complete
<1> QED BY <1>1, <1>2, <1>3, <1>4, <1>5, <1>6, <1>7, <1>8, <1>9, <1>10, <1>11, <1>12
        DEF PNext

-----------------------------------------------------------------------------
(* The servers                                                             *)

\* Every step of UiStore is one of the table's, or nothing to it.
LEMMA StoreStep ==
  ASSUME [SNext]_svars
  PROVE  [PNext]_pvars
<1>1. CASE CoreStep
  BY <1>1 DEF CoreStep, PNext
<1>2. CASE CoreEnds
  BY <1>2 DEF CoreEnds, PNext
<1>3. CASE DesignerTypes \/ ReadTypes
  BY <1>3 DEF DesignerTypes, ReadTypes, PNext
<1>4. CASE DesignerLoad \/ Ask \/ ReadUi \/ ReadPlugins \/ Unanswered
  BY <1>4 DEF DesignerLoad, Ask, ReadUi, ReadPlugins, Unanswered
<1>5. ASSUME NEW s \in Structures, DesignerSave(s) \/ DesignerSaveFails(s)
      PROVE  UNCHANGED pvars
  BY <1>5 DEF DesignerSave, DesignerSaveFails
<1>6. ASSUME NEW s \in Structures, DesignerSaveCrash(s) PROVE PNext
  BY <1>6 DEF DesignerSaveCrash, PNext
<1>7. ASSUME NEW s \in Servers, Restart(s) PROVE UNCHANGED pvars
  BY <1>7 DEF Restart
<1>8. CASE UNCHANGED svars
  BY <1>8 DEF svars
<1> QED BY <1>1, <1>2, <1>3, <1>4, <1>5, <1>6, <1>7, <1>8 DEF SNext
\* The copy of the core and its file hold what was last told saved: the file, if the save
\* did not fail; the copy, while the core has one.
SavedInv ==
  /\ uiFile \in Structures \cup {Cut}
  /\ uiMem \in Structures \cup {Absent}
  /\ held \in Structures \cup {Absent}
  /\ held # Absent => IF failed THEN uiMem = held ELSE uiFile = held /\ uiMem \in {Absent, held}

\* It holds before and after a save, whatever became of it.
LEMMA SavedStep ==
  ASSUME SavedInv, [SNext]_svars
  PROVE  SavedInv'
<1> USE StructuresAssumption DEF SavedInv
<1>1. CASE GetUi
  BY <1>1 DEF GetUi, UiServed, UiCopy
<1>2. CASE UNCHANGED store
  BY <1>2 DEF store
<1>3. CASE CoreStep \/ DesignerTypes \/ Ask \/ ReadPlugins \/ ReadTypes \/ Unanswered
  BY <1>2, <1>3
  DEF CoreStep, DesignerTypes, Ask, ReadPlugins, ReadTypes, Unanswered
<1>4. CASE CoreEnds
  BY <1>4 DEF CoreEnds, LoseCopy
<1>5. CASE DesignerLoad \/ ReadUi
  BY <1>1, <1>5 DEF DesignerLoad, ReadUi
<1>6. ASSUME NEW s \in Structures, DesignerSave(s) \/ DesignerSaveFails(s)
      PROVE  SavedInv'
  BY <1>6 DEF DesignerSave, DesignerSaveFails, SetUi
<1>7. ASSUME NEW s \in Structures, DesignerSaveCrash(s) PROVE SavedInv'
  BY <1>7 DEF DesignerSaveCrash
<1>8. ASSUME NEW s \in Servers, Restart(s) PROVE SavedInv'
  BY <1>2, <1>8 DEF Restart
<1>9. CASE UNCHANGED svars
  BY <1>2, <1>9 DEF svars
<1> QED BY <1>3, <1>4, <1>5, <1>6, <1>7, <1>8, <1>9 DEF SNext

\* What a screen was told of the types, while the core did not restart: of each component
\* that was there when it asked the type is loaded, and is among the types it was told.
PageInv ==
  /\ page \in [unread : SUBSET Parts, ui : SUBSET Types, plugins : SUBSET Types,
               types : SUBSET Types, began : SUBSET Types, whole : BOOLEAN]
  /\ page.whole =>
       /\ up
       /\ \A n \in page.began :
            /\ table[n] # Absent
            /\ "types" \notin page.unread => n \in page.types

\* While the core runs nothing that is loaded is lost.
LEMMA LoadedStays ==
  ASSUME TypesInv, [PNext]_pvars, up, up', NEW n \in Types, table[n] # Absent
  PROVE  table'[n] # Absent
<1>1. Checked[n] # Absent
  BY CheckedLoads
<1>2. CASE Use
  BY <1>1, <1>2 DEF Use
<1>3. CASE RefreshTypes
  BY <1>3, RefreshedLoads DEF RefreshTypes, TypesInv, PTypeOK, LoadedIsFile
<1>4. ASSUME NEW m \in Types, NEW c \in Contents \cup Broken, Register(m, c)
      PROVE  table'[n] # Absent
  <2>1. file' = [file EXCEPT ![m] = c] /\ Checked[m] = Absent /\ table' = Refreshed(file', Checked)
    BY <1>4 DEF Register, MayRegister
  <2>2. /\ Checked \in [Types -> Contents \cup {Absent}]
        /\ \A k \in Types : Checked[k] # Absent => Checked[k] = file'[k]
        /\ file' \in [Types -> Contents \cup Broken \cup {Absent}]
    BY <2>1, CheckedLoads DEF TypesInv, PTypeOK
  <2>3. \A k \in Types : Checked[k] # Absent => Refreshed(file', Checked)[k] = Checked[k]
    BY <2>2, RefreshedLoads
  <2> QED BY <1>1, <2>1, <2>3
<1>5. CASE table' = table
  BY <1>5
<1>6. \A m \in Types, c \in Contents \cup Broken : ~RegisterCrash(m, c)
  BY DEF RegisterCrash, Down
<1>7. ~Crash /\ ~Boot
  BY DEF Crash, Down, Boot
<1>8. ASSUME NEW m \in Types,
             \/ Register500(m) \/ RegisterFails(m) \/ AddPlugin(m) \/ RemovePlugin(m)
             \/ \E c \in Contents : Deploy(m, c)
      PROVE  table'[n] # Absent
  BY <1>2, <1>5, <1>8 DEF Register500, RegisterFails, AddPlugin, RemovePlugin, Deploy
<1>9. CASE GetTypes
  BY <1>2, <1>9 DEF GetTypes
<1>10. CASE UNCHANGED pvars
  BY <1>5, <1>10 DEF pvars
<1> QED BY <1>3, <1>4, <1>6, <1>7, <1>8, <1>9, <1>10 DEF PNext

\* Every step keeps it: what ends the core takes the mark of the page away.
LEMMA PageStep ==
  ASSUME TypesInv, SavedInv, PageInv, [SNext]_svars
  PROVE  PageInv'
<1>0. [PNext]_pvars
  BY StoreStep
<1>1. ASSUME up' = up, page' = page PROVE PageInv'
  BY <1>0, <1>1, LoadedStays DEF PageInv
<1>2. ASSUME page' = [page EXCEPT !.whole = FALSE] PROVE PageInv'
  BY <1>2 DEF PageInv
<1>3. CASE page' = NoPage
  BY <1>3 DEF PageInv, NoPage, Parts
<1>4. CASE CoreStep
  <2>1. page' = page
    BY <1>4 DEF CoreStep
  <2>2. up' = up \/ ~up
    BY <1>4 DEF CoreStep, Boot, Register500, RegisterFails, AddPlugin, RemovePlugin,
                Register, Deploy, RefreshTypes, Use
  <2>3. CASE ~up
    BY <2>1, <2>3 DEF PageInv
  <2> QED BY <1>1, <2>1, <2>2, <2>3
<1>5. CASE CoreEnds
  BY <1>2, <1>5 DEF CoreEnds
<1>6. CASE DesignerLoad \/ DesignerTypes \/ \E s \in Servers : Restart(s)
  BY <1>1, <1>6 DEF DesignerLoad, DesignerTypes, GetTypes, Restart, pvars
<1>7. ASSUME NEW s \in Structures, DesignerSave(s) \/ DesignerSaveFails(s) PROVE PageInv'
  BY <1>1, <1>7 DEF DesignerSave, DesignerSaveFails, pvars
<1>8. ASSUME NEW s \in Structures, DesignerSaveCrash(s) PROVE PageInv'
  BY <1>2, <1>8 DEF DesignerSaveCrash
<1>9. CASE Ask
  <2>1. \A n \in plugins : n \in Types /\ (up => table[n] # Absent)
    BY PluginTypesAssumption DEF TypesInv, PTypeOK, RestartKeepsTypes
  <2>2. /\ page' = [unread |-> Parts, ui |-> {}, plugins |-> {}, types |-> {},
                    began |-> plugins, whole |-> up]
        /\ UNCHANGED pvars
    BY <1>9 DEF Ask, NoPage
  <2>3. up \in BOOLEAN
    BY DEF TypesInv, PTypeOK
  <2> QED BY <2>1, <2>2, <2>3 DEF PageInv, Parts, pvars
<1>10. CASE ReadUi
  <2>1. UiServed => UiCopy \subseteq Types
    BY StructuresAssumption DEF UiServed, UiCopy, SavedInv
  <2>2. CASE UiServed
    BY <1>10, <2>1, <2>2 DEF ReadUi, Answered, PageInv, pvars
  <2> QED BY <1>3, <1>10, <2>2 DEF ReadUi
<1>11. CASE ReadPlugins
  BY <1>11 DEF ReadPlugins, Answered, PageInv, pvars, TypesInv, PTypeOK
<1>12. CASE ReadTypes
  <2>1. CASE ~CheckFails
    <3>1. /\ page' = [page EXCEPT !.types = {n \in Types : Checked[n] # Absent},
                                  !.unread = @ \ {"types"}]
          /\ up /\ up' = up /\ table' = Checked
      BY <1>12, <2>1 DEF ReadTypes, Answered, Asked, GetTypes, Use
    <3>2. \A n \in Types : table[n] # Absent => Checked[n] # Absent
      BY CheckedLoads
    <3> QED BY <3>1, <3>2 DEF PageInv
  <2> QED BY <1>3, <1>12, <2>1 DEF ReadTypes
<1>13. CASE Unanswered
  BY <1>3, <1>13 DEF Unanswered
<1>14. CASE UNCHANGED svars
  BY <1>1, <1>14 DEF svars, pvars
<1> QED BY <1>4, <1>5, <1>6, <1>7, <1>8, <1>9, <1>10, <1>11, <1>12, <1>13, <1>14 DEF SNext
-----------------------------------------------------------------------------
(* Theorems                                                                *)

\* The inductive invariant of the core, the designer's server and the ui's.
StoreInv == TypesInv /\ Complete /\ SavedInv /\ PageInv

\* It holds when all three first start.
LEMMA StoreBegins ==
  ASSUME SInit
  PROVE  StoreInv
<1>1. TypesInv
  BY TypesBegin DEF SInit
<1>2. Complete
  BY DEF SInit, PInit, Complete
<1>3. SavedInv
  BY StructuresAssumption DEF SInit, SavedInv
<1>4. PageInv
  BY DEF SInit, PageInv, NoPage, Parts
<1> QED BY <1>1, <1>2, <1>3, <1>4 DEF StoreInv

\* It holds in every state.
THEOREM StoreInductive == SSpec => []StoreInv
<1>1. SInit => StoreInv
  BY StoreBegins
<1>2. StoreInv /\ [SNext]_svars => StoreInv'
  BY StoreStep, TypesStep, CompleteStep, SavedStep, PageStep DEF StoreInv
<1> QED BY <1>1, <1>2, PTL DEF SSpec

\* A plugin finds after a restart the type it ran before: plugins.js register, create.
THEOREM PluginsRestart == SSpec => []RestartKeepsTypes
<1>1. StoreInv => RestartKeepsTypes
  BY DEF StoreInv, TypesInv
<1> QED BY <1>1, StoreInductive, PTL

\* A table half filled is filled as soon as it can be: plugins.js refreshPluginTypes.
THEOREM TableCompletes == SSpec => []Complete
<1>1. StoreInv => Complete
  BY DEF StoreInv
<1> QED BY <1>1, StoreInductive, PTL

\* The core serves what the designer was last told saved: data.js setUi, uiManager.js set.
THEOREM ServesSaved == SSpec => []SavedIsServed
<1>1. StoreInv => SavedIsServed
  BY StructuresAssumption DEF StoreInv, SavedInv, SavedIsServed, UiServed, UiCopy
<1> QED BY <1>1, StoreInductive, PTL

\* A screen finds the attributes of the components it displays: structure.js fill.
THEOREM ScreensIndexed == SSpec => []Indexed
<1>1. StoreInv => Indexed
  BY DEF StoreInv, PageInv, Indexed
<1> QED BY <1>1, StoreInductive, PTL

\* The servers end by a broken file only: JSON.parse in their requests.
THEOREM ServersOutlive == SSpec => DiesByFile
<1>1. CheckFails => stuck # {} \/ \E n \in Types : file[n] \in Broken
  BY DEF CheckFails, Stopping
<1>2. ~UiServed => uiFile = Cut
  BY DEF UiServed
<1>3. ASSUME [SNext]_svars, alive \ alive' # {}
      PROVE  uiFile = Cut \/ stuck # {} \/ \E n \in Types : file[n] \in Broken
  <2>1. CASE DesignerLoad \/ ReadUi
    BY <1>2, <1>3, <2>1 DEF DesignerLoad, ReadUi, Dies
  <2>2. CASE DesignerTypes \/ ReadTypes
    BY <1>1, <1>3, <2>2 DEF DesignerTypes, ReadTypes, Dies
  <2>3. CASE CoreStep \/ CoreEnds \/ Ask \/ ReadPlugins \/ Unanswered
    BY <1>3, <2>3 DEF CoreStep, CoreEnds, Ask, ReadPlugins, Unanswered
  <2>4. ASSUME NEW s \in Structures,
               DesignerSave(s) \/ DesignerSaveFails(s) \/ DesignerSaveCrash(s)
        PROVE  FALSE
    BY <1>3, <2>4 DEF DesignerSave, DesignerSaveFails, DesignerSaveCrash
  <2>5. \A s \in Servers : ~Restart(s)
    BY <1>3 DEF Restart
  <2>6. CASE UNCHANGED svars
    BY <1>3, <2>6 DEF svars
  <2> QED BY <1>3, <2>1, <2>2, <2>3, <2>4, <2>5, <2>6 DEF SNext
<1>4. [SNext]_svars =>
        [alive \ alive' # {} =>
           uiFile = Cut \/ stuck # {} \/ \E n \in Types : file[n] \in Broken]_svars
  BY <1>3
<1> QED BY <1>4, PTL DEF SSpec, DiesByFile
=============================================================================
