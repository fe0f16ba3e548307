----------------------------- MODULE DaemonMain -----------------------------
(***************************************************************************)
(* The commands start, stop and status of the component daemon, and the    *)
(* file that holds its pid (main.c).  Commands run in shells, at the same  *)
(* time if several people use them; the daemon goes on when the command    *)
(* that started it has ended, and writes its pid only then.                *)
(*                                                                         *)
(* The file is never removed.  A pid is given again to another program     *)
(* some time after its process ended.                                      *)
(*                                                                         *)
(* A definition introduced as a slip is a wrong variant of the next one.   *)
(***************************************************************************)
EXTENDS Naturals

CONSTANTS
  Shells,      \* those who run commands
  Pids,        \* pids of daemons
  NoPid,       \* no pid could be read: -1
  MaxCommands  \* bound on commands

ASSUME MainAssumption ==
  /\ NoPid \notin Pids
  /\ MaxCommands \in Nat

VARIABLES
  file,     \* the pid in the file, NoPid if it is absent or empty
  process,  \* what each pid is
  shell,    \* what each shell does
  raced,    \* observed only: a start was begun before another had had its pid written
  commands

nvars == <<file, process, shell, raced, commands>>

\* A daemon: forked, its pid not written; writing it, the file emptied; init, with no
\* handler for SIGTERM yet; in its loop; ending.
Daemons == {"forked", "writing", "init", "loop", "ending"}

Is(p, states) == process[p] \in states
Living == {p \in Pids : Is(p, Daemons)}

\* kill(pid, 0) finds a process.
Exists(p) == p # NoPid /\ Is(p, Daemons \cup {"stranger"})

At(c, i, p) == [command |-> c, pc |-> i, pid |-> p]
Idle == At("none", "idle", NoPid)

\* Types.
MainTypeOK ==
  /\ file \in Pids \cup {NoPid}
  /\ process \in [Pids -> Daemons \cup {"free", "ended", "stranger"}]
  /\ shell \in [Shells -> [command : {"none", "start", "stop", "status"},
                           pc : {"idle", "read", "act", "wait"},
                           pid : Pids \cup {NoPid}]]
  /\ \A s \in Shells : shell[s].pc = "wait" => shell[s].pid \in Pids
  /\ raced \in BOOLEAN
  /\ commands \in 0 .. MaxCommands

MainInit ==
  /\ file = NoPid
  /\ process = [p \in Pids |-> "free"]
  /\ shell = [s \in Shells |-> Idle]
  /\ raced = FALSE
  /\ commands = 0

-----------------------------------------------------------------------------
(* The commands                                                            *)

Starting ==
  \/ \E s \in Shells : shell[s].command = "start"
  \/ \E p \in Pids : Is(p, {"forked", "writing"})

Begin(s, c) ==
  /\ shell[s] = Idle
  /\ commands < MaxCommands /\ commands' = commands + 1
  /\ shell' = [shell EXCEPT ![s] = At(c, "read", NoPid)]
  /\ raced' = (raced \/ (c = "start" /\ Starting))
  /\ UNCHANGED <<file, process>>

\* read_pid.
ReadPid(s) ==
  /\ shell[s].pc = "read"
  /\ shell' = [shell EXCEPT ![s].pc = "act", ![s].pid = file]
  /\ UNCHANGED <<file, process, raced, commands>>

Acting(s, c) ==
  /\ shell[s].command = c /\ shell[s].pc = "act"
  /\ UNCHANGED <<file, raced, commands>>

\* do_status: says what it found.
DoStatus(s) ==
  /\ Acting(s, "status")
  /\ shell' = [shell EXCEPT ![s] = Idle]
  /\ UNCHANGED process

\* A slip: a daemon that is ending is not counted as running.
StartOverEnding(s) ==
  /\ Acting(s, "start")
  /\ shell' = [shell EXCEPT ![s] = Idle]
  /\ IF Exists(shell[s].pid) /\ ~Is(shell[s].pid, {"ending"})
     THEN UNCHANGED process
     ELSE \E p \in Pids : Is(p, {"free"}) /\ process' = [process EXCEPT ![p] = "forked"]

\* do_start: already running, or started.
DoStart(s) ==
  /\ Acting(s, "start")
  /\ shell' = [shell EXCEPT ![s] = Idle]
  /\ IF Exists(shell[s].pid)
     THEN UNCHANGED process
     ELSE \E p \in Pids : Is(p, {"free"}) /\ process' = [process EXCEPT ![p] = "forked"]

\* do_stop: not running, error stopping, or stopping.  Before its handler is installed
\* SIGTERM kills the daemon; then it makes the loop end.
DoStop(s) ==
  LET p == shell[s].pid IN
    /\ Acting(s, "stop")
    /\ IF Exists(p)
       THEN /\ shell' = [shell EXCEPT ![s].pc = "wait"]
            /\ process' = [process EXCEPT ![p] =
                 IF Is(p, {"loop", "ending"}) THEN "ending" ELSE "ended"]
       ELSE /\ shell' = [shell EXCEPT ![s] = Idle]
            /\ UNCHANGED process

\* waitpid returns at once, since the daemon is no child of this process: stopped.
Stopped(s) ==
  /\ shell[s].pc = "wait"
  /\ shell' = [shell EXCEPT ![s] = Idle]
  /\ UNCHANGED <<file, process, raced, commands>>

-----------------------------------------------------------------------------
(* The daemon                                                              *)

Becomes(p, from, to) ==
  Is(p, from) /\ process' = [process EXCEPT ![p] = to]

\* write_pid: fopen empties the file.
WriteOpen(p) ==
  /\ Becomes(p, {"forked"}, "writing")
  /\ file' = NoPid
  /\ UNCHANGED <<shell, raced, commands>>

WritePid(p) ==
  /\ Becomes(p, {"writing"}, "init")
  /\ file' = p
  /\ UNCHANGED <<shell, raced, commands>>

\* init, then the handler of SIGTERM and the loop.
EnterLoop(p) == Becomes(p, {"init"}, "loop") /\ UNCHANGED <<file, shell, raced, commands>>

\* A slip: the daemon removes the file when it begins to end.
DieRemoving(p) ==
  /\ Becomes(p, {"forked", "init", "loop", "ending"}, IF Is(p, {"loop"}) THEN "ending" ELSE "ended")
  /\ file' = NoPid
  /\ UNCHANGED <<shell, raced, commands>>

\* terminate is done; or something failed before, the opening of the file included.
Die(p) ==
  /\ Becomes(p, {"forked", "init", "loop", "ending"}, "ended")
  /\ UNCHANGED <<file, shell, raced, commands>>

\* Another program is given the pid.
Reuse(p) ==
  /\ Becomes(p, {"ended"}, "stranger")
  /\ UNCHANGED <<file, shell, raced, commands>>

-----------------------------------------------------------------------------
MainNext ==
  \/ \E s \in Shells, c \in {"start", "stop", "status"} : Begin(s, c)
  \/ \E s \in Shells : ReadPid(s) \/ DoStatus(s) \/ DoStart(s) \/ DoStop(s) \/ Stopped(s)
  \/ \E p \in Pids : WriteOpen(p) \/ WritePid(p) \/ EnterLoop(p) \/ Die(p) \/ Reuse(p)

MainSpec == MainInit /\ [][MainNext]_nvars

-----------------------------------------------------------------------------
(* Properties                                                              *)

\* There is one daemon at most, if nobody starts one before the last is in the file:
\* with stops, failures at any point and pids given again.
OneDaemon == ~raced => \A p, q \in Living : p = q

\* A daemon that wrote its pid can be stopped: the file still holds it.
Recorded == ~raced => \A p \in Pids : Is(p, {"init", "loop", "ending"}) => file = p

\* Why: one start at a time is open, from its command to the pid in the file, and while
\* it is, the file does not change under it.
OneStart ==
  /\ \A s, t \in Shells :
       shell[s].command = "start" /\ shell[t].command = "start" => s = t
  /\ \A s \in Shells : shell[s].command = "start" =>
       /\ \A p \in Pids : ~Is(p, {"forked", "writing"})
       /\ shell[s].pc = "act" => shell[s].pid = file

\* The inductive invariant of the proof.
MainInv == MainTypeOK /\ OneDaemon /\ Recorded /\ (~raced => OneStart)
=============================================================================
