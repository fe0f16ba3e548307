# A TLA+ development of mylife-home

mylife-home is a home-automation system in three programs that talk over an IRC
server and a little HTTP. This directory holds TLA+ models of its logic, the
TLC configurations that check them, and TLAPS proofs. Paths are relative to the
repository; `core/` stands for `src/nodejs/mylife-home-core/`, `designer/` for
`src/nodejs/mylife-home-core-designer/`, `ui/` for `src/nodejs/mylife-home-ui/`
and `daemon/` for `src/mylife-home-components/src/`.

## The system

| part | state | operations | talks to |
| --- | --- | --- | --- |
| core graph (`core/manager.js`, `hardware.js`, `plugins.js`, `links.js`, `data.js`) | running hardware, plugins and links; the repository of published objects; a cache and its file `data.json` | add and remove hardware, plugin, link; boot; save | the designer (REST), the event bus |
| core stores (`core/plugins.js:12-51`, 114-131, `data.js:43-57`, 110-118) | the table of plugin types and the directory of their files; `ui.json` and its copy | list, refresh and upload types; read and save the ui's structure | the designer and the ui (REST), the graph |
| object bus (`core/netobject.js`, `core/plugins/`) | attribute values, event handlers, delayed values of the music plugin | set an attribute, execute an action, react | links; IRC |
| watcher (`core/netobject.js:221-456`) | on line or not, channels by count, mirrored attributes | join, part, nick, quit, names, close, action sent | the IRC server, the component daemons |
| designer server (`designer/componentManager.js`, `uiManager.js`) | one series of requests per save | read, merge, apply; read and save the ui's structure | the core |
| designer browser (`designer/public/app`) | the schema drawn | draw, delete, check types, load hardware, save | the designer server |
| ui server (`ui/structure.js`, `app.js`) | a page being made of three answers of the core | serve a screen its structure | the core |
| ui gateway and browser (`ui/gateway.js`, `ui/public/app`) | the nicks seen, press state of a button, actions under way | join, part, changed, down, up, time-out, action | IRC, socket.io |
| component daemon (`daemon/`) | components, pins, IRC sessions, MPD connection | load, act, publish a value, end | the kernel's gpio files, MPD, IRC |
| its commands (`daemon/main.c`) | the file with its pid | start, stop, status | the processes of the host |
| archived (`src/old_20131116`, `src/old_java_20141207`) | | not part of the running system | |

Each published component is an IRC nick `id|value1|value2...`; a value changes
by renaming, an action is a channel message `id action argument`. The core
mirrors the components of other hosts as *hardware* and runs its own as
*plugins*; a *link* runs an action of one when an attribute of another changes.

What is hard, by part, and what correctness means there:

* core graph: a request changes memory, then cache, then file, and the process
  may die or the disk refuse at any point; links hold references to objects; one
  repository serves two kinds of component. The graph that runs must have no
  dangling link, and whatever is on disk must boot and be what ran.
* designer: a save is a dozen requests computed from reads that are not atomic,
  stopped by the first refusal. A save reported as done must be the drawn graph.
* watcher and daemon: nicks come and go while either side reconnects. What the
  core believes of a component must be what its nick last said.
* object bus: handlers run depth first in the stack of the value that changed, set
  other values there, may throw half way, and may come back to where they began.
* music player: a value goes round from the plugin to the daemon and back.
* core stores: the table of types is made before it is filled, an upload is written
  without a look at it, and a wrong file stops the next boot. A plugin must keep
  its type, the table must be completed, and what was told saved must be served.
* ui: a browser reaches the channel over two connections that are lost apart.
  What it shows is the channel, or nothing. What a button executes is what was
  pressed, and the channel hears it once, in the order of its socket. A screen is made of several
  answers of a core that changes meanwhile.
* daemon: MPD's idle protocol drops events at the wrong moment; pins and counts
  must be released in order for the process to end well, and a process that died
  leaves pins as they were. One daemon runs, and can be stopped.

`PROJECT.json` lists the hazards line by line, with the properties that cover
each, and those still without one. Smaller ones that no property speaks of:

* `componentManager.js:183` keys requests by verb and id: a hardware with the id of a
  plugin takes the plugin's place (modelled in `ComponentRequests`);
* `netobject.js:247`: hardware published while the watcher is on its channel asks for no
  names; 238: an action executed off line is dropped; 348: a watcher that is itself
  kicked keeps its values (not modelled);
* `net_repository.c:471`: an attribute that changes between `irc_connect` and the end of
  the connection is told with the next change only; 241: a lost connection is not made
  again (modelled, `Quit`);
* `comp_mpd.c:205`: an order that MPD refuses ends the daemon (not modelled);
* `comp_rcswitch.c:138`: a command that cannot be executed leaves a second process in
  the loop (not modelled); 76: the pin and command of a second component are ignored
  (modelled, `Create`);
* `net.js:59`: the departure of an old nick hides the new one (modelled, `doubled`);
* `loop.c:218` and 279: timers, which nothing registers (below, *Met while modelling*).

## Modules

| module | models |
| --- | --- |
| `HomeGraph` | abstract: what the core promises to those who edit the graph |
| `CoreManager` | the core graph, its store, crash and restart |
| `DesignerApply` | EXTENDS `CoreManager`: browsers that save schemas through the designer server |
| `CoreProofs` | theorems about `CoreManager` and `DesignerApply`, and that each implements the one before |
| `HardwareMirror` | the core's watcher, the IRC server, and the components it mirrors |
| `HardwareMirrorProofs` | theorems about `HardwareMirror` |
| `CompMpd` | the daemon's music player in its loop, MPD and its other clients |
| `GpioComponents` | the daemon's components that hold pins, the gpio manager and its drivers, the kernel's files |
| `GpioProofs` | theorems about `GpioComponents` |
| `MusicLoop` | the music plugin, and the player it follows and drives over IRC |
| `MusicLoopProofs` | theorems about `MusicLoop` |
| `NetBus` | attributes, links and plugins in the stack of one event |
| `NetBusProofs` | theorems about `NetBus` |
| `UiGateway` | the ui's irc client, socket and browser |
| `InputManager` | short, long and repeated presses of a button |
| `UiClient` | EXTENDS `UiGateway`, INSTANCEs `InputManager`: a browser as a whole, and the way of an action to the channel |
| `UiClientProofs` | theorems about `UiClient`, and that it implements `UiGateway` |
| `PluginTypes` | the core's table of plugin types and its files |
| `UiStore` | EXTENDS `PluginTypes`: the ui's structure, kept by the core, saved through the designer, served by the ui's server |
| `UiStoreProofs` | theorems about `PluginTypes` and `UiStore` |
| `DaemonMain` | the daemon's commands, its pid file, the processes of the host |
| `DaemonProofs` | theorems about `CompMpd` and `DaemonMain` |
| `MC...` | an instance of each for TLC |

The modules share no state but where one EXTENDS or INSTANCEs the other. Where two parts meet,
each models the other from its side: `HardwareMirror` ends where a mirrored
attribute is set, where `NetBus` begins; `CompMpd` is the player of `MusicLoop`
inside its daemon.

A definition whose comment calls it a *slip* is a wrong variant of the
definition after it. Putting it in that one's place must break the property
named with it under `mutants` in `PROJECT.json`; this shows the property speaks
about the code.

### CoreManager

`hardware` and `plugins` are the two tables, as functions to a configuration or
`Absent`. `links` is the table of links; a link's id is made of the four fields
of its configuration (`links.js:5-7`), so configurations stand for ids. `bound`
is what the closure of a link holds: for each end the kind of the object it
captured, `stale` once that object's component is destroyed. `netRepository`
says which kind published last under an id. `listeners` are the handlers of the
`connected` event; those of `attribute#...` come and go with the link and need no
variable. `data` is the cache, `file` the content of `data.json` or `Torn`, and
`saving` the point reached in `saveData`.

A request is one action up to its save, because Node does not interleave
synchronous code; the save is then `SaveOpen` (truncate), `SaveWrite`, or
`SaveFails` at either point, and `Crash` may come between any two of them. A
request the code rejects changes nothing: its tests are the action's guard.
`Boot` is `initialize()`: hardware, then plugins, then links, possible only if
the file parses and no link lacks an end.

Abstractions: a configuration is one value beside the id; plugin types are all
known (an unknown one throws before anything changes; `PluginTypes` has those that are
not); the reading requests
change nothing. `terminate()` runs in the exit handler and touches memory only, so
it is part of `Crash`. (It hands whole entries to `destroy`, which expects ids, so
it destroys the links only; nothing outlives the process to notice.)

### DesignerApply

Each browser goes `edit`, `reading` (the GETs of `data()`, in any order),
`confirm` (the merge is shown), `apply` (`async.series`), and ends `done`,
`refused` (a request got a 500 from the core's checks) or `failed` (the core could
not save, or did not answer). `Merge` is `doMerge` with the two tests it really
makes; `Series` is the object of requests with its keys and order, including the
collision of a plugin and a hardware of the same id. The order inside one group
(the order of an array) is left free. `Perform` is the core's handler, so every
step of the core here is a step of `CoreManager`. `disturbed` observes the browsers whose last
save was crossed by another's request or by a fault of the core.

### HardwareMirror

`objects`, `channels`, `watcher` and `online` are the variables of `loadWatcher`
(`core/netobject.js:221-286`); all hardware is on one channel (`core/hardware.js:13`),
so the count of channels is one number. `mirror` is what the published objects
hold; the attributes of a component are one value. `inbox` is what the server
sent and the watcher has not handled, in order; a lost connection (`Drop`) loses
any tail of it and ends it with `closed`. One action per event that the watcher
subscribes to (343-403), one per operation of a component (`daemon/net_repository.c`:
`Connect` is `local_register`, `Join` is `local_event_connect`, `SetAttribute` is
`local_make_nick`, `Quit` is `local_unregister` or the end of the daemon), and the
server's `Register`, `ServerJoin`, `Kick`.

External, modelled from their use: the irc client library and the server. The
library reconnects only after the end of the last connection was handled. Two
readings of its `names` event are in the code, an array (`netobject.js:366`) and an
object keyed by nick (`ui/gateway.js:94`); `NamesGivesArray` chooses. Not modelled:
`send`; a kick of the watcher itself; two components with one id; a value the
object's type refuses.

### CompMpd

The daemon has one thread, so `pc` is where it is: in `select`, in the component's
listener (`io`, `read`, `arm`: `daemon/comp_mpd.c:229-254`), in the listener of its IRC
session (`irc`), or in an action (`noidle`, `run`, `rearm`, `publish`: 160-209). MPD,
its other clients and SIGTERM act between any two of these. `fields` is the state
and volume kept in `struct component`, of any value at first because `malloc` leaves
them so; `attribute` is what is published. `server`, `changes` and `answer` are MPD's
side of the connection, external, from the calls of its library: idle, ready or
gone, what changed since it last told, and an answer not yet read. MPD may be `Gone` at
any point, with that answer or without it: the connection is opened once, and the
next request fails an assertion (`Lose`; idle may still be sent, since nobody waits
for what becomes of it). The daemon ends `stopped` (its destructor), `fatal`
(`log_fatal`) or `lost` (an assertion).

`missed` observes, and guides nothing: the fields whose news `noidle` threw away or
the connection took with it, or whose order MPD accepted without effect. About these
the component may be wrong until the next change; about all others it is right.

Not modelled: MPD refusing an order, on which an assertion ends the daemon; other
components of the same loop.

### GpioComponents

`pc` is the point of `components_init`, `loop_run`, `components_terminate` and
`gpio_terminate`, and `i` the component at hand: creation and destruction go one by
one, and inputs change, or the process dies, between any two. `Create` is the
constructor up to the pin, `Configure` the rest of it; what a configuration cannot
have (a pin twice, an unknown pin, an id twice) ends the process where the code
ends it (`Refused`), with the pins of the components before it as they are.
`gpios`, `refcount`, `monitors` and `shared` are the static variables of
`gpio_manager.c`, `gpio_io.c` and `comp_rcswitch.c`; `kernel` is `/sys/class/gpio`
(external), which outlives the process. A `Poll` is the part of a turn of the loop
that serves one file.

The text of a file ends with a newline. `gpio_io.c:96-97` compares it with "out" and "1",
without one (`read_value`, `sysfs_utils.c:96-109`, keeps it), so `IoOpen` takes every pin for an
input that is off, and asks for its edges. What follows: an input publishes off
first, and its level when the loop has read the file that was just opened; a pin
that an earlier process left an output, and that is now wanted as gpioin, is taken
for an input already, so `gpio_io.c:166` changes nothing, and it stays driven and tells
no edges. `reopened` observes the pins that were exported before they were opened. Of
the kernel it is assumed that it refuses edges for an output, lets a pin with edges
become an output (newer ones may refuse that, and the assertion on it would end
the daemon), and makes a pin an input when it is unexported.

Not modelled: the command of rcswitch; kernel files that cannot be opened;
`gpio_pwm.c`, which no component uses.

### MusicLoop

`music`, `waiting` and `next` are the plugin's attribute and the closure of its
delay (`core/plugins/music.js:30-59`); `player` is the daemon's component, `orders` and
`news` the messages between them, in order. Users `Press`, or switch a state by
the plugin's own actions; other clients of MPD change the player; its host leaves
and returns.

Time is only compared with the five seconds of the delay: a message is `old` if it,
or what it answers, was under way when the delay began, and the delay ends after
the old ones have arrived. That is the assumption on the network, and it is what
`music.js:40` says the delay is for. The volume is a second copy of the same code.

### NetBus

`value` is what the objects of `netobject.js` hold, `nick` what the last `NICK` of a
plugin said, `orders` what was last sent to a hardware. `stack` is what is left to
do for the event at hand: a `setAttribute` not begun, one that emits with the last
of its listeners that was called (`at`), the nick not yet sent. `RunLink` is the handler of `links.js:21-26` with the
`executeAction` it calls and the handler of the plugin behind it, up to its first
`setAttribute`; `Effects` lists those. A relay reads its attribute when it is asked,
which is why the effects are computed then and not with the event.

A stack deeper than `MaxDepth` throws, as a JavaScript stack does at some depth.
What throws in a message of a user is caught (`netobject.js:194-198`), elsewhere it
ends the core: the irc client library calls its listeners without a net (external),
and `Restart` follows. Attributes are booleans; values of a range and a type's
refusals are not modelled. Links to come and go are `CoreManager`'s.

### UiGateway

`present` is the channel; `inbox` what the irc server sent the gateway's own client,
`wire` what the gateway emitted to the browser, both in order; a loss of either
connection loses any tail of it. `net` and `connected` are those of
`ui/public/app/net.js`, where `net` of an id is its list of attributes, or `Absent`.
The gateway's own nick is on the channel too and is shown as a component without
attributes (`Self`). Each socket has an irc client of its own (`ui/main.js:19-21`), and a
socket may open while the client of the one before is still there, because the
server was not told: `gateway` and `inbox` are those of the last socket, and what an
older client emits is lost. The nicks of older and of other browsers' gateways, which
have no attributes either, are left out.

External, modelled from their use: the irc client (it joins, connects again, emits
`close`), socket.io (it connects again and tells both ends). `doubled` observes the
ids that had two nicks, as a component has that returns before the server
noticed its departure; `net` has one entry for an id, and of these the departure of
the old one hides the new one.

### InputManager

`lastDown`, `eventStack` and `endWait` are the variables of `uihelper.js:182-184`; `mouse`
is where the button went down, since an element is told of a press only while the
mouse is on it. The 300 ms of the wait and the next press come in either order; a
press is short or long as it likes. `executed` records what `executeEvents` was
called with.

### UiClient

The button of `InputManager` beside the gateway of `UiGateway`, and what joins them:
the button is there only while the browser is connected (`index.html:34`, `Mouse`), and
what it executes, if bound (`index.html:37`), is emitted by `net.action`. An action is the
number of its execution. `sent` are the actions on each socket so far, `kept` those
that socket.io holds because the socket was closed, `heard` those said on the channel
by `gateway.js:54-57`, with the socket they came from. `SocketFails` loses any number of
those emitted last; a message that reaches a gateway which has not joined is said to
nobody (`OnMsg`). The gateway of an older socket handles what it still has at any time,
joined or not, so that an action may be overtaken by one of a later socket, and
`SaidOnce` says by no other.

The two modules are checked here and not alone: their properties (`Shown`,
`DarkWhenDisconnected`, `Recovers`; `AsMade`, `NoneForgotten`) hold of the whole, and
`ClientRefinesGateway` shows that the rest of the browser leaves the gateway's
behaviour as it was. `owed` observes the actions that nothing stood in the way of.

### PluginTypes

`file` is the directory of plugins: of each type nothing, one of two contents that
load, or a file that does not, `Cut` when it cannot be parsed and `Wrong` when its `init`
throws. The difference matters: node keeps a module that was parsed, so a repaired
file is read only by a new process (`stuck`). `made` and `table` are `pluginTypes`, made
by the first use (`Checked`) and filled in the order of the directory as far as
the first file that throws (`Refreshed`). `Register` is the upload; it may fail in the
middle of the write, or the process may end there. `Boot` is the part of `initialize`
that creates plugins. Files are also put there by hand, in the place of none or of a
broken one (`Deploy`, external); removing or replacing a good one by hand is not
modelled.

`deployed` observes that a file was put there by hand and not refreshed since.

### UiStore

`uiFile` and `uiMem` are `ui.json` and `uiData` (`core/data.js:43-57`, 110-118): the copy is replaced
before the file is written, and stays replaced if the write fails. The designer's
server (`designer/uiManager.js`) and the ui's (`ui/structure.js`) look at an error of the
request and not at its status, so that a failed save is told as done
(`DesignerSaveFails`) and a 500 to a GET, which is not JSON, ends the server in a
callback (`Dies`). `page` is the screen being made of three answers
(`structure.js:22-32`), which come in any order with other requests between them.

A structure is the set of components it displays, each the only plugin of its type.
`held` and `failed` observe the last save that was told done, and if it was written;
`page.began` and `page.whole` the plugins when the page was asked, and that the core
did not end since.

Not modelled: two pages at once, which share nothing; icons and layout; a `ui.json`
edited by hand.

### DaemonMain

`file` is the pid file, `process` what each pid is for the host, `shell` the command
each user runs and the pid it has read. A command reads the file (`ReadPid`) and acts
on it later; a daemon is `forked` when its command ends, then `writing`, `init`,
`loop`, `ending`. It may fail at any point; its pid may be given to a stranger. A
SIGTERM before the handler is installed (`main.c:153`) ends it at once.

Not modelled: `interactive`, which neither reads nor writes the file; a `kill` that
is refused for want of rights; `daemon()` failing.

## Runs

| run | instance | shows |
| --- | --- | --- |
| `core` | two hardware and two plugins, of which one each share an id, links hardware to plugin, plugin to plugin, plugin to hardware, where the shared id may be either | `LinkEndsAlive`, `DiskBootable`, refinement of `HomeGraph` (`KeepsPromise`) |
| `core_listeners` | as `core` | finding: handlers that survive their link (`NoHandlerReachesRemoved`) |
| `designer` | two browsers, a hardware linked to a plugin and the same with the hardware elsewhere on the screen, one fault of the core | `DoneIsDrawn`; `ApplyEnds`: every series ends |
| `designer_missed` | one browser, every consistent schema of a hardware, a plugin, two configurations and a link each way | finding: kept links that are not made again (`ReferencedRemade`) |
| `mirror` | two components, two values, eight moves of users, hosts and network; `names` as an array | `DarkWhenOffline`, `Listening`, `CaughtUp` |
| `mpd` | two states, two volumes, five moves (orders, other clients, a signal, the end of MPD) | `TakesTurns`, `PublishedIsBelieved`, `RightIfToldAll`, `Heard` |
| `gpio` | three components, two pins, six configurations of which three are refused half way, nine moves (levels, actions, starts, crashes) | `BooksBalance`, `EndsClean`, `OutputsTrue`, `EdgesKept` |
| `music` | three states, four moves of users, clients and host | `NoFlood`, `AskedIsDone`, `AgreeAtRest`, `Converges` |
| `netbus` | a hardware, a hub, a switch, a relay, a button, every one or two links, three events | `NickIsValue`, `LinksTold`, `StackIsSmall`, `SafeIfAcyclic` |
| `ui` | one component with two values, four moves of component and networks or presses of the button | `Shown`, `DarkWhenDisconnected`, `SaidOnce`, `Recovers`, `AsMade`, `NoneForgotten` |
| `stores` | two types, two contents of a file, two structures, four uploads, saves that fail, files by hand and crashes | `RestartKeepsTypes`, `Complete`, `SavedIsServed`, `Indexed`, `DiesByFile` |
| `daemon_main` | two shells, three pids, five commands | `OneDaemon`, `Recorded` |

What a proof establishes for all constants is not run again on other instances:
several configurations of a component in `core`, several browsers (`SavesKeepLinksAlive`, `SavesKeepBootable`), the inductive
invariants themselves, and the type invariants (below).

Bounds. Three links cover each combination of kinds at the ends that the code can
treat differently, and a chain. The graph of the core needs no second configuration,
which tells nothing but that a component was changed; in `DesignerApply`, where a change is what
a save is made of, there are two. Only `MaxFaults` bounds a behaviour, in `DesignerApply`.
In `designer` one fault leaves a save half done and two browsers cross, so that a later save
starts from what neither drew; the link there is one that is made again. The plugin is never
moved, which would be too many states; `SavedIsDrawn` is for every pair of graphs.
Deadlock is not checked in the core runs: a core that died inside a save cannot
boot again, the system stops there.
In `HardwareMirror` `MaxMoves` bounds what users, hosts and the network do; eight
are enough to publish two objects, connect a component, change it, lose the
connection, change or remove it meanwhile and come back. The proofs need no
bound. Deadlock is not checked there: nothing need happen.
In `CompMpd` five moves allow an order that crosses a change by another client, a
second change before idle is asked again, a signal, and the end of MPD. Deadlock is not checked: a
daemon that ended does nothing.

`GpioComponents` needs a start, a crash, a second start with another configuration
and an input that moves across them: nine moves allow that, and actions before and after it. In
`MusicLoop` four moves are a user and a client whose values cross, and a departure
with its return; `LoopDoesNotFlood` needs no bound. In `NetBus` two links make every cycle of one or two plugins, every
chain that ends in a relay, and two links from or to the same place; a third event shows what
the second left. The stack bound of 16 is above the 14 frames that four plugins
need at most (`CallsAreFew`), so that `StackIsSmall` is not true for want of room, and a
cycle still overflows it. `UiClient` bounds moves and presses together: four are
both connections lost and the component changed meanwhile, two inputs of two
presses, one with a stray press on each side, or two presses across a loss of the
socket; ids do not influence each other, so one is enough. `UiStore` needs an upload
that is cut short, a save that fails, a crash and a repair: four writes; saves that
succeed and requests that read are free. Two types give a file before the broken one
and a file after it. Five commands are two starts with a stop between them, and two
more that cross.
`MaxMoves`, `MaxPresses` (here `MaxMoves`), `MaxWrites` and `MaxCommands` bound the
environment only, never the code. Deadlock is not checked in these runs: at rest nothing need happen.
`SYMMETRY` is used in `daemon_main` only, whose properties are invariants and whose
shells and pids are interchangeable.

Fairness (`FairSpec` of `CompMpd`). The daemon's thread runs on and MPD answers an
idle for which it has news, while it is there: weak fairness of each. The end of MPD,
signals, orders and other clients owe nothing.

Fairness (`FairDSpec`). The core answers a request it began (weak fairness of the
save), and serves those that wait in order of arrival in one event loop, so a
request cannot be passed over for ever (strong fairness of each saver). Users and
faults owe nothing.

Fairness of the others. `MusicLoop`: messages arrive and are handled, and a
`setTimeout` ends. `UiClient` (`FairCSpec`): events and actions that arrived are handled, `$timeout`
ends, and the libraries connect again, as they are configured to; losses are bounded
by `MaxMoves`, so `Recovers` speaks of networks that are up in the end. The irc client
and the socket of the gateway are served in order of arrival, each of them fair.

### Findings

* `links.js:35` removes one of the two listeners registered at 28-29. A removed link
  goes on driving its destination each time its hardware source connects, even when
  the destination has been removed after the check of `manager.js:92`, "on regarde s'il
  n'est pas utilise dans des liens". Run `core_listeners`.
* `componentManager.js:75-93` tests source in destroyed hardware and destination
  in destroyed plugins, twice, where the comment at 62-63 says that links which the
  deletions refer to, and which are not to be deleted, are deleted and made again.
  A kept link that starts at a plugin, or ends at a hardware, that is moved is left in
  the way, and the save stops half way. Run `designer_missed` (`ReferencedRemade`); that
  a save that nothing crosses is refused for no other reason is proved (`RefusedOnlyIfMissed`).

### Met while modelling

Seen in the code, in the models where they are part of them, and checked by no run:

* `comp_mpd.c:79` declares `setstate` with a type that holds "unknown"; the handler
  exits the daemon on it (173; `Order`).
* `gpio_io.c:96-97` compares the text of the kernel's files with its newline (`IoOpen`); 273,
  where the same comparison was replaced by one of the first character, does not.
* `sysfs_utils.c:32-35` asserts "ensure not already opened", on a path without the `gpio`
  prefix the kernel uses: the assertion never fires, and after a crash a pin is opened
  again (`Export`, `reopened`).
* `loop.c:169-170` calls an interrupted `select` no error and makes it 0 ready descriptors,
  but leaves the sets full. The music player then tells its library of an error on a good
  connection, and the daemon that was asked to end does so by an assertion, not by its
  destructors (`Interrupted`).
* `comp_mpd.c:252`: a daemon whose MPD ends is ended by the assertion on the next request;
  the connection is not opened again (`Gone`, `Lose`).
* `manager.js:12-24`: at boot plugins are published after hardware, whatever the order in
  which they were added: the links of an id that both have move to the plugin.
* `netobject.js:110-112` refuses an action without arguments when a link runs it with
  one, as every link does; `schemaHelper.js:187-188` accepts such a link. Its first
  value ends the core (`RunLink`, `Throw`).
* `loop.c:218` keeps the date of a timer's next run in the copy made for one turn, and
  279 does not carry a million of microseconds exactly. Nothing registers a timer.
* `net.js:96` emits on a socket that may be closed: socket.io keeps the action and it is
  said when the connection comes back, late (`kept`, `SocketOpens`). A button can be
  pressed until the browser knows, and its wait runs on.
* `ui/main.js:20` makes a gateway for each socket, whatever becomes of the one before: what
  that one still has to say may be said after newer actions (`OnMsg`).
* `plugins.js:122-128`: when the table is not complete, an upload replaces a good file
  that was not loaded yet (`MayRegister`, `Register`). 128 writes before anything looks
  at the content: one file that does not load, and a core that has plugins does not
  boot until it is repaired by hand (`Boots`).
* `plugins.js:30`: node does not read a module again, so after an upload whose `init`
  throws a repaired file is refused until the core starts again (`stuck`).
* `uiManager.js:25` and `dataAccess.js:55` say "Enregistrement effectué" (saved) when the core
  answered 500; the structure is served until the core ends (`held`, `failed`).
* `uiManager.js:12`, 37, `componentManager.js:13` and `structure.js:17` parse any answer: a 500 to a GET
  ends the designer's server or the ui's (`Dies`).
* `structure.js:22-32`: a component added while a screen is made is displayed without the
  place of its attribute (`Indexed` excepts it, by `began`).
* `main.c:211` waits for a process that is not its child, so `stop` says "stopped" at
  once (`Stopped`).

Some properties leave a case out, in which the code does what one might not
expect and nothing in the repository says otherwise: overlapping starts give two
daemons (`OneDaemon`, `raced`); a returning component may be hidden by its own old
nick (`Shown`, `doubled`); a press that ends off the button is taken with the next
(`AsMade`, `crossed`); in a cycle of links the older value may be the last one told
(`LinksTold`, `Acyclic`); an input whose pin a process left as an output is deaf
(`EdgesKept`, `reopened`); what `noidle` throws away is not read (`RightIfToldAll`,
`missed`).

## Proofs

`CoreProofs` proves of `CoreManager`, for all constants, under `LinksAssumption` (a link names
two ids) and `MarkersAssumption` (the markers `Absent` and `Torn` are not data):

1. `TypeCorrect`;
2. `Inductive`: `IndInv` = typing, repository alive, link ends alive, cache is
   memory, file bootable. `DiskBootable` alone is not inductive: that a save
   writes a bootable graph needs live link ends, which needs a live repository
   when the link is made, and `CheckLink` when a component is removed.
   `CheckLink` compares ids where objects are captured, so the step for a removal
   shows that no binding of a running link changes (`ForgetUnused`);
3. `LinksStayAlive`, `AlwaysBootable` from it;
4. `CoreRefinesHomeGraph`: each request maps to a change of one component or link,
   `SaveOpen` to a loss, `SaveWrite` to a persist, `Crash` and `Boot` to stop and
   restart, `SaveFails` to a stutter.

`CoreProofs` proves of `DesignerApply`, for all browsers, drawn graphs and numbers of
faults, under those and `ClientsAssumption`, `TargetsAssumption`:

1. `PlansAreSound`: `PlanSound`. A request that waits is for a component or link that
   exists in the schema it was merged for, and that schema is not drawn again while
   requests wait. Without this a request might be one that no core receives;
2. `DesignerRefinesCore`: each step is a request of `CoreManager`, one of its saves,
   faults or boots, or nothing to it;
3. `SavesKeepLinksAlive`, `SavesKeepBootable`, from the theorems about the core;
4. `SavedIsDrawn` (`DoneIsDrawn`), of a save that nothing crosses, among any others, and ids
   that hardware and plugins do not share (`Apart`): between the answers what runs is, of
   each component and link, the old one while its destruction is asked for, none while
   its creation is, and else the one that was drawn (`Halfway`). That needs that
   requests are made in their turn (`Ordered`): when something is destroyed that is to
   be made again, the request that makes it is still there;
5. `RefusedForMissedLink` (`RefusedOnlyIfMissed`), under `Apart` too. A rejection is stated
   by `Accepts`, what the core carries out, and not by ENABLED (`RejectedUndone`: what it
   leaves out no action of the core performs). `RefusedInv` adds to
   `SavedIsDrawn`'s invariant that a component that runs is published as what it
   is, and that a drawn graph has both ends of its links. A creation is then never
   refused, and a removal only for a link that neither the series destroys nor the
   drawn graph lets go.

`HardwareMirrorProofs` proves for all hardware, values and moves, under
`MirrorAssumption` (`Null` is not a value, finitely many components):

1. `MirrorInductive`: `MirrorInv`. `DarkWhenOffline` and `CaughtUp` speak of now, and
   a handler acts on a message sent before; the strengthening says what the inbox
   may hold. `InOrder`: messages of the channel are handled on line, `registered`
   comes first and `closed` last. `TrueAtLast`: the last message about a component,
   or the mirror if there is none, is true of it now. `Counted`: the channel's
   count is the number of objects;
2. `OfflineIsDark`, `AlwaysListening`, `NoGhosts` from it.

`DaemonProofs` proves of `CompMpd`, for all states, volumes and moves, under `MpdAssumption`
(`Unknown` is not a state, `Null` is no value):

1. `MpdInductive`: `MpdInv`. `RightIfToldAll` speaks of the points where the daemon
   waits; `BelievesOrKnows` says the same of every point, where between an order
   and its publication the order stands for the field. It needs `TakesTurns`,
   since an answer is what ends idle, and `OrderKnown`;
2. `TurnsTaken`, `AlwaysHears` (where the daemon waits, MPD is idle, has answered or is
   gone), `ToldIsRight`, `NeverAhead` (what is published is believed) from it.

`DaemonProofs` proves of `DaemonMain`, for all shells, pids and numbers of commands, under
`MainAssumption` (`NoPid` is no pid):

1. `MainInductive`: `MainInv`. `OneDaemon` holds since a start finds the pid of the
   daemon in the file; that it still does when it acts on what it read needs
   `OneStart`: while a start is open no other is, no daemon is between its fork and
   its pid, and the pid read is the one in the file. `Recorded` says that the file
   has the pid of the daemon that runs. All of it is under `~raced`;
2. `OnlyOne`, `CanBeStopped` from it.

`GpioProofs` proves for all pins, configurations and moves, under `GpioAssumption`
(finitely many pins; the markers, and the id of no component, are no pins or levels):

1. `GpioInductive`: `GpioInv` = `Typed`, `Held`, `Counted`. That the counts agree is not
   inductive: that closing a component's pin takes one from the count, and takes
   nobody else's pin, needs `Held` (each component alive has its pin open and to
   itself, each open pin has its component, the pin of rcswitch is open as long as
   it is used). Components alive are counted by their places in the configuration,
   and `SwitchesAlive` shows that these are as many as the components;
2. `BooksAgree`, `NothingLeft` from it;
3. `ToldInductive`: `Told`, with `Exported` (a pin that is open is exported, and one that is
   not exported is not driven, so that a pin that is found driven was left so by an
   earlier process). While a configuration is set up, `OutputsTrue` and `EdgesKept` speak of
   nobody yet. `Told` says of each component that is set up already that an output
   publishes what it drives, and that an input publishes what its pin has or will be
   called, of a pin whose edges the kernel tells or that was left an output (`Fed`); of a
   pin that is opened and not set up, that it is taken for an input and will be read
   (`Opened`); and of who is called when a pin is read, that it is the input that was set
   up on it (`Listened`);
4. `OutputsAreTrue`, `NoEdgeLost` from it: in the loop every component is set up.

`UiClientProofs` proves for all components, values and moves, under `UiAssumption`
(finitely many ids and values, markers that are neither):

1. `ClientRefinesGateway`: each step of the browser as a whole is one of `UiGateway` or
   nothing to it, so that what is proved of the gateway holds of the whole;
2. `ShownInductive`: `ShownInv`, with what messages carry, and from it
   `DisconnectedIsDark`;
3. `ComingInductive`: `ComingInv`. Before all is delivered nothing can be said of what a
   browser shows but what it will: while both connections hold there is, for each id
   with one nick, a path of values along the messages on the wire and then those the
   gateway has, from what is shown to what is on the channel (`Coming`). The path
   begins at what is shown, or at a message on the wire that empties the browser.
   While a connection is not there yet, the last thing on its way is one that
   empties it (`Empties`), and an old socket's messages are all before it;
4. `ChannelShown` (`Shown`) from it: with nothing on its way the path is a point;
5. `RestIsConnected`: then a browser whose socket is open and whose gateway has joined is
   connected too, which `Recovers` rests on. `ReachesInv`: while both connections hold,
   the gateway's own join is still to be handled, or else the browser is connected
   when it has received what is on the wire (`Reaches`). It needs that no loss of
   the earlier irc connection is left among what the server sent;
6. `PressesExecuted` (`AsMade`): `GatheredInv` says that until a press crosses, what is
   gathered is what was pressed; `GatheredEnds`, which `NoneForgotten` rests on: until then,
   when something is gathered and no press goes on, the end of the input is pending;
7. `ActionsSaid` (`SaidOnce`): `SaidInv`. Actions are numbered as they are executed: those on
   a socket rise, are below those of the next socket, and these below what is kept
   (`Numbered`). Whatever is still on a socket is above what was heard from it or an
   older one, and below what was heard from a newer one (`Ordered`): so nothing is said
   twice, and only the newer socket overtakes. Nothing is kept while the socket is
   open, and what is owed is on it or was heard (`Owing`).

`UiStoreProofs` proves for all types, contents, structures and numbers of writes, under
`PluginTypesAssumption` (types are ordered as naturals, markers are no contents) and
`StructuresAssumption`:

1. `TypesInductive`: `TypesInv`. `RestartKeepsTypes` needs `LoadedIsFile` (a type that is
   loaded is loaded from its file: an upload writes only what the table does not
   have) and `NothingLoaded`;
2. `TableCompletes`: a refresh that nothing stops leaves nothing out (`RefreshedAll`);
   at its first use the table is made of the files as they are;
3. `ServesSaved`: `SavedInv`; `ServersOutlive` (`DiesByFile`);
4. `ScreensIndexed`: `PageInv`. The types of the components there when the page was
   asked are loaded, and while the core runs nothing loaded is lost
   (`LoadedStays`), so that they are among the types whenever these are read.

`MusicLoopProofs` proves for all states and moves, under `MusicAssumption` (`Play` is not
`Pause`, `Null` is no state):

1. `MusicInductive`: `FloodInv` and `AskedInv`. `NoFlood` counts the orders sent; the
   strengthening adds those that will still be sent if nobody moves (`Pending`): one
   for the delay that runs, one more if anything under way is not `old`, since it
   begins another delay, and one if no delay runs but the player will be heard of.
   What is counted is what begins a delay: a new value of the player, or an
   order that gives it one (`Echoes`). `LastTold` (the last word of the player is what it is) is
   needed there: news that repeat the value that is known begin nothing;
2. `LoopDoesNotFlood` (`NoFlood`), `AskedIsObeyed` (`AskedIsDone`) from it. A state asked for and
   crossed by nothing is what the plugin, the delay, every order and all news say
   (`AskedInv`);
3. `RestIsAgreement` (`AgreeAtRest`). `AgreeInv`: the last order under way is what the plugin
   holds, and a plugin that nothing is going to change holds a state, the one of
   its player when no order is under way;
4. `LoopRunsDry`: while nobody moves, each step makes less of `LeftToDo`, in which an order
   still to be sent weighs three (it is sent, it arrives, it may be answered), one that
   was sent two and news one. What may still be sent is bounded by `NoFlood`, so the
   measure is a natural number. With `RestIsAgreement` this is all that `Converges`
   says but that the steps left are taken, which is fairness, and TLC's.

`NetBusProofs` proves for all links, plugins and numbers of events, under
`BusAssumption` (finitely many plugins, hardware and plugins share no id, links
call actions that exist):

1. `BusInductive`: `NickInv`. `NickIsValue` speaks of rest; in between the nick of each plugin is
   its value, or a frame that announces it is on the stack (`NickOrWill`);
2. `NicksAreValues` from it, cycles or not;
3. `GraphInductive`: `GraphInv`, for each way to rank the plugins such that links go up,
   which is what `Acyclic` says there is. `ToldOrWill` (the last word of a link is the
   value of its source, or an event that has not reached the link is on the
   stack) is not inductive, since that event carries the value it began with.
   `Fresh` says that this is still the value; it needs `Nested`, that what is
   above an event is about components of higher rank, so that nothing above can
   set its source. `Shallow` gives each frame its height: a rank leaves at most
   three frames;
4. `LinksAreTold` (`LinksTold`), `CallsAreFew` (`StackIsSmall`) from it;
5. `AcyclicIsSafe` (`SafeIfAcyclic`), if `MaxDepth` is at least what `CallsAreFew` bounds. The
   hypothesis is no more than that the stack has room for a graph without a
   cycle: three calls per plugin, of which a home has some dozens, where a
   JavaScript stack is thousands deep.

The type invariants are theorems of every module with proofs: `TypeCorrect`, `DesignerTypes`,
`MirrorTypes`, `MpdTypes`, `MainTypes`, `GpioTypes`, `GatewayTypes`, `TableTypes`, `MusicTypes`,
`BusTypes`.

Only model-checked: the liveness properties (`ApplyEnds`, `Heard`, `Converges`, `Recovers`,
`NoneForgotten`), which are out of the prover's reach, and `NoHandlerReachesRemoved`
and `ReferencedRemade`, which the code violates. What three of them rest on and is no liveness is proved: `LoopRunsDry`,
`RestIsConnected`, `GatheredEnds`. Every invariant of a passing run is a theorem.

## Not modelled, and what is left

Left, in the order of what it would add:

1. What the other liveness properties rest on and can be proved: that each answer of a
   core makes less of what is left of a save (`ApplyEnds`).
2. The type checks of core (`netobject.js:79-127`), daemon and designer against each
   other: ranges, and the word null of a value not set (`net_repository.c:491`).
3. `send` of the watcher and the actions of `net_repository.c`, so that `NetBus` and
   `HardwareMirror` meet in one module.
4. `list.c` as a refinement of a sequence, and the copy of it that a turn of the loop
   works on.

Not planned: configuration parsing, logging and the export page of the daemon,
which keep no state of their own; the pwm driver and the test component, which no
configuration of the system uses; screen code of designer and ui; vendored libraries;
the archived programs.
