# Verification of the MonsGeek Linux driver

TLA+ specifications of the programs in this repository, small instances of them
for TLC, and proofs for TLAPS.  Paths below are relative to the repository
(`crates/...` is `src/crates/...` in `PROJECT.json`).

1. [The system](#1-the-system): components, state, interactions, what is hard
2. [The modules](#2-the-modules) and how they correspond to the code
3. [The runs](#3-the-runs): questions, bounds, fairness
4. [The proofs](#4-the-proofs): assumptions and inductive invariants
5. [Where the code and its documents disagree](#5-where-the-code-and-its-documents-disagree)
6. [What is not modelled](#6-what-is-not-modelled)
7. [Plan](#7-plan)

To repeat the checks: `tlc -config X.cfg M` for each row of section 3 and
`tlapm M.tla` for each module of section 4.

## 1. The system

Two programs share a USB keyboard.  **monsgeek-driver** is a gRPC bridge on
127.0.0.1:3814 for the vendor's web configurator and for **monsgeek-cli**: it
finds keyboards, opens control sessions (interface IF2) and forwards vendor
commands.  **monsgeek-inputd** reads the boot protocol reports of IF0, debounces
them and types on a virtual keyboard.  Both stand on **monsgeek-transport** (USB
sessions, one thread per session, flow control, discovery) and
**monsgeek-protocol** (command tables and policy, device definitions);
**monsgeek-firmware** is the update engine.

```
 web app, CLI --gRPC--> DriverService --handle--> transport thread --> flow control --> IF2
                        |      |  \                     |
                        |      |   firmware engine      hot-plug thread
                        |      discovery refreshes --> firmware id probe --> IF2
                        watch_dev_list streams
 vendor's server --> CLI (device list, target, frame, read; firmware version, validate, flash)
 systemd --> monsgeek-driver (takeover of the port)
 systemd --> monsgeek-inputd: supervisor --> workers --> InputProcessor --> IF0, IF1 / uinput
                                   active path files under /run
```

| Component (source) | State it keeps | Operations | What makes it correct |
|---|---|---|---|
| Driver service (`monsgeek-driver/src/service/mod.rs`, `device_registry.rs`) | `devices` (open handles by path), `path_registry` with its second index `by_bus_address`, `opening_paths`, `discovery_refreshing`, `synthetic_reads`, the broadcast of device events | `open_device`, `refresh_discovery`, the background loop, `watch_dev_list`, `shutdown`, the split send and read RPCs | one opener for a path; a working session is never replaced and holds IF2; the registry follows the bus and its index is exact; every RPC and every search for a keyboard comes to an end |
| Transport session (`monsgeek-transport/src/lib.rs`, `thread.rs`) | request channel, one answer channel per call, `running` flag, event channel | `send_*`, `query*`, `transport_loop`, the hot-plug poll, shutdown | calls are serialized, each is executed once and answered; a session that nobody holds ends with both threads |
| Command controller, flow control (`controller.rs`, `flow_control.rs`) | time of the last command, control transport | `send`, `query`, `query_raw`, `read`, the dongle's forward path | 100 ms between commands on every path; success means the command was sent; every operation ends |
| Command policy (`monsgeek-protocol/src/command_policy.rs`) | none | classify, evaluate, normalize | no write outside the keyboard's tables; no write is awaited |
| Device definitions (`monsgeek-protocol/src/registry.rs`, `device.rs`, `protocol.rs`; identification in `monsgeek-transport/src/discovery.rs`) | indices by id and by VID/PID, filled once | load, find, command table, `probe_device`'s decision | driver, discovery and CLI take the same keyboard for the same model |
| Command line client (`monsgeek-cli/src/client.rs`, `device_select.rs`, `commands.rs`) | the device list, the target, the plan of one command | connect, take the list, resolve a selector, build a frame, send, read | the keyboard named is the one addressed; a setting arrives with its arguments; reads are made exactly where an answer comes |
| Firmware commands (`commands.rs`, `monsgeek-firmware/src/vendor_api.rs`, `preflight.rs`) | the versions, the file under `firmware/downloads` | version, validate, flash | an approval is earned; validate foretells flash |
| Input processor (`monsgeek-transport/src/input.rs`) | tracked keys and modifiers, release times | `process_report_at`, `release_all_keys` | keys neither stick nor get lost; presses are debounced and carry the right modifiers |
| USB session (`usb.rs`) | claims, kernel drivers, protocol of each interface | open in two modes, recovery reset, drop | interfaces go back to the kernel |
| Input daemon (`monsgeek-inputd/src/daemon.rs`, transport `active_path.rs`) | workers by path, shutdown flags, files | look, stop stale workers, spawn, worker loop, stop | what is read is published; keyboards that stay are read; a stop gives them back |
| Firmware update (`service/firmware_update.rs`, `monsgeek-firmware`) | payload under /tmp, engine counters | one call of `upgradeOTAGATT` | success is earned; one retry; payload removed |
| Start and takeover (`monsgeek-driver/src/main.rs`, systemd unit) | the port, pids | bind, find listener, signal, wait, bind | only drivers that listen are stopped; one goes on serving |
| Firmware id probe (`discovery.rs`) | the last report | enumerate, identify | a probe never talks over a session |
| Not modelled | command schema, records, key-value store, configuration, uinput | | section 6 |

**What is hard.**  In the driver every table has a mutex of its own, no two are
held together, and USB calls happen between them: what an RPC or a refresh read
is stale when it is used, refreshes overlap (`watch_dev_list` runs one on the
spot, outside the compare-and-swap that guards the others), and the keyboard can
be replugged at any step.  A command and its answer are two RPCs, and what
relates them is only a count of answers to be made up.  The CLI works from a list
that is old by the time it uses it, with definitions it has loaded itself, and
names keyboards by port.  The channels are bounded
and the threads are ended by dropping handles.  Flow control is three nested
retry loops with their own sleeps and ways out.  The daemon shares a keyboard
with the kernel and, through resets, with the driver; it ends with its workers
still running and is started again.  Drivers that take over the port from each
other may be several.  `PROJECT.json` lists the main hazards line by line with the
properties that watch them.

## 2. The modules

Actions carry the names of the functions, or of the step of a function, they
model; `PROJECT.json` maps each definition to its lines.

| Module | Models | How |
|---|---|---|
| `DevicePathRegistry` | `device_registry.rs` | `Upsert` and `Sweep` (`mark_offline_missing_paths`) as operators on the record of both maps |
| `DriverService` | `service/mod.rs` sessions, discovery, streams, shutdown; the probe of `discovery.rs` | EXTENDS the registry. One action is one critical section or one USB call: an opener goes `FirstFind`, `Lookup`, `TakeSlot`, second find, `Connect`, `Insert`, `ReleaseSlot`; a refresh goes `Scan`, `Identify` or `OpenProbe`/`CloseProbe` for each keyboard, `UpsertFound`, `DropMoved`, `Notify`, `Sweep`, `DropOffline`, `NotifyOffline`, `RefreshDone`. `Plug` and `Unplug` are the user's |
| `DriverServiceProperties` | | types and properties of it, for runs and proofs alike |
| `DeviceListHistory` | what a subscriber of `watch_dev_list` is left with | EXTENDS the properties; a history variable records who missed an event, and how |
| `ReadPairing` | the split RPCs on one path | a command is its kind (query, write, blocked, rejected), an answer the number of the send it answers |
| `CommandService` | the promise of the transport thread | abstract: invoke, execute, return |
| `TransportThread` | `lib.rs` handles and channels, `transport_loop`, the hot-plug thread | implements `CommandService` (`INSTANCE ... WITH` in the module) |
| `FlowControl` | `controller.rs`, `flow_control.rs` | every sleep moves the clock, every transfer may fail; frames meant for a dongle go to the keyboard where there is none (`SetHelper`) |
| `DeviceDefinitions` | `registry.rs`, `device.rs`, the tables of `protocol.rs`, what `discovery.rs` makes of a firmware id | operators on a sequence of files, of which the last for an id counts; the fields of a definition may be missing |
| `CommandPolicy` | `command_policy.rs` | EXTENDS the definitions. Real command bytes of both families; a definition's fields may be missing, zero or small |
| `CommandLine` | `client.rs`, `device_select.rs`, `commands.rs`, `checksum.rs` | EXTENDS the policy, which judges each frame in the driver. `Connect`, `WatchDevListInit`, `Bootstrap`, `Resolve`, `Execute`; keyboards are replugged and rediscovered in between |
| `InputProcessor` | `input.rs` | a report is two sets; its four groups of events are steps |
| `UsbSession`, `InputDaemon` | `usb.rs` in mode InputOnly; `daemon.rs`, `active_path.rs`, the inputd unit file | the daemon EXTENDS the session: supervisor, one thread for each address, the driver's resets, systemd |
| `FirmwareUpdate` | `firmware_update.rs`, `engine.rs`, `preflight.rs` | one call, with the engine's second run on the state of the first |
| `FirmwareCommand` | the CLI's firmware commands, `vendor_api.rs`, `preflight.rs` | commands one after the other on one file; the keyboard and the vendor's offer change meanwhile, answers and downloads fail half way |
| `PortTakeover` | `main.rs`, the driver's unit file | several processes, `/proc` looked up in steps: the listeners on the port number at every address, then those of them that still listen, which are stopped one by one; `Other` is a program whose command line does not have the string `monsgeek-driver` in it (`main.rs:145`) |
| `MC*` | | instances for TLC; `MCCommandLine` and `MCFirmware` put two ways into the system in one run, one per behaviour: the web application's commands or the CLI's |

The components meet at named places.  A handle that `DriverService` calls a
session is the clone in `TransportThread`'s `table`; what an RPC does with it
between `Insert` and `Return` is a call there, which is one operation of
`FlowControl`.  The kinds of `ReadPairing` are the decisions of
`CommandPolicy`, and its clients that do not always read stand for the CLI; the
driver's side of `CommandLine` is a summary of `DriverService`: a registration
may be made, and may go off line, whenever discovery could do it.  `ReadsReport` of `InputDaemon` is a call of
`InputProcessor`.  The parts were kept apart where one uses only the promise of
the other, because their product says no more and is out of TLC's reach.

**Abstractions.**  A USB address names one enumeration of one keyboard (the
kernel counts addresses up and wraps after 127, which no bound here reaches), and
a driver session is named by the address it was opened at.  In `FlowControl`
transfers take no time, the worst case for spacing; `clock` is the time since the
last command and `rest` the time since the last frame of any kind that the keyboard
took, which on a wired keyboard includes those meant for a dongle.  `CommandPolicy` sends one command for each session, as
the policy has no memory; `fn_sys` is the larger of its two numbers.  In
`FirmwareUpdate` the names of the temporary files are unique, so calls are
independent, and `BridgeFirmwareIo` plays its five scenarios: no byte reaches a
keyboard at this commit.  In `FirmwareCommand` a version string is its parts, an
image is empty, cut or whole, and `flash` ends with the approval, as in the code.
In `CommandLine` one event waits for the CLI at a time: it reads none after the
one that ends its wait.  In `PortTakeover` time is two timeouts that may end in
either order, ended processes are reaped at once but for the case `stuck`, and
pids are not reused; a death by SIGTERM is a clean exit to systemd, one by SIGKILL is
not.  USB, the kernel, systemd and the clients are marked
external in the map and are modelled by what the code relies on.

## 3. The runs

Every run is exhaustive within its bounds.

| Run | Question | Instance, and why it is enough |
|---|---|---|
| `driver_sessions` (`DriverSessions.cfg`) | `OneOpenerPerPath`, `SessionHoldsClaim`, `WorkingSessionNotReplaced`, types | one port, two openers of two RPCs each, one replug, failing scans and queries, a background refresh that must query the firmware, SIGTERM at any point. Two openers suffice to exclude each other; the second RPC finds the session of the first or opens it again after a replug |
| `driver_discovery` (`DriverDiscovery.cfg`) | `IndexExact`, `OnlyGoneDevicesGoOffline`, `RegistryDoesNotGoBack`, `ListsConverge` | two ports, two addresses, one of a keyboard that must be asked for its firmware id, a background refresh and a subscriber's refresh that overlap in every way, shutdown; a history of the events each subscriber missed |
| `driver_liveness` (`DriverLiveness.cfg`) | `OpenReturns`, `NoDeadZone` | as the first, one RPC each, no shutdown; the keyboard comes back with ids that it shares with other models, so that the second time it must be asked |
| `driver_unplug` (`DriverUnplug.cfg`) | `UnplugIsStreamed` is violated | one port, one subscriber; section 5 |
| `transport_thread` | `SubmissionOrder`, `CallsAccountedFor`, `ServesCommands` (refinement with liveness), `SessionEnds` | three callers of two calls on a channel of two, so that callers block; an event channel of one, so that the hot-plug thread blocks |
| `pairing` (`Pairing.cfg`) | `LoneReadsArePaired`, `NoResponseLeftBehind` | two clients that always read, one that does not, three sends: one of each kind before the read that would go wrong |
| `flow_control` | `CommandsSpaced`, `SuccessMeansSent`, `OperationsReturn` | the code's own numbers of retries and sleeps, both transports, every failure; deadlock is checked |
| `input_processor` | `NoGhostKeys`, `HeldKeysAreDown`, `PressesAreClean` | a modifier, a letter, two codes with one keycode, one without; a window of 2 and a clock up to 3 give times inside, at and past the window |
| `input_daemon` | `ReadersArePublished`, `StopGivesBack`, `KeyboardsAreServed` | two keyboards, three addresses (one keyboard comes back), one fault or reset at any point, a threshold of two errors, SIGTERM, restarts |
| `firmware_update` | `SuccessIsEarned`, `RetryIsBounded`, `PayloadRemoved`, types; `FlashApprovalIsEarned`, `ValidateForetellsFlash` | every scenario, images of none to five chunks, a /tmp that fails; two commands in a row with every choice of flags, two versions of one keyboard and another model, offers that are newer, the same, unreadable, without a path, without a length |
| `command_policy` | `WritesInBounds`, `WritesAreNotAwaited`, `KeycodesAreWhereTheyBelong`; `TargetIsTheKeyboardNamed`, `SettingsArriveAsAsked`, `AnswersAreAwaited` | keyboards of both families with bounds missing, 0 and 2; each byte the policy tells apart; payloads of every length that matters, with values on both sides of each bound. For the CLI two ports, three times a keyboard plugged in, definitions of which two share a VID/PID, one has a second PID and one replaces an older file, every kind of selector and every command |
| `port_takeover` | `OnlyListenersAreStopped`, `TakeoverSettles`, types | the service of systemd with two restarts, two drivers started by hand, one of which cannot look into the others, another program on the port number, at 127.0.0.1, at another address, at both or at neither, which may leave |

Runs with `CHECK_DEADLOCK FALSE` are those whose system really stops: a clock, a
number of calls or of addresses is used up, or the daemon or the call has ended.

Each property has a mutant in `PROJECT.json`: a plausible bug of the code, such
as a guard left out, an order swapped or a reset forgotten, under which its run
finds the property violated.

**Fairness** is weak fairness of what the operating system and the runtime keep
going, and never of users, clients, cables or faults:

- driver: each task's next step (tokio polls a task that is ready; `spawn_blocking`
  threads run; mutexes are held for no wait), the timer of the background loop,
  the exit of a transport thread whose keyboard is gone;
- transport: both threads, a blocked call once there is room, and the drop of the
  handle when an RPC ends.  `DrainEvent` is fair: an owner that keeps the event
  receiver must drain it, the one thing `SessionEnds` asks of it; the driver drops
  the receiver at once;
- flow control and firmware update: the only thread that runs them;
- daemon: supervisor and worker threads, and systemd's restart of a daemon that
  failed (`Restart=on-failure`);
- takeover: runnable processes, delivery of signals, systemd's restart on failure.

Invariants of these runs do not depend on fairness.

## 4. The proofs

Each theorem holds for all values of the constants that satisfy the named
`ASSUME`s of its module.  They say no more than types, distinct names, capacities of
at least one, finitely many clients where they are counted, and three things about
the code's data:

- `PollsAssumption` (`FlowControl`): the poll cycles together take at least `DELAY`;
- `ClientAssumption` (`CommandLine`): requests are of the shapes the argument parser
  lets through, with bytes for arguments, and in each definition the bounds are
  numbers or left out (`Bounded`) and the bytes of the four settings differ from
  each other (`BytesApart`), without which the firmware could not tell them apart
  either;
- `PresentDevicesStayOnline` assumes `~FlakyProbes`: when enumeration fails the code
  takes the bus to be empty.  Its property is about the keyboards that their VID/PID
  identifies: one that must be asked for its firmware id may be held by a session,
  and is then taken off line while it is there (section 5).  That is what the code
  does, so there the property would be false and not just out of reach.

TLC evaluates the `ASSUME`s in the runs.

| Module | Theorem | Says |
|---|---|---|
| `DriverServiceProofs` | `TypeCorrect` | `[]TypeOK` |
| | `OpenerExclusion` | `[]OneOpenerPerPath` |
| | `SessionsHoldTheirClaim` | `[]SessionHoldsClaim` |
| | `WorkingSessionsStay` | `WorkingSessionNotReplaced` |
| | `IndexIsExact` | `[]IndexExact` |
| | `UpsertKeepsIndex`, `SweepKeepsIndex` | with reused addresses too, an entry of the index leads to a device online there |
| | `RegistryKeepsUp` | `RegistryDoesNotGoBack` |
| | `PresentDevicesStayOnline` | `OnlyGoneDevicesGoOffline`, where enumeration does not fail, whatever other keyboards must be asked for their ids |
| | `DeviceListsConverge` | `[]ListsConverge` |
| `ReadPairingProofs` | `ResponsesOwed`, `LoneClientPaired` | `[]NoResponseLeftBehind`, `[]LoneReadsArePaired` |
| `TransportThreadProofs` | `RequestsInOrder`, `CallsAreAccountedFor` | `[]SubmissionOrder`, `[]CallsAccountedFor` |
| | `ImplementsService` | `Spec => Service!Spec`, the safety part of the refinement |
| `FlowControlProofs` | `CommandsAreSpaced`, `SuccessIsSent` | `[]CommandsSpaced`, `[]SuccessMeansSent` |
| `InputProofs` | `KeysDoNotStick`, `ReportedKeysAreHeld`, `NoChatter` | `[]NoGhostKeys`, `[]HeldKeysAreDown`, `PressesAreClean` |
| | `ReadersPublished`, `StopIsClean` | `[]ReadersArePublished`, `[]StopGivesBack`, for any number of ports, addresses, faults and restarts |
| `CommandProofs` | `WritesStayInBounds`, `WritesAreWrites`, `KeycodesArePlaced` | `[]WritesInBounds`, `[]WritesAreNotAwaited`, `[]KeycodesAreWhereTheyBelong`, for the web application's commands and for the CLI's |
| | `TheTargetIsTheKeyboard`, `SettingsArrive`, `AnswersAwaited` | `[]TargetIsTheKeyboardNamed`, `[]SettingsArriveAsAsked`, `[]AnswersAreAwaited`, for the CLI's |
| `FirmwareProofs` | `UpdateTypeCorrect`, `OneRetry`, `SuccessIsEarnedAlways`, `PayloadIsRemoved` | `[]TypeOK`, `[]RetryIsBounded`, `[]SuccessIsEarned`, `[]PayloadRemoved`, for images of any length |
| | `ApprovalsAreEarned`, `ValidateIsRight` | `[]FlashApprovalIsEarned`, `[]ValidateForetellsFlash`, for any offers, keyboards and command lines and any number of commands |
| `PortTakeoverProofs` | `TakeoverTypeCorrect`, `ListenersOnly` | `[]TypeOK`, `[]OnlyListenersAreStopped`, for any number of drivers |

**Driver service.**  `TypeInv` adds to the types that a refresh's loop visits only
keyboards it has found (`UpsertsFound`), else an address of the registry could be
none.  `SlotInv`: a task between entering and leaving `opening_paths` finds its
path in it; exclusion follows, until shutdown has emptied the set.  `ClaimInv`
says why claims suffice: no address is used that was not given out (`Issued`), so
a new keyboard has no old session; a task holds a session only while it inserts
or uses it (`HeldInUse`); working sessions own IF2 (`SessionHoldsClaim`); and a
probe of a keyboard that is still there owns it too and is the only one
(`ProbeInv`).  `NothingToReplace` puts both together: a task about to insert holds
the claim, so the session in the table does not work.  The claim alone would not
suffice: without the guard a task that connected before a replug could put its dead
session in the place of the one another task opened after it.  `IndexInv` adds to `IndexExact` that an address is never seen in two ports
by anything that remembers one (`OnePort`), which is what makes refreshes that
overlap and lag behind harmless to the index.

**Discovery.**  A step that takes a device back to an address it had before needs a
refresh whose knowledge is older than the registry's.  `HistoryInv` shows that its
refresh was overlapped: addresses only grow (`Newest`), of two refreshes in flight
both are marked overlapped (`LoneInv`), and a refresh that is not marked has had the
registry to itself since its scan (`FreshInv`), so nobody has written what it does
not know.  For devices that are there `CompleteInv` adds that such a refresh has
scanned every keyboard that is where the registry says (`ScansAll`), that it has
found all of those that it need not ask when it comes to its sweep (`ProbesAll`),
and that a path on line has an address (`OnlineSomewhere`): of these keyboards the
sweep takes off line none that is still plugged in.

**Streams.**  The queue of a watcher keeps within its capacity and is empty unless
the watcher is streaming (`QueueInv`), and what a refresh that runs alone is about
to tell is true of the registry (`PendingTrue`).  `UpToDate` says what that means
for the list: the view of a watcher that missed nothing, after all that is queued
(`ShowsAfter`), has the registry's status of each path, or some refresh has an event
for that path yet to send.  When nothing is queued and no refresh is under way that
is `ListsConverge`.

**Pairing.**  `NoResponseLeftBehind` is inductive with the types: each decision
queues at most one response and leaves its client with a read to make.
`LoneInv` is `TypeOK`, `Fresh` (a client that has not used the path is idle)
and `Owed`: for a client that is alone, the queue holds exactly what its step
says.  An undelivered send (`open_device` failed, or the transfer of a query) has
queued nothing, so the read after it goes to the keyboard, and the queue is as
exact afterwards as before.

**Transport.**  `Inv`: types, `SubmissionOrder`, `Outstanding` (a waiting caller has
at most one request in the channel or at the thread, and then no answer yet), which
tells the refinement which abstract step each concrete one is, and `Accounted`
(which call each request and answer is of, and that the call of a caller without an
answer is on its way), which gives `CallsAccountedFor`.  It rests on three things
together: calls have no timeout, the thread goes on while a clone is left, and
`handle_command` answers whatever the outcome.  The map of the refinement takes a call as executed when the
thread has logged it and put the answer in its channel.

**Flow control.**  `Spacing`: at each step that sends a command the clock since
the last one has reached `DELAY`; in a poll cycle it grows with the cycles
(`Cap(ForwardWait + poll * PollDelay)`), and at the last one
`PollsAssumption`, `ForwardWait + PollRetries * PollDelay >= DELAY`, closes the
argument: the code's numbers are 30 + 15 * 20 >= 100, and a change that made
them too small would break the distance.  The controller's delay counts from the
return of an operation, so frames of two operations keep it whatever was sent last
(`last <= rest`); within one, `rest` equals `clock` until a frame for a dongle has
gone to a wired keyboard, which only a query does that has read an empty placeholder
(`Follows`).  `Sent`: an answer is read only after a
command of the operation arrived.

**Input processor.**  `Explained` (upper bound of what is down) and `Kept` (lower
bound) say what the virtual keyboard holds before each of the four groups of
events; `HeldBack` that a key not tracked is within its window; `Timed` that the
last release is not in the future.

**Input daemon.**  The hard case is a keyboard that comes back between two looks of
the supervisor, so that two workers could be at one path and the older one withdraw
what the newer published.  `WorkersInv` excludes it: until the daemon has stopped,
every thread is the one whose handle the supervisor has for its port
(`ThreadsOK`), and the supervisor spawns only for a path without a handle, so
there is one thread for each path; what a look has found are addresses of distinct
ports (`LookOK`).  For `StopGivesBack`, `KeysOwned` follows the
keys of each keyboard through claims, resets and drops: they are the kernel's, or of
the one session that took them from the kernel, has the keyboard open and will give
them back; the keyboards on which an open failed half way (`dropped`) are the
exception the code has.  `HandlesOK` says that a thread that has ended has closed
its session, and `Stop` waits for all of them.

**Takeover.**  `FoundInv`: a driver that has listened on the port never goes back to
a step before that while it lives (`Listened`), so all that a taker has among its
inodes and pids and is stopping (`Found`) stays something that may be stopped
although the port has changed hands since.

**Command policy.**  `PassedInv`: what the keyboard took is a command that passed
every check, rewritten, and its read is the policy's decision on that command.  It
holds after a command of any bytes for any keyboard with bounds (`SentPasses`), so
for the web application's (`PolicyInv`) and for the CLI's (`BothPass`): what the CLI
frames are bytes (`PlansAreBytes`), and the driver checks them by a definition of
the files, though not always by the one they were framed for.
`NormalizeKeeps` says that the rewriting touches bytes 10 and 11 only, so the
bytes the checks were about are those the firmware goes by.  The proof is for
commands of any bytes and length and definitions with any bounds; the command
bytes are the code's two tables.

**Command line.**  `ClientInv` relates the list, the target and the driver's
registration to the bus.  Addresses are not given out twice, so a target whose path
still has the address it had in the list has the keyboard it had; every entry of a
list is one the driver announced, and its id is that of the keyboard's firmware
(`EntryOK`, `Names`).  The catalogue keeps one definition for an id
(`CatalogueIds`), so id and VID/PID together leave one (`TheModel`), also where a
VID/PID belongs to several.  For `SettingsArriveAsAsked` the frame of each plan is
followed through the policy's rewriting (`NormalizeKeeps`) and the checksum, which
touch none of the bytes the firmware reads (macros excepted, section 5).

**Firmware.**  `EngineInv` says at each step of the engine what the bootloader
has taken: nothing before the first chunk, the chunks so far in order, the whole
image once at the end, and nothing again when a timeout brings a second attempt.
`SuccessInv` and `FileInv` follow it to the end of the stream.  `RetryInv` counts the
waits for the bootloader among the messages so far, at most one in each attempt.  `CommandInv`: a
verdict is what the code would say of the image, versions and answers it was
given on (`Judged`), so two verdicts on the same are the same.  That the version
read from an offer is a number or none needs the maximum of a finite set
(`MaxIsAnElement`), which exists because `<` on naturals is well-founded.

Every invariant and every action property of the passing runs is proved.  Only
model-checked: everything under fairness (`OpenReturns`, `NoDeadZone`,
`OperationsReturn`, `SessionEnds`, the liveness of `ServesCommands`,
`KeyboardsAreServed`, `TakeoverSettles`), which the prover cannot do.

## 5. Where the code and its documents disagree

Checked: **`UnplugIsStreamed`** (`driver_unplug`).  `.planning/ROADMAP.md:77` says
that plugging or unplugging "triggers a device list update in the web configurator
in real time".  The background loop refreshes only while no device is online
(`service/mod.rs:148`) and the driver drops the hot-plug events, so after an unplug
subscribers go on showing the keyboard until somebody subscribes anew.

Met while modelling, in the models where noted, and left out of the properties so
that they hold for what is right:

- a keyboard whose VID/PID is shared and that the driver has open cannot be
  queried by a refresh (`discovery.rs:247`).  The way there: a refresh queued by an
  old tick cannot claim IF2 while an RPC connects, so it finds nothing and sweeps
  the keyboard off line; then the RPC inserts its session, which keeps IF2, and
  every later refresh fails as the first did.  The path stays off line while a
  session to it works.  `NoDeadZone` excepts this and nothing else
  (`HiddenBySession`); without the exception TLC finds the above;
- two refreshes that overlap, an event sent between a snapshot and the subscription
  (`mod.rs:677`) and a full queue each leave a subscriber's list wrong until the
  next event for that path; `ListsConverge` says that nothing else does;
- `shutdown` drains the sessions once (`mod.rs:160`); an RPC still running may
  insert another after it (`Drain`, `Insert`); the process ends soon anyway;
- two clients on one path share its queue of empty responses (`mod.rs:515`), and
  the CLI, which does not read after a write, leaves one behind for its next query
  (`mod.rs:546`); hence `Alone` and `Careful` in the properties;
- a simple command of 11 bytes is not rewritten (`command_policy.rs:469`), and the
  zeros the transport pads it with complete the pattern that the rewriting is for;
  the web application's reset carries all four bytes (`command_policy.rs:465`), and
  `KeycodesAreWhereTheyBelong` speaks of such commands;
- `timing.rs:3` asks for 100 ms between HID commands.  When a `query_command` reads
  an empty placeholder from a wired keyboard, GET_CACHED_RESPONSE and
  GET_DONGLE_STATUS go to that keyboard too, 0 to 40 ms after each other, and the
  next attempt may follow the last of them at once (`flow_control.rs:273-307`).
  `CommandsSpaced` excepts these frames and that attempt; the commands themselves
  are 100 ms apart there as well, and so is whatever the next operation sends;
- a send whose `open_device` failed, or a query whose transfer failed, queues no
  response, so the read after it is answered by the keyboard with whatever it
  holds, an older command's answer included (`mod.rs:538`, `mod.rs:571-597`), though
  the pairing is meant for "clients that always call read after send"
  (`mod.rs:545`).  `LoneReadsArePaired` names both cases (`Undelivered`) and says
  that later reads are not displaced by them;
- the takeover stops the listeners on the port number one by one, at whatever address
  they listen, and gives up at the first that is no driver (`main.rs:143-172`).  With
  another program on, say, [::1]:3814 it may have stopped a driver before: that one
  ends with 0, which systemd does not restart, and nobody serves.
  `TakeoverSettles` excepts this where the one that gave up is not restarted either
  (`spoiled`);
- a drop attaches the kernel to IF0 and IF2, not to IF1, which the open detached
  (`usb.rs:559`); `StopGivesBack` speaks of IF0;
- an open falls back to any keyboard of the same ids (`usb.rs:168`), so with two of
  one model a worker may read the other's; the instance has two models;
- `macro set` puts its data right behind seven bytes of header
  (`monsgeek-cli/src/commands.rs:325`), where the checksum it asks for is written
  over the first of them (`checksum.rs:47`); `monsgeek-transport/tests/hardware.rs:947`
  has a placeholder there.  `SettingsArriveAsAsked` is about the other settings;
- the version comparison before a flash (`docs/firmware-update.md:27`) is left out
  when the vendor's version string yields none for usb, which the first part that
  does not come in a pair brings about, and with `--file`; the device id in the
  answer to the version query is never compared with the target's;
- without a Content-Length a download that was cut passes for a whole one
  (`vendor_api.rs:183`); `FlashApprovalIsEarned` excepts exactly that, by the answer
  the image at hand came with; a download with a length that was cut is never approved;
- the firmware stream says success, then 99 %, then success again
  (`firmware_update.rs:80`), against the order in `docs/firmware-update.md:59`;
- the daemon ends when its keyboard is unplugged (`daemon.rs:166`); it survives, as
  `PROJECT.md:38` asks, through systemd, which the model includes.

Lesser hazards, modelled but watched by no property because nothing is promised:
events are sent after the registry's lock is gone, so that two refreshes may send
theirs in the other order (`mod.rs:399`); a slow subscriber loses the oldest events
without being told (`mod.rs:688`); a sweep may drop a session opened since it looked
(`mod.rs:416`), which the next RPC opens again; a fire-and-forget command whose
transfer fails is sent again though it may have arrived (`flow_control.rs:536`); a
driver being taken over may be killed before its streams have drained
(`main.rs:161`); a payload that /tmp cannot hold leaves its part there
(`firmware_update.rs:232`); a byte the policy does not know counts as a query
(`command_policy.rs:180`).  In the CLI: a list that holds only keyboards off line
is not empty, so the wait for others is skipped (`client.rs:53`), and the wait ends
at the first of two keyboards, which is then the only one to choose from; a
keyboard exchanged after the list was taken gets a frame made for the one before
(`commands.rs:112`), which the driver judges by its own registration; an id that does not
name the PID shown is resolved to the first of a hash map (`device_select.rs:235`);
`led set` wraps a speed above 4; `poll` sends 0x03 and 0x83 to keyboards whose
table has neither; no backup is ever attempted, so `--allow-backup-failure` has no
effect.

## 6. What is not modelled

- Code that no program calls: `command_schema.rs`, `bounds.rs`, whose checks only tests use (the driver's
  are in `command_policy.rs`), `find_by_vid_pid`, `build_ble_command`, the transport's mode
  UserspaceInput with `pump_input`, `open_matching_session` and `recover`.
- Code without a decision that a property could be about: the key-value store (one
  mutex, one critical section for each RPC), RPCs that return constants, the fields
  of records and definitions nobody reads, parsing of arguments and configuration
  files, printing, the ioctls of uinput.
- Left for later: the probe's report and the order in which it tries keyboards,
  with the hints and the age limit of the active path files; what `shutdown` does
  to the read queue; the selectors, metrics and watchdog of the daemon; resets by
  a second program while the driver has a session.

## 7. Plan

Done first, because it is the core: sessions and discovery of the driver, pairing,
the transport thread, flow control; then the input path, the policy, updates and
takeover.

Then the clients: the CLI's device list, target, commands and firmware commands
with the definitions they stand on; keyboards that share a VID/PID; a subscriber's
list against the registry.

Next, extend:

1. the probe's report, and the hints of the active path files;
2. compositions: `CommandPolicy` decides what `ReadPairing` queues; `FlowControl`
   over the change of sessions, where the distance to the last command of the
   session before is forgotten (`controller.rs:30`); the daemon's reset ending the
   driver's session.

Then prove, with the first extension, that a hint is never a reason to leave a
keyboard out.
