----------------------------- MODULE CommandLine ----------------------------
(***************************************************************************)
(* monsgeek-cli as a client of the driver: it takes the list of keyboards  *)
(* from watch_dev_list, picks one of them, frames the user's command with  *)
(* the command bytes of that keyboard's model and sends it by path.        *)
(*                                                                         *)
(* Between the list and the send the driver's registry and the keyboards   *)
(* in the ports may change; the path names a port, not a keyboard.  The    *)
(* driver's side is discovery's result for each port and, for the send,    *)
(* the policy of CommandPolicy; the other client is the web application,   *)
(* which frames its commands itself (CommandPolicy!Send).                  *)
(***************************************************************************)
EXTENDS CommandPolicy, FiniteSets, Functions

CONSTANTS
  Paths,       \* USB ports; usb_location is the same name
  Keyboards,   \* keyboards [vid, pid, firmware_id] that may be plugged in
  DeviceFiles, \* the JSON files of the definitions; None: does not parse
  Selectors,   \* selectors [path, usb_location, device_id, model]
  Requests,    \* command lines: records with a field op and its arguments
  MaxAddr      \* bound: keyboards plugged in

Ops == {"info", "firmware_version", "led_get", "led_set", "debounce_get", "debounce_set",
        "poll_get", "poll_set", "profile_get", "profile_set", "keymap_get", "keymap_set",
        "macro_get", "macro_set", "raw_send", "raw_read"}

\* The requests that change a setting; every argument is a u8, as clap parses it.
Settings ==
  [op : {"led_set"}, mode : Byte, speed : Byte, brightness : Byte, dazzle : BOOLEAN,
   r : Byte, g : Byte, b : Byte]
  \cup [op : {"debounce_set", "profile_set"}, value : Byte]
  \cup [op : {"keymap_set"}, profile : Byte, key_index : Byte, layer : Byte,
        config : [1 .. 4 -> Byte]]

\* A model's own command bytes keep to what both families' tables keep to: no
\* byte writes two things, and bytes that write are below 0x80 as far as the
\* bytes that read are above.
BytesApart(def) ==
  LET t == TableOf(def)
  IN  /\ \A f \in Setters : t[f] \in (0 .. 127) \cup {None}
      /\ \A f, g \in Setters : t[f] = t[g] /\ t[f] # None => f = g
      /\ \A f \in Setters : t[f] # 7
      /\ \A f \in {"set_profile", "set_debounce", "set_keymatrix", "set_macro"} : t[f] # None
      /\ \A f \in {"get_profile", "get_debounce", "get_keymatrix"} : t[f] \in 128 .. 231
      /\ t.get_report \in (128 .. 231) \cup {None}

ASSUME ClientAssumption ==
  /\ None \notin ToSet(DeviceFiles)
  /\ DeviceFiles \in Seq(ToSet(DeviceFiles))
  /\ \A def \in ToSet(DeviceFiles) : BytesApart(def) /\ Bounded(def)
  /\ \A a \in Requests :
       /\ a.op \in Ops
       /\ a.op \in {"led_set", "debounce_set", "profile_set", "keymap_set"} => a \in Settings
       /\ a.op = "poll_set" => a.value \in Byte
       /\ a.op = "keymap_get" => {a.profile, a.key_index} \subseteq Byte
       /\ a.op \in {"macro_get", "macro_set"} => {a.macro_index, a.page} \subseteq Byte
       /\ a.op = "macro_set" => a.is_last \in Byte /\ a.data \in Seq(Byte)
       /\ a.op = "raw_send" => a.bytes \in Seq(Byte) /\ a.unsafe \in BOOLEAN

VARIABLES
  bus,      \* the keyboard in each port with its address, or None
  lastAddr, \* last address handed out
  known,    \* the driver's registration for each path, or None
  updates,  \* device events queued for the CLI's stream
  phase,    \* how far the CLI has come; "off" when the client is the web's
  list,     \* the device list it has received: a function of known paths
  target,   \* the device it has resolved, or None
  asked,    \* the request of the command line, or None
  plan      \* how it is carried out, or None

policyVars == <<definition, command, decision, frame>>
driverVars == <<bus, lastAddr, known, updates>>
clientVars == <<phase, list, target, asked, plan>>
allVars == <<policyVars, driverVars, clientVars>>

EmptyList == [p \in {} |-> None]
Catalogue == LoadFromDirectory(DeviceFiles)

-----------------------------------------------------------------------------
(* The keyboards and the driver's registry.                                *)

\* A registration as a list entry.  Its address is not in the message: it is
\* kept to say which enumeration the entry was made of.
Registration(def, keyboard) ==
  [id |-> def.id, vid |-> keyboard.vid, pid |-> keyboard.pid,
   addr |-> keyboard.addr, online |-> TRUE]

\* What the stream tells the CLI, while it reads it, about one changed path.
\* Bound: one event is queued, as the CLI reads none after it.
Announce(type, p) ==
  updates' = IF phase = "bootstrap" /\ updates = <<>>
             THEN Append(updates, [type |-> type, devices |-> [q \in {p} |-> known'[q]]])
             ELSE updates

At(keyboard, addr) ==
  [vid |-> keyboard.vid, pid |-> keyboard.pid, firmware_id |-> keyboard.firmware_id,
   addr |-> addr]

\* A port's keyboard is replaced by another one (or the same).
Replug(p, keyboard) ==
  /\ phase # "off"
  /\ lastAddr < MaxAddr
  /\ lastAddr' = lastAddr + 1
  /\ bus' = [bus EXCEPT ![p] = At(keyboard, lastAddr + 1)]
  /\ UNCHANGED <<policyVars, known, updates, clientVars>>

Unplug(p) ==
  /\ phase # "off"
  /\ bus[p] # None
  /\ bus' = [bus EXCEPT ![p] = None]
  /\ UNCHANGED <<policyVars, lastAddr, known, updates, clientVars>>

\* A refresh identifies the keyboard in a port.
Discover(p) ==
  /\ bus[p] # None
  /\ \E def \in ProbeOutcomes(Catalogue, bus[p]) \ {None} :
       /\ known' = [known EXCEPT ![p] = Registration(def, bus[p])]
       /\ known' # known
  /\ Announce(IF known[p] = None THEN "Add" ELSE "Change", p)
  /\ UNCHANGED <<policyVars, bus, lastAddr, clientVars>>

\* A refresh does not find the known keyboard of a port, or cannot ask it.
MarkOffline(p) ==
  /\ known[p] # None
  /\ known[p].online
  /\ bus[p] # None => None \in ProbeOutcomes(Catalogue, bus[p])
  /\ known' = [known EXCEPT ![p].online = FALSE]
  /\ Announce("Change", p)
  /\ UNCHANGED <<policyVars, bus, lastAddr, clientVars>>

-----------------------------------------------------------------------------
(* client.rs: the connection and the device list.                          *)

Goes(from, to) == phase = from /\ phase' = to

Connect ==
  /\ Goes("start", "connected") \/ Goes("start", "failed")
  /\ UNCHANGED <<policyVars, driverVars, list, target, asked, plan>>

\* The Init message holds every registration, off line ones included.  An
\* empty one makes the CLI wait for updates.
WatchDevListInit ==
  LET snapshot == [p \in {q \in Paths : known[q] # None} |-> known[p]]
  IN  /\ \/ Goes("connected", IF snapshot = EmptyList THEN "bootstrap" ELSE "listed")
            /\ list' = snapshot
         \/ Goes("connected", "failed") /\ UNCHANGED list
      /\ UNCHANGED <<policyVars, driverVars, target, asked, plan>>

MergeDeviceListUpdate(snapshot, update) ==
  CASE update.type = "Init" -> update.devices
    [] update.type \in {"Add", "Change"} ->
         [p \in DOMAIN update.devices \cup DOMAIN snapshot |->
            IF p \in DOMAIN update.devices THEN update.devices[p] ELSE snapshot[p]]
    [] update.type = "Remove" ->
         Restrict(snapshot, DOMAIN snapshot \ DOMAIN update.devices)

\* The first update that leaves the list not empty ends the wait.
Bootstrap ==
  /\ phase = "bootstrap"
  /\ updates # <<>>
  /\ list' = MergeDeviceListUpdate(list, Head(updates))
  /\ updates' = IF list' = EmptyList THEN Tail(updates) ELSE <<>>
  /\ phase' = IF list' = EmptyList THEN phase ELSE "listed"
  /\ UNCHANGED <<policyVars, bus, lastAddr, known, target, asked, plan>>

\* Three seconds are over, or the stream ends; or it fails.
BootstrapEnds ==
  /\ Goes("bootstrap", "listed") \/ Goes("bootstrap", "failed")
  /\ updates' = <<>>
  /\ UNCHANGED <<policyVars, bus, lastAddr, known, list, target, asked, plan>>

-----------------------------------------------------------------------------
(* device_select.rs: the target.                                           *)

\* Mutant of ResolveDefinition: the id the driver found is not looked at.
ResolveByVidPid(entry) == FindByRuntimeVidPid(Catalogue, entry.vid, entry.pid)

\* The definitions an entry of the list may resolve to: the one of its id, or,
\* when that one does not name the runtime PID, the first in a hash map's order
\* of those that do.
ResolveDefinition(entry) ==
  LET matches == FindByRuntimeVidPid(Catalogue, entry.vid, entry.pid)
      own == {def \in matches : def.id = entry.id}
  IN  IF own # {} THEN own ELSE matches

\* supported_online_devices, as the set of lists it may return: entries that
\* are on line and whose VID/PID the catalogue supports, each resolved.
SupportedOnlineDevices ==
  LET supported == {p \in DOMAIN list :
        list[p].online /\ SupportsRuntimeVidPid(Catalogue, list[p].vid, list[p].pid)}
      choices == {f \in [supported -> Range(Catalogue)] :
                    \A p \in supported : f[p] \in ResolveDefinition(list[p])}
  IN  {{[path |-> p, device_id |-> f[p].id, definition |-> f[p], addr |-> list[p].addr] :
          p \in supported} : f \in choices}

ModelAliases(def) ==
  {<<def.name>>, <<def.display_name>>}
  \cup {<<c, def.display_name>> : c \in {def.company} \ {None}}

OnlyOne(devices) == IF Cardinality(devices) = 1 THEN CHOOSE d \in devices : TRUE ELSE None

\* The selector that comes first decides alone; without one, a device that is
\* the only one.  None: an error.
ResolveTargetDevice(s, devices) ==
  IF s.path # None THEN OnlyOne({d \in devices : d.path = s.path})
  ELSE IF s.usb_location # None THEN OnlyOne({d \in devices : d.path = s.usb_location})
  ELSE IF s.device_id # None THEN OnlyOne({d \in devices : d.device_id = s.device_id})
  ELSE IF s.model # None
  THEN OnlyOne({d \in devices : \E def \in Range(Catalogue) :
                  def.id = d.device_id /\ s.model \in ModelAliases(def)})
  ELSE OnlyOne(devices)

\* "devices list" ends here.
Resolve(s) ==
  /\ phase = "listed"
  /\ \E devices \in SupportedOnlineDevices : target' = ResolveTargetDevice(s, devices)
  /\ phase' = IF target' = None THEN "failed" ELSE "resolved"
  /\ list' = EmptyList
  /\ UNCHANGED <<policyVars, driverVars, asked, plan>>

-----------------------------------------------------------------------------
(* commands.rs: the frame.                                                 *)

GET_REV == 128
GET_REPORT == 131
GET_LEDPARAM == 135
GET_MACRO == 139
GET_USB_VERSION == 143
SET_REPORT == 3
SET_LEDPARAM == 7
KEYMATRIX_ENTRIES_PER_PAGE == 16

Plan(request, checksum, expects_read) ==
  [request |-> request, checksum |-> checksum, expects_read |-> expects_read]

Query(request) == Plan(request, "Bit7", TRUE)
Write(request) == Plan(request, "Bit7", FALSE)
UnwrapOr(byte, default) == IF byte = None THEN default ELSE byte

LedSet(a) ==
  <<SET_LEDPARAM, a.mode, (4 - a.speed) % 256, a.brightness,
    IF a.dazzle THEN 7 ELSE 8, a.r, a.g, a.b>>

\* Mutant of LedPlan: the checksum of every other command.
LedPlanBit7(a) == IF a.op = "led_get" THEN Query(<<GET_LEDPARAM>>) ELSE Write(LedSet(a))

LedPlan(a) ==
  IF a.op = "led_get" THEN Query(<<GET_LEDPARAM>>) ELSE Plan(LedSet(a), "Bit8", FALSE)

DebouncePlan(a, t) ==
  IF a.op = "debounce_get" THEN Query(<<t.get_debounce>>)
  ELSE Write(IF t.set_debounce = 17 THEN <<t.set_debounce, 0, a.value>>
             ELSE <<t.set_debounce, a.value>>)

\* Mutant of PollPlan: the answer to a write is awaited.
PollPlanAwaited(a, t) ==
  IF a.op = "poll_get" THEN Query(<<UnwrapOr(t.get_report, GET_REPORT)>>)
  ELSE Query(<<UnwrapOr(t.set_report, SET_REPORT), a.value>>)

PollPlan(a, t) ==
  IF a.op = "poll_get" THEN Query(<<UnwrapOr(t.get_report, GET_REPORT)>>)
  ELSE Write(<<UnwrapOr(t.set_report, SET_REPORT), a.value>>)

ProfilePlan(a, t) ==
  IF a.op = "profile_get" THEN Query(<<t.get_profile>>) ELSE Write(<<t.set_profile, a.value>>)

KeymapPlan(a, t) ==
  IF a.op = "keymap_get"
  THEN Query(<<t.get_keymatrix, a.profile, 255, a.key_index \div KEYMATRIX_ENTRIES_PER_PAGE, 0>>)
  ELSE Write(<<t.set_keymatrix, a.profile, a.key_index, 0, 0, 1, a.layer, 0>> \o a.config)

MacroPlan(a, t) ==
  IF a.op = "macro_get" THEN Query(<<GET_MACRO, a.macro_index, a.page>>)
  ELSE IF Len(a.data) > 255 THEN None
  ELSE Write(<<t.set_macro, a.macro_index, a.page, Len(a.data), a.is_last, 0, 0>> \o a.data)

\* A raw command is sent as it is and not read; a raw read sends nothing.
RawPlan(a) ==
  IF a.op = "raw_read" THEN Plan(None, None, TRUE)
  ELSE IF (a.bytes = <<>> \/ a.bytes[1] < 128) /\ ~a.unsafe THEN None
  ELSE Write(a.bytes)

BuildCommandRequest(a, def) ==
  LET t == TableOf(def)
  IN  CASE a.op \in {"info", "firmware_version"} -> Query(<<GET_USB_VERSION>>)
        [] a.op \in {"led_get", "led_set"} -> LedPlan(a)
        [] a.op \in {"debounce_get", "debounce_set"} -> DebouncePlan(a, t)
        [] a.op \in {"poll_get", "poll_set"} -> PollPlan(a, t)
        [] a.op \in {"profile_get", "profile_set"} -> ProfilePlan(a, t)
        [] a.op \in {"keymap_get", "keymap_set"} -> KeymapPlan(a, t)
        [] a.op \in {"macro_get", "macro_set"} -> MacroPlan(a, t)
        [] a.op \in {"raw_send", "raw_read"} -> RawPlan(a)

\* The driver opens the keyboard it has registered for the path, as long as it
\* is the one still there.
Opens(p) ==
  /\ known[p] # None
  /\ known[p].online
  /\ bus[p] # None
  /\ known[p].addr = bus[p].addr
  /\ FindById(Catalogue, known[p].id) # None

\* execute_command: nothing is sent without a plan, or with one that only
\* reads; a command the driver has no session for, or rejects, is an error.
Execute(a) ==
  LET p == target.path
      made == BuildCommandRequest(a, target.definition)
      sends == IF made = None THEN FALSE ELSE made.request # None
  IN  /\ phase = "resolved"
      /\ asked' = a
      /\ plan' = made
      /\ \/ /\ IF sends THEN ~Opens(p) ELSE made = None
            /\ phase' = "failed"
            /\ UNCHANGED policyVars
         \/ /\ made # None /\ ~sends
            /\ phase' = "sent"
            /\ UNCHANGED policyVars
         \/ /\ sends /\ Opens(p)
            /\ definition' = FindById(Catalogue, known[p].id)
            /\ command' = made.request
            /\ decision' = EvaluateOutboundCommand(definition', made.request)
            /\ frame' = IF decision'.forwarded
                        THEN NormalizeOutboundCommand(definition', made.request) ELSE <<>>
            /\ phase' = IF decision'.error = "ok" THEN "sent" ELSE "failed"
      /\ UNCHANGED <<driverVars, list, target>>

-----------------------------------------------------------------------------
(* The web application and the CLI are checked in turn: the first acts on  *)
(* a session that is open, the second from its start.                      *)

WebInit == Init /\ phase = "off"

CliInit ==
  /\ definition = None /\ command = <<>> /\ frame = <<>>
  /\ decision = Forward("query")
  /\ phase = "start"

\* The driver has just started and the ports are empty.
ClientInit ==
  /\ WebInit \/ CliInit
  /\ bus = [p \in Paths |-> None] /\ known = [p \in Paths |-> None]
  /\ lastAddr = 0 /\ updates = <<>>
  /\ list = EmptyList /\ target = None /\ asked = None /\ plan = None

WebNext == phase = "off" /\ command = <<>> /\ Next /\ UNCHANGED <<driverVars, clientVars>>

CliNext ==
  \/ \E p \in Paths : \/ \E keyboard \in Keyboards : Replug(p, keyboard)
                      \/ Unplug(p) \/ Discover(p) \/ MarkOffline(p)
  \/ Connect \/ WatchDevListInit \/ Bootstrap \/ BootstrapEnds
  \/ \E s \in Selectors : Resolve(s)
  \/ \E a \in Requests : Execute(a)

ClientNext == WebNext \/ CliNext

ClientSpec == ClientInit /\ [][ClientNext]_allVars

-----------------------------------------------------------------------------
(* Properties of the CLI's commands.                                       *)

\* The keyboard in the target's port is the one the CLI's list spoke of, and
\* its firmware's definition names the VID/PID it shows.
Unmoved == target # None /\ bus[target.path] # None /\ bus[target.path].addr = target.addr

Catalogued(keyboard) ==
  \E def \in FindByRuntimeVidPid(Catalogue, keyboard.vid, keyboard.pid) :
    def.id = keyboard.firmware_id

Sound == Unmoved /\ Catalogued(bus[target.path])
Real  == FindById(Catalogue, bus[target.path].firmware_id)

\* The keyboard the CLI has picked, by whichever selector, has the firmware id
\* and the model the CLI takes it to have, though ids are found out by the
\* driver, travel in a list, and a VID/PID may belong to several models; and
\* the driver checks the command by that same model's bounds.
TargetIsTheKeyboardNamed ==
  Sound => /\ target.device_id = Real.id
           /\ target.definition = Real
           /\ frame # <<>> => definition = Real

\* build_command: the frame on the wire, 64 bytes with its checksum in place.
BuildCommand(bytes, checksum) ==
  LET padded == [i \in 1 .. 64 |-> IF i <= Len(bytes) THEN bytes[i] ELSE 0]
      Sum(n) == 255 - (FoldLeft(LAMBDA a, b : a + b, 0, SubSeq(padded, 1, n)) % 256)
  IN  CASE checksum = "Bit7" -> [padded EXCEPT ![8] = Sum(7)]
        [] checksum = "Bit8" -> [padded EXCEPT ![9] = Sum(8)]
        [] OTHER -> padded

\* What the firmware of a model makes of a frame it takes for a write; the
\* fields are those of the CLI's requests.
Performs(def, w) ==
  LET t == TableOf(def)
  IN  CASE w[1] = SET_LEDPARAM ->
             [op |-> "led_set", mode |-> w[2], speed |-> (4 - w[3]) % 256,
              brightness |-> w[4], dazzle |-> w[5] = 7, r |-> w[6], g |-> w[7], b |-> w[8]]
        [] w[1] = t.set_debounce ->
             [op |-> "debounce_set", value |-> IF w[1] = 17 THEN w[3] ELSE w[2]]
        [] w[1] = t.set_report -> [op |-> "poll_set", value |-> w[2]]
        [] w[1] = t.set_profile -> [op |-> "profile_set", value |-> w[2]]
        [] w[1] = t.set_keymatrix ->
             [op |-> "keymap_set", profile |-> w[2], key_index |-> w[3], layer |-> w[7],
              config |-> SubSeq(w, 9, 12)]
        [] OTHER -> None

\* A setting the user asked for is what the keyboard does, with every argument
\* in its place: the byte is the one of that keyboard's family and overrides,
\* and neither the checksum nor the policy's rewriting touches an argument.
SettingsArriveAsAsked ==
  Sound /\ frame # <<>> /\ asked \in Settings
    => Performs(Real, BuildCommand(frame, plan.checksum)) = asked

\* The CLI reads after exactly those of its commands that the keyboard answers
\* by the policy's reckoning, whichever of the two clients' tables says so; a
\* raw command is the user's own business.
AnswersAreAwaited ==
  Sound /\ frame # <<>> /\ asked.op # "raw_send"
    => (plan.expects_read <=> decision.read = "device")
=============================================================================
