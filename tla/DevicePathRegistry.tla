------------------------- MODULE DevicePathRegistry -------------------------
(***************************************************************************)
(* The registry of keyboards the driver has ever seen, as a value with the *)
(* operators upsert, mark_offline_missing_paths, get and clear             *)
(* (crates/monsgeek-driver/src/service/device_registry.rs).                *)
(*                                                                         *)
(* A path is the USB location of a port: discovery builds instance_path    *)
(* and usb_location from the same string, so the by_usb_location table is  *)
(* the identity and is left out.  An address stands for the (bus, address) *)
(* pair and the runtime PID of one enumeration of a keyboard.              *)
(***************************************************************************)
EXTENDS Naturals

CONSTANTS Paths,     \* USB locations a keyboard can be plugged into
          MaxAddr,   \* bound: number of distinct USB addresses
          NoPath     \* "no entry" in the by_bus_address index

ASSUME PathsAssumption == NoPath \notin Paths
ASSUME MaxAddrAssumption == MaxAddr \in Nat

NoAddr == 0
Addrs == 1 .. MaxAddr

Registration == [addr : 0 .. MaxAddr, online : BOOLEAN]
Unregistered == [addr |-> NoAddr, online |-> FALSE]

\* A registry value: registrations by path, and the index by USB address.
RegistryValue == [byPath : [Paths -> Registration],
                  byBus  : [Addrs -> Paths \cup {NoPath}]]

EmptyRegistry == [byPath |-> [p \in Paths |-> Unregistered],
                  byBus  |-> [a \in Addrs |-> NoPath]]

Known(reg, p) == reg.byPath[p].addr # NoAddr
Online(reg, p) == reg.byPath[p].online
KnownPaths(reg) == {p \in Paths : Known(reg, p)}

\* Mutant of Upsert: the old index key is not removed.
UpsertKeepingOldKey(reg, p, a) ==
  [byPath |-> [reg.byPath EXCEPT ![p] = [addr |-> a, online |-> TRUE]],
   byBus  |-> [reg.byBus EXCEPT ![a] = p]]

\* The index key of a path's present registration is removed (a key another
\* path has taken over since is removed with it), then the new one is added.
Upsert(reg, p, a) ==
  LET old == reg.byPath[p].addr
  IN  [byPath |-> [reg.byPath EXCEPT ![p] = [addr |-> a, online |-> TRUE]],
       byBus  |-> [x \in Addrs |-> IF x = a THEN p
                                   ELSE IF x = old THEN NoPath
                                   ELSE reg.byBus[x]]]

\* Mutant of NewlyOffline: live_paths is not consulted.
NewlyOfflineAll(reg, live) == {p \in Paths : Online(reg, p)}

NewlyOffline(reg, live) == {p \in Paths : Online(reg, p) /\ p \notin live}

\* Mutant of MarkOfflineMissing: a missing path is forgotten altogether.
ForgetMissing(reg, live) ==
  LET gone == NewlyOffline(reg, live)
  IN  [byPath |-> [p \in Paths |-> IF p \in gone THEN Unregistered
                                   ELSE reg.byPath[p]],
       byBus  |-> [x \in Addrs |-> IF \E p \in gone : reg.byPath[p].addr = x
                                   THEN NoPath ELSE reg.byBus[x]]]

MarkOfflineMissing(reg, live) ==
  LET gone == NewlyOffline(reg, live)
  IN  [byPath |-> [p \in Paths |-> IF p \in gone
                                   THEN [reg.byPath[p] EXCEPT !.online = FALSE]
                                   ELSE reg.byPath[p]],
       byBus  |-> [x \in Addrs |-> IF \E p \in gone : reg.byPath[p].addr = x
                                   THEN NoPath ELSE reg.byBus[x]]]

\* Every entry of the by_bus_address index leads to a device that is online at
\* exactly that address.
IndexLeadsToDevice(reg) ==
  \A a \in Addrs : reg.byBus[a] # NoPath =>
    reg.byPath[reg.byBus[a]] = [addr |-> a, online |-> TRUE]
=============================================================================
