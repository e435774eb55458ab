----------------------------- MODULE UsbSession -----------------------------
(***************************************************************************)
(* UsbSession of monsgeek-transport: how the programs open a keyboard,     *)
(* share its interfaces with the kernel and with each other, and let go.   *)
(*                                                                         *)
(* A keyboard sits in a port and has an address, new every time it is      *)
(* plugged in or enumerated again.  Its input interfaces are IF0, the      *)
(* keys, and IF1, the further keys.  Each is bound to the kernel's driver, *)
(* claimed by a session, or neither.  Sessions are those opened in mode    *)
(* InputOnly; a control session claims IF2, which no input session wants,  *)
(* and matters here only by the resets it asks for.  The kernel, its USB   *)
(* core and the hardware are external: they are modelled by what this code *)
(* relies on and handles.                                                  *)
(*                                                                         *)
(* Faults counts what goes wrong by itself: stalls, failing transfers,     *)
(* resets another program asks for.  MaxAddresses and MaxFaults are the    *)
(* bounds.                                                                 *)
(***************************************************************************)
EXTENDS Naturals, FiniteSets

CONSTANTS
  Ports,         \* USB ports, a keyboard's instance path
  Model,         \* the vendor and product id of the keyboard of a port
  Loose,         \* ports whose keyboard may be unplugged
  Sessions,      \* whoever opens sessions for input
  Kernel,        \* the owner of an interface its driver is bound to
  Nobody,        \* the owner of one that is neither bound nor claimed
  MaxAddresses,  \* bound: addresses given out
  MaxFaults      \* bound: faults

ASSUME PortsAssumption ==
  /\ IsFiniteSet(Ports) /\ Ports # {}
  /\ DOMAIN Model = Ports
  /\ Loose \subseteq Ports
ASSUME OwnersAssumption ==
  /\ Kernel # Nobody
  /\ {Kernel, Nobody} \cap Sessions = {}
ASSUME BoundsAssumption == MaxAddresses \in Nat \ {0} /\ MaxFaults \in Nat

VARIABLES
  at,        \* the address of the keyboard in a port
  addresses, \* addresses given out
  port,      \* the port each of them was given out in
  owner,     \* who has each interface of the keyboard at an address
  pc,        \* where a session is in its life
  want,      \* the address it was opened for
  dev,       \* the address of the keyboard it has
  todo,      \* interfaces it has still to claim
  detached,  \* detached_if0: it took the kernel's place there
  recovered, \* boot_protocol_recovered: it had its recovery reset
  dropped,   \* history: keyboards there on which an open failed half way
  faults

bus     == <<at, addresses, port, owner>>
session == <<pc, want, dev, todo, detached, recovered>>

Addresses == 1 .. MaxAddresses
NoAddress == 0
IF0 == 0
IF1 == 1
Interfaces == {IF0, IF1}  \* what SessionMode::InputOnly claims
Pcs == {"closed", "find", "claim", "protocol", "settle", "open", "failed"}

Live    == {a \in Addresses : \E p \in Ports : at[p] = a}
SameModel(s) == {a \in Live : Model[port[a]] = Model[port[want[s]]]}

UsbInit ==
  /\ at = [p \in Ports |-> NoAddress]
  /\ addresses = 0
  /\ port = [a \in Addresses |-> CHOOSE p \in Ports : TRUE]
  /\ owner = [a \in Addresses |-> [i \in Interfaces |-> Nobody]]
  /\ pc = [s \in Sessions |-> "closed"]
  /\ want = [s \in Sessions |-> NoAddress]
  /\ dev = [s \in Sessions |-> NoAddress]
  /\ todo = [s \in Sessions |-> {}]
  /\ detached = [s \in Sessions |-> FALSE]
  /\ recovered = [s \in Sessions |-> FALSE]
  /\ dropped = {}
  /\ faults = 0

Fault == faults < MaxFaults /\ faults' = faults + 1
Goes(s, to) == pc' = [pc EXCEPT ![s] = to]

\* What an ended call or a dropped session leaves of its own state: nothing.
Forgets(s) ==
  /\ want' = [want EXCEPT ![s] = NoAddress]
  /\ dev' = [dev EXCEPT ![s] = NoAddress]
  /\ todo' = [todo EXCEPT ![s] = {}]
  /\ detached' = [detached EXCEPT ![s] = FALSE]
  /\ recovered' = [recovered EXCEPT ![s] = FALSE]

----------------------------------------------------------------------------

(* The bus: external. *)

\* The kernel gives a keyboard the next address and binds its drivers to it.
Enumerates(p) ==
  /\ addresses < MaxAddresses
  /\ addresses' = addresses + 1
  /\ at' = [at EXCEPT ![p] = addresses']
  /\ port' = [port EXCEPT ![addresses'] = p]

Bound == [i \in Interfaces |-> Kernel]
Gone  == [i \in Interfaces |-> Nobody]

Plug(p) ==
  /\ at[p] = NoAddress
  /\ Enumerates(p)
  /\ owner' = [owner EXCEPT ![addresses'] = Bound]
  /\ UNCHANGED <<session, dropped, faults>>

Unplug(p) ==
  /\ p \in Loose
  /\ at[p] # NoAddress
  /\ at' = [at EXCEPT ![p] = NoAddress]
  /\ owner' = [owner EXCEPT ![at[p]] = Gone]
  /\ dropped' = dropped \ {at[p]}
  /\ UNCHANGED <<addresses, port, session, faults>>

\* What is left of interfaces when the handle of session s is closed.
LetGo(s, ifs) == [i \in Interfaces |-> IF ifs[i] = s THEN Nobody ELSE ifs[i]]

\* What is left of them when it gives them back: the kernel's driver is attached
\* again to IF0 if it was detached from it, and to IF1 never.
GivenBack(s, ifs) ==
  [i \in Interfaces |->
     IF i = IF0 /\ detached[s] /\ LetGo(s, ifs)[IF0] = Nobody THEN Kernel ELSE LetGo(s, ifs)[i]]

\* A reset tears interfaces from the other sessions that claimed them and binds
\* the kernel's drivers to these again.
TornOff(ifs) == [i \in Interfaces |-> IF ifs[i] = Nobody THEN Nobody ELSE Kernel]

\* The keyboard at address a is to be reset, its interfaces being ifs: that
\* fails, it stays where it is, or it is enumerated again elsewhere.
Reset(a, ifs) ==
  \/ /\ owner' \in {[owner EXCEPT ![a] = ifs], [owner EXCEPT ![a] = TornOff(ifs)]}
     /\ UNCHANGED <<at, addresses, port>>
  \/ /\ a \in Live
     /\ Enumerates(port[a])
     /\ owner' = [owner EXCEPT ![a] = Gone, ![addresses'] = Bound]

----------------------------------------------------------------------------

(* Opening. *)

\* open_at_with_mode reads the ids of the keyboard at address a, if there is one.
OpenAt(s, a) ==
  /\ pc[s] = "closed"
  /\ IF a \in Live
     THEN Goes(s, "find") /\ want' = [want EXCEPT ![s] = a]
     ELSE Goes(s, "failed") /\ UNCHANGED want
  /\ UNCHANGED <<bus, dev, todo, detached, recovered, dropped, faults>>

\* open_impl lists the bus again: it prefers the address and takes any other
\* keyboard with these ids if the address is gone.
Find(s) ==
  /\ pc[s] = "find"
  /\ IF SameModel(s) = {}
     THEN Goes(s, "failed") /\ Forgets(s)
     ELSE /\ Goes(s, "claim")
          /\ \E a \in SameModel(s) :
               /\ want[s] \in SameModel(s) => a = want[s]
               /\ dev' = [dev EXCEPT ![s] = a]
          /\ todo' = [todo EXCEPT ![s] = Interfaces]
          /\ UNCHANGED <<want, detached, recovered>>
  /\ UNCHANGED <<bus, dropped, faults>>

\* An error on the way: the handle is closed, and nothing is attached again.
Fails(s) ==
  /\ Goes(s, "failed")
  /\ owner' = [owner EXCEPT ![dev[s]] = LetGo(s, @)]
  /\ dropped' = IF detached[s] THEN dropped \cup {dev[s]} ELSE dropped
  /\ Forgets(s)
  /\ UNCHANGED <<at, addresses, port>>

Next0(s) == CHOOSE i \in todo[s] : \A j \in todo[s] : i <= j
Busy(s)  == owner[dev[s]][Next0(s)] \in Sessions

\* Detach the kernel's driver if it is active, then claim.
Claim(s) ==
  /\ pc[s] = "claim"
  /\ dev[s] \in Live /\ ~ Busy(s)
  /\ LET i == Next0(s) IN
     /\ owner' = [owner EXCEPT ![dev[s]][i] = s]
     /\ detached' = [detached EXCEPT ![s] = @ \/ (i = IF0 /\ owner[dev[s]][i] = Kernel)]
     /\ todo' = [todo EXCEPT ![s] = @ \ {i}]
     /\ Goes(s, IF todo[s] = {i} THEN "protocol" ELSE "claim")
  /\ UNCHANGED <<at, addresses, port, want, dev, recovered, dropped, faults>>

ClaimFails(s) ==
  /\ pc[s] = "claim"
  /\ IF dev[s] \in Live /\ ~ Busy(s) THEN Fault ELSE UNCHANGED faults
  /\ Fails(s)

\* SET_PROTOCOL(Boot) on IF0.
SetProtocol(s) ==
  /\ pc[s] = "protocol"
  /\ dev[s] \in Live
  /\ Goes(s, "open")
  /\ UNCHANGED <<bus, want, dev, todo, detached, recovered, dropped, faults>>

SetProtocolFails(s) ==
  /\ pc[s] = "protocol"
  /\ IF dev[s] \in Live THEN Fault ELSE UNCHANGED faults
  /\ Fails(s)

\* It stalls for the first time: everything is given back, the keyboard reset,
\* and after a pause it is opened again, at the same address if that remains.
SetProtocolStalls(s) ==
  /\ pc[s] = "protocol"
  /\ dev[s] \in Live
  /\ ~ recovered[s]
  /\ Fault
  /\ Reset(dev[s], GivenBack(s, owner[dev[s]]))
  /\ Goes(s, "settle")
  /\ recovered' = [recovered EXCEPT ![s] = TRUE]
  /\ detached' = [detached EXCEPT ![s] = FALSE]
  /\ dev' = [dev EXCEPT ![s] = NoAddress]
  /\ UNCHANGED <<want, todo, dropped>>

Settled(s) ==
  /\ pc[s] = "settle"
  /\ Goes(s, "find")
  /\ UNCHANGED <<bus, want, dev, todo, detached, recovered, dropped, faults>>

Opening(s) ==
  \/ Find(s) \/ Claim(s) \/ ClaimFails(s)
  \/ SetProtocol(s) \/ SetProtocolFails(s) \/ SetProtocolStalls(s) \/ Settled(s)

----------------------------------------------------------------------------

(* Letting go. *)

\* Mutant of Drop: the kernel's driver is not attached again.
DropReleases(s) ==
  /\ Goes(s, "closed")
  /\ owner' = [owner EXCEPT ![dev[s]] = LetGo(s, @)]
  /\ Forgets(s)
  /\ UNCHANGED <<at, addresses, port, dropped, faults>>

\* Drop, for a session that was open.
Drop(s) ==
  /\ Goes(s, "closed")
  /\ owner' = [owner EXCEPT ![dev[s]] = GivenBack(s, @)]
  /\ Forgets(s)
  /\ UNCHANGED <<at, addresses, port, dropped, faults>>

\* The operating system closes the handles of a process that ended.
Killed(ss) ==
  /\ pc' = [s \in Sessions |-> IF s \in ss THEN "closed" ELSE pc[s]]
  /\ want' = [s \in Sessions |-> IF s \in ss THEN NoAddress ELSE want[s]]
  /\ dev' = [s \in Sessions |-> IF s \in ss THEN NoAddress ELSE dev[s]]
  /\ todo' = [s \in Sessions |-> IF s \in ss THEN {} ELSE todo[s]]
  /\ detached' = [s \in Sessions |-> detached[s] /\ s \notin ss]
  /\ recovered' = [s \in Sessions |-> recovered[s] /\ s \notin ss]
  /\ owner' = [a \in Addresses |-> [i \in Interfaces |->
                 IF owner[a][i] \in ss THEN Nobody ELSE owner[a][i]]]
  /\ dropped' = dropped \cup {a \in Addresses : \E i \in Interfaces : owner[a][i] \in ss}

----------------------------------------------------------------------------

\* The driver's control session resets its keyboard, because its first command
\* stalled, and is opened again.
ResetAndReopen(a) ==
  /\ a \in Live
  /\ Fault
  /\ Reset(a, owner[a])
  /\ UNCHANGED <<session, dropped>>

----------------------------------------------------------------------------

UsbTypeOK ==
  /\ at \in [Ports -> Addresses \cup {NoAddress}]
  /\ addresses \in 0 .. MaxAddresses
  /\ port \in [Addresses -> Ports]
  /\ owner \in [Addresses -> [Interfaces -> Sessions \cup {Kernel, Nobody}]]
  /\ pc \in [Sessions -> Pcs]
  /\ want \in [Sessions -> Addresses \cup {NoAddress}]
  /\ dev \in [Sessions -> Addresses \cup {NoAddress}]
  /\ todo \in [Sessions -> SUBSET Interfaces]
  /\ detached \in [Sessions -> BOOLEAN]
  /\ recovered \in [Sessions -> BOOLEAN]
  /\ dropped \in SUBSET Addresses
  /\ faults \in 0 .. MaxFaults
=============================================================================
