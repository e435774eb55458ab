------------------------- MODULE DeviceListHistory --------------------------
(***************************************************************************)
(* DriverService with a history of what each subscriber of watch_dev_list  *)
(* missed, and what a subscriber that missed nothing is promised.          *)
(***************************************************************************)
EXTENDS DriverServiceProperties

VARIABLE missed  \* subscribers that lost an event since their snapshot

\* A refresh sends an event.
Sending(r) == rpc[r] \in {"notify", "notifyOffline"} /\ rpc'[r] # rpc[r]

\* An event does not count for w, or does not count in the right order: it is
\* sent between the snapshot of w and its subscription, it pushes another one
\* out of the queue of w, or its refresh ran while another one did.
Misses(w) ==
  \E r \in Refreshers : /\ Sending(r)
                         /\ \/ ~Streaming(w)
                            \/ Len(rx[w]) = RxCap
                            \/ r \in overlapped

TakesSnapshot(w) == rpc[w] \in {"idle", "resnapshot"} /\ rpc'[w] # rpc[w]

HistoryInit == Init /\ missed = {}
HistoryNext ==
  /\ Next
  /\ missed' = {w \in Watchers : /\ ~TakesSnapshot(w)
                                 /\ w \in missed \/ Misses(w)}
HistorySpec == HistoryInit /\ [][HistoryNext]_<<vars, missed>>

\* "Plugging in or unplugging the keyboard triggers a device list update in
\* the web configurator in real time" (.planning/ROADMAP.md): between two refreshes a
\* subscriber that missed nothing and has been sent everything shows exactly
\* what the registry says, whatever was plugged, unplugged or plugged in again
\* meanwhile and whatever its snapshot was.  A refresh that ran alone keeps it
\* so; the ways to miss an event are those above, and shutdown tells nobody.
ListsConverge ==
  (phase \in {"up", "drained"} /\ \A r \in Refreshers : ~InFlight(r))
    => \A w \in Watchers \ missed :
         Streaming(w) /\ rx[w] = <<>> => view[w] = Snapshot(registry)
=============================================================================
