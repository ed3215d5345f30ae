---------------------------- MODULE StatusWatch -----------------------------
(***************************************************************************)
(* The loop of the Status handler (controller_service.go): one stream on   *)
(* which the controller tells an exporter who leases it.  The handler      *)
(* watches the Exporter object and, every ten seconds, writes lastSeen     *)
(* into it; that its own writes come back is how it knows that the watch   *)
(* still works.                                                            *)
(*                                                                         *)
(* Times of lastSeen are only ever compared for equality: they are taken   *)
(* from the ring 0 .. Times - 1, which is longer than the events a watch   *)
(* holds.                                                                  *)
(***************************************************************************)
EXTENDS Naturals, Sequences

CONSTANTS
    Leases,
    MaxEvents,   \* events on their way from the API server
    MaxChanges,  \* of leaseRef
    MaxFaults,
    None

Times == MaxEvents + 3

VARIABLES
    stored,      \* the Exporter object: lastSeen, leaseRef and whether it exists
    clock,       \* the last time given out
    gone,        \* leases that are deleted
    events,      \* the watch: what it has yet to deliver
    live,        \* the watch still works
    exporter,    \* the handler's copy of the object
    watched,     \* watchedLastSeen
    lastPb,      \* lastPbStatusResponse
    told,        \* what the exporter received last
    pc,          \* the handler
    faults, changes

vars == <<stored, clock, gone, events, live, exporter, watched, lastPb, told, pc, faults, changes>>

Object == [exists : BOOLEAN, seen : 0 .. Times - 1, lease : Leases \cup {None}]

(* The types of the handler's variables, and a watch within its bound.     *)
TypeOK ==
    /\ stored \in Object /\ exporter \in Object
    /\ clock \in 0 .. Times - 1 /\ gone \subseteq Leases
    /\ events \in Seq(Object) /\ Len(events) <= MaxEvents
    /\ live \in BOOLEAN /\ pc \in {"connect", "run", "ended"}
    /\ watched \in 0 .. Times - 1 \cup {None}
    /\ {lastPb, told} \subseteq {<<>>} \cup {<<l>> : l \in Leases \cup {None}}
    /\ faults \in 0 .. MaxFaults
    /\ changes \in 0 .. MaxChanges

(* The watch begins with an event for the object as it is.                 *)
Init ==
    /\ \E l \in Leases \cup {None} : stored = [exists |-> TRUE, seen |-> 0, lease |-> l]
    /\ exporter = stored
    /\ clock = 0 /\ gone = {} /\ events = <<stored>> /\ live = TRUE
    /\ watched = None /\ lastPb = <<>> /\ told = <<>>
    /\ pc = "connect" /\ faults = 0 /\ changes = 0

Fault == faults < MaxFaults /\ faults' = faults + 1

(* The API server stores an object and queues it on the watch; a watch     *)
(* that has stopped gets nothing.                                          *)
Store(o) ==
    /\ Len(events) < MaxEvents
    /\ stored' = o
    /\ events' = IF live THEN Append(events, o) ELSE events

End == pc' = "ended"

-----------------------------------------------------------------------------
(* online: the patch holds nothing but lastSeen, and the reply is the      *)
(* object as it is stored.  A patch that fails is logged; the new time     *)
(* stays in the handler's copy.                                            *)
online ==
    /\ clock' = (clock + 1) % Times
    /\ \/ /\ stored.exists
          /\ Store([stored EXCEPT !.seen = clock'])
          /\ exporter' = stored'
          /\ UNCHANGED faults
       \/ /\ ~stored.exists \/ faults < MaxFaults
          /\ faults' = IF stored.exists THEN faults + 1 ELSE faults
          /\ exporter' = [exporter EXCEPT !.seen = clock']
          /\ UNCHANGED <<stored, events>>

(* The write before the loop.  (Its other effect, on an Offline status, is *)
(* in ExporterStatus.)                                                     *)
StreamConnects ==
    /\ pc = "connect"
    /\ online
    /\ pc' = "run"
    /\ UNCHANGED <<gone, live, watched, lastPb, told, changes>>

(* Mutant: the watch is trusted.                                           *)
NeverStopped == FALSE

Stopped == watched # None /\ watched # exporter.seen

Tick ==
    /\ pc = "run"
    /\ IF Stopped
       THEN End /\ UNCHANGED <<stored, clock, events, exporter, faults>>
       ELSE online /\ UNCHANGED pc
    /\ UNCHANGED <<gone, live, watched, lastPb, told, changes>>

(* proto.Equal(lastPbStatusResponse, &status)                              *)
SameAsLast(status) == lastPb = status

(* An Added, Modified or Deleted event.  The lease is fetched for its      *)
(* client; when it cannot be, or when the response cannot be sent, the     *)
(* stream ends.                                                            *)
WatchEvent ==
    LET status == <<Head(events).lease>> IN
    /\ pc = "run" /\ live /\ events # <<>>
    /\ events' = Tail(events)
    /\ exporter' = Head(events)
    /\ watched' = Head(events).seen
    /\ \/ /\ Head(events).lease \notin gone
          /\ IF SameAsLast(status) THEN UNCHANGED <<lastPb, told>>
                                   ELSE lastPb' = status /\ told' = status
          /\ UNCHANGED <<pc, faults>>
       \/ /\ Head(events).lease \in gone
          /\ End /\ UNCHANGED <<lastPb, told, faults>>
       \/ Fault /\ End /\ UNCHANGED <<lastPb, told>>
    /\ UNCHANGED <<stored, clock, gone, live, changes>>

(* ctx.Done(), a closed channel or an Error event.                         *)
StreamEnds ==
    /\ pc = "run" /\ Fault /\ End
    /\ UNCHANGED <<stored, clock, gone, events, live, exporter, watched, lastPb, told, changes>>

-----------------------------------------------------------------------------
(* External: the watch stops silently; leases and the object change.       *)
WatchStops ==
    /\ live /\ Fault /\ live' = FALSE /\ events' = <<>>
    /\ UNCHANGED <<stored, clock, gone, exporter, watched, lastPb, told, pc, changes>>

LeaseRefChanges(l) ==
    /\ stored.exists /\ l # stored.lease /\ l \notin gone
    /\ changes < MaxChanges /\ changes' = changes + 1
    /\ Store([stored EXCEPT !.lease = l])
    /\ UNCHANGED <<clock, gone, live, exporter, watched, lastPb, told, pc, faults>>

LeaseDeleted(l) ==
    /\ l \notin gone /\ l # stored.lease
    /\ gone' = gone \cup {l}
    /\ UNCHANGED <<stored, clock, events, live, exporter, watched, lastPb, told, pc, faults, changes>>

ExporterDeleted ==
    /\ stored.exists
    /\ Store([stored EXCEPT !.exists = FALSE])
    /\ UNCHANGED <<clock, gone, live, exporter, watched, lastPb, told, pc, faults, changes>>

Next ==
    \/ StreamConnects \/ Tick \/ WatchEvent \/ StreamEnds
    \/ WatchStops \/ ExporterDeleted
    \/ \E l \in Leases \cup {None} : LeaseRefChanges(l)
    \/ \E l \in Leases : LeaseDeleted(l)

Spec == Init /\ [][Next]_vars

(* The handler runs, its ticker ticks, and a watch that works delivers.    *)
Fairness == WF_vars(StreamConnects) /\ WF_vars(Tick) /\ WF_vars(WatchEvent)
FairSpec == Spec /\ Fairness

-----------------------------------------------------------------------------
(* "the k8s watchers sometimes stop functioning silently, so we need to    *)
(* detect it": once the watch has delivered something, a stream that stays *)
(* up is that of an exporter which exists, and which is told of the lease  *)
(* that stays on its object.  A write of lastSeen that is lost, a watch    *)
(* that has stopped and an object that is gone all end it, for the handler *)
(* misses its own time.                                                    *)
LeaseRefIsTold ==
    <>[](pc = "run" /\ watched # None) => <>[](stored.exists /\ told = <<stored.lease>>)

=============================================================================
