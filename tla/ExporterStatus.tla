--------------------------- MODULE ExporterStatus ---------------------------
(***************************************************************************)
(* The stored status of one Exporter object and everything that writes it: *)
(* the calls Register, ReportStatus and Unregister and the Status stream   *)
(* of ControllerService (controller_service.go), and the passes of         *)
(* ExporterReconciler (exporter_controller.go).                            *)
(*                                                                         *)
(* Every writer reads the object, changes its copy and sends the           *)
(* difference as a JSON merge patch without a resource version: the fields *)
(* it changed replace the stored ones, whatever was written in between.    *)
(* Devices, the Registered condition, labels and messages are left out:    *)
(* they are written along with the fields below and decide none of them.   *)
(*                                                                         *)
(* Time advances in units of half a minute: the ticker of Status runs at   *)
(* least once in a unit, a pass is requeued after one unit, and a call, a  *)
(* cache update or a watch event takes less than one unit (Settled).       *)
(***************************************************************************)
EXTENDS Integers, FiniteSets

CONSTANTS
    Values,      \* the statuses an exporter reports while it runs
    Minute,      \* units an exporter may stay unseen (time.Minute)
    MaxFaults,   \* bound: lost connections and calls, failed passes
    None,        \* no stream, call, pass or report
    Keep         \* a field that a patch leaves out

ASSUME StatusAssumption ==
    /\ Minute \in Nat \ {0}
    /\ MaxFaults \in Nat
    /\ {"", "Offline"} \cap Values = {}
    /\ Keep \notin Values /\ Keep \notin {"", "Offline"} /\ Keep # 0 /\ Keep \notin BOOLEAN

VARIABLES
    st,          \* the stored status
    cache,       \* the copy in the manager's cache
    stale,       \* the stored object changed since the cache was updated
    queued,      \* the exporter is in the work queue
    armed,       \* a requeue of the exporter is due after the next unit
    pass,        \* the patch of a running pass
    call,        \* the unary call the exporter awaits, and one it gave up on
    stream,      \* its Status call, and one it has hung up on
    proc,        \* the exporter process
    faults,      \* the faults so far
    reported     \* the last status reported over a steady connection, with no
                 \* call under way that the exporter had given up on

vars == <<st, cache, stale, queued, armed, pass, call, stream, proc, faults, reported>>
ctl == <<cache, stale, queued, armed, pass>>

Calls == {"awaited", "late"}
Streams == {"own", "old"}
Fault == faults < MaxFaults /\ faults' = faults + 1

-----------------------------------------------------------------------------
(* The object                                                              *)

Never == -1
Ages == Never .. Minute + 1

(* The status an exporter reports, the age of LastSeen, and the Online     *)
(* condition.                                                              *)
Status == [value : Values \cup {"", "Offline"}, seen : Ages, online : BOOLEAN]
Patches == [value : Values \cup {"", "Offline", Keep}, seen : {0, Keep}, online : BOOLEAN \cup {Keep}]

(* A call, a Status stream and a pass of the reconciler.                   *)
CallOf == [op : {"Register", "Report", "Unregister"}, value : Values \cup {"", "Offline"},
           patch : Patches, alone : BOOLEAN]
StreamOf == [pc : {"start", "open"}, patch : Patches \cup {None}, ticked : BOOLEAN, steady : BOOLEAN]
PassOf == [patch : Patches, requeue : BOOLEAN]

ASSUME NoneAssumption == None \notin StreamOf /\ None \notin PassOf

(* Mutant: the whole status is sent, as by Update.                         *)
DiffAll(read, new) == new

(* client.MergeFrom: the fields that differ between the copy read and the  *)
(* copy changed; what the API server makes of them.                        *)
Changed(read, new) == IF new = read THEN Keep ELSE new
Diff(read, new) == [value |-> Changed(read.value, new.value), seen |-> Changed(read.seen, new.seen),
                    online |-> Changed(read.online, new.online)]
Merged(old, field) == IF field = Keep THEN old ELSE field
Apply(patch) == [value |-> Merged(st.value, patch.value), seen |-> Merged(st.seen, patch.seen),
                 online |-> Merged(st.online, patch.online)]

(* A write that changes the object reaches the cache; one that sets        *)
(* LastSeen or fields left out here always changes it.                     *)
Patch(patch, touch) ==
    /\ st' = Apply(patch)
    /\ stale' = (stale \/ touch \/ Apply(patch) # st)

-----------------------------------------------------------------------------
(* Unary calls                                                             *)

Online(value) == value \notin {"", "Offline"}
syncOnlineConditionWithStatus(s) == [s EXCEPT !.online = Online(s.value)]

(* The list of conditions is part of these patches also when Online stays  *)
(* what it was: they set its reason and message, which a pass sets back.   *)
Reported(s, v) ==
    LET new == syncOnlineConditionWithStatus([s EXCEPT !.value = v])
    IN  [Diff(s, new) EXCEPT !.online = new.online]

Register(s) == Diff(s, s)
ReportStatus(s, v) == [Reported(s, v) EXCEPT !.seen = 0]
Unregister(s) == Reported(s, "Offline")
PatchOf(op, v) ==
    CASE op = "Register"   -> Register(st)
      [] op = "Report"     -> ReportStatus(st, v)
      [] op = "Unregister" -> Unregister(st)

(* A connection counts as steady once a unit has passed since it came up.  *)
Steady == stream["own"] # None /\ stream["own"].pc = "open" /\ stream["own"].steady

(* The controller authenticates the exporter, which reads its object, and  *)
(* changes that copy. A status that equals the one read is left out of the *)
(* patch, so a call that was given up on may still overrule it: alone      *)
(* records that there was none.                                            *)
Begin(op, v) ==
    /\ call["awaited"] = None
    /\ call' = [call EXCEPT !["awaited"] = [op |-> op, value |-> v, patch |-> PatchOf(op, v),
                                            alone |-> call["late"] = None]]
    /\ UNCHANGED <<st, ctl, stream, faults, reported>>

AfterCall(op) ==
    CASE op = "Register" /\ proc = "registering"     -> "up"
      [] op = "Report" /\ proc = "leaving"           -> "unregistering"
      [] op = "Unregister" /\ proc = "unregistering" -> "off"
      [] OTHER                                       -> proc

HandleCall(c) ==
    /\ call[c] # None
    /\ Patch(call[c].patch, TRUE)
    /\ call' = [call EXCEPT ![c] = None]
    /\ proc' = IF c = "awaited" THEN AfterCall(call[c].op) ELSE proc
    /\ reported' = IF c = "awaited" /\ call[c].op = "Report" /\ Steady /\ call[c].alone
                   THEN call[c].value ELSE reported
    /\ UNCHANGED <<cache, queued, armed, pass, stream, faults>>

(* The call is lost or fails, or goes on in the controller after the       *)
(* exporter has given up on it.                                            *)
Abandoned ==
    \/ call' = [call EXCEPT !["awaited"] = None]
    \/ /\ call["late"] = None /\ call["awaited"] # None
       /\ call' = [c \in Calls |-> IF c = "late" THEN call["awaited"] ELSE None]

(* A failed Register ends the process; leaving goes on regardless.         *)
GiveUp ==
    /\ call["awaited"] # None
    /\ Abandoned
    /\ proc' = IF proc = "registering" THEN "off" ELSE AfterCall(call["awaited"].op)
    /\ reported' = None
    /\ Fault
    /\ UNCHANGED <<st, ctl, stream>>

-----------------------------------------------------------------------------
(* The exporter process                                                    *)

Start ==
    /\ proc = "off" /\ proc' = "registering"
    /\ Begin("Register", "")

Report(v) ==
    /\ \/ proc = "up" /\ v \in Values
       \/ proc = "leaving" /\ v = "Offline"
    /\ Begin("Report", v)
    /\ UNCHANGED proc

SendUnregister ==
    /\ proc = "unregistering"
    /\ Begin("Unregister", "Offline")
    /\ UNCHANGED proc

(* The handler of a lost connection goes on until its context is done.     *)
HangUp ==
    /\ stream["old"] = None
    /\ stream' = [s \in Streams |-> IF s = "old" THEN stream["own"] ELSE None]
    /\ reported' = None

(* The connection breaks; _retry_stream calls Status again later.          *)
Disconnect ==
    /\ stream["own"] # None
    /\ HangUp
    /\ Fault
    /\ UNCHANGED <<st, ctl, call, proc>>

(* serve() ends, in an orderly way or with the process.                    *)
Leave ==
    /\ proc = "up"
    /\ proc' \in {"leaving", "off"}
    /\ Abandoned
    /\ HangUp
    /\ Fault
    /\ UNCHANGED <<st, ctl>>

-----------------------------------------------------------------------------
(* The Status stream                                                       *)

(* The first write of a Status call clears an Offline status.              *)
FirstPatch(s) ==
    [Diff(s, [s EXCEPT !.value = IF @ = "Offline" THEN "" ELSE @]) EXCEPT !.seen = 0]

Connect ==
    /\ proc = "up" /\ stream["own"] = None
    /\ stream' = [stream EXCEPT !["own"] =
                    [pc |-> "start", patch |-> FirstPatch(st), ticked |-> FALSE, steady |-> FALSE]]
    /\ UNCHANGED <<st, ctl, call, proc, faults, reported>>

StatusStart(s) ==
    /\ stream[s] # None /\ stream[s].pc = "start"
    /\ Patch(stream[s].patch, TRUE)
    /\ stream' = [stream EXCEPT ![s].pc = "open", ![s].patch = None]
    /\ UNCHANGED <<cache, queued, armed, pass, call, proc, faults, reported>>

(* The ticker.                                                             *)
online(s) ==
    /\ stream[s] # None /\ stream[s].pc = "open" /\ ~stream[s].ticked
    /\ Patch([Diff(st, st) EXCEPT !.seen = 0], TRUE)
    /\ stream' = [stream EXCEPT ![s].ticked = TRUE]
    /\ UNCHANGED <<cache, queued, armed, pass, call, proc, faults, reported>>

(* The handler returns when its context is done, or early: the watch is    *)
(* closed, stops or reports an error, or the lease cannot be read.         *)
StatusEnds ==
    /\ stream["old"] # None
    /\ stream' = [stream EXCEPT !["old"] = None]
    /\ UNCHANGED <<st, ctl, call, proc, faults, reported>>
StatusFails ==
    /\ stream["own"] # None /\ stream["own"].pc = "open"
    /\ stream' = [stream EXCEPT !["own"] = None]
    /\ reported' = None
    /\ Fault
    /\ UNCHANGED <<st, ctl, call, proc>>

-----------------------------------------------------------------------------
(* The reconciler                                                          *)

SyncCache ==
    /\ stale
    /\ cache' = st
    /\ stale' = FALSE
    /\ queued' = TRUE
    /\ UNCHANGED <<st, armed, pass, call, stream, proc, faults, reported>>

(* Mutant: an exporter that was seen is online, also after it has left.    *)
OnlineWhenSeen(s) ==
    CASE s.seen = Never        -> [s EXCEPT !.online = FALSE]
      [] s.seen > Minute       -> [s EXCEPT !.online = FALSE, !.value = "Offline"]
      [] s.seen \in 0 .. Minute -> [s EXCEPT !.online = TRUE]

reconcileStatusConditionsOnline(s) ==
    CASE s.seen = Never        -> [s EXCEPT !.online = FALSE]
      [] s.seen > Minute       -> [s EXCEPT !.online = FALSE, !.value = "Offline"]
      [] s.seen \in 0 .. Minute -> [s EXCEPT !.online = s.value # "Offline"]

(* The conditions may be in the patch only because of a reason or message. *)
PassStart ==
    LET new == reconcileStatusConditionsOnline(cache)
        diff == Diff(cache, new)
    IN  /\ queued /\ pass = None
        /\ pass' \in [patch : {diff, [diff EXCEPT !.online = new.online]},
                      requeue : {new.online}]
        /\ queued' = FALSE
        /\ UNCHANGED <<st, cache, stale, armed, call, stream, proc, faults, reported>>

(* Mutant: no requeue.                                                     *)
PassPatchOnce ==
    /\ pass # None
    /\ Patch(pass.patch, FALSE)
    /\ pass' = None
    /\ UNCHANGED <<cache, queued, armed, call, stream, proc, faults, reported>>

PassPatch ==
    /\ pass # None
    /\ Patch(pass.patch, FALSE)
    /\ armed' = (armed \/ pass.requeue)
    /\ pass' = None
    /\ UNCHANGED <<cache, queued, call, stream, proc, faults, reported>>

PassFails ==
    /\ pass # None
    /\ pass' = None
    /\ queued' = TRUE
    /\ Fault
    /\ UNCHANGED <<st, cache, stale, armed, call, stream, proc, reported>>

-----------------------------------------------------------------------------
(* Time                                                                    *)

Older(s) ==
    [s EXCEPT !.seen = IF @ = Never \/ @ > Minute THEN @ ELSE @ + 1]

Settled ==
    /\ ~stale /\ ~queued /\ pass = None
    /\ \A c \in Calls : call[c] = None
    /\ stream["old"] = None
    /\ stream["own"] # None => stream["own"].pc = "open" /\ stream["own"].ticked

Tick ==
    /\ Settled
    /\ st' = Older(st)
    /\ cache' = Older(cache)
    /\ queued' = armed
    /\ armed' = FALSE
    /\ stream' = IF stream["own"] = None THEN stream
                 ELSE [stream EXCEPT !["own"].ticked = FALSE, !["own"].steady = TRUE]
    /\ UNCHANGED <<stale, pass, call, proc, faults, reported>>

-----------------------------------------------------------------------------
Fresh == [value |-> "", seen |-> Never, online |-> FALSE]

Init ==
    /\ st = Fresh /\ cache = Fresh
    /\ stale = FALSE /\ queued = FALSE /\ armed = FALSE /\ pass = None
    /\ call = [c \in Calls |-> None]
    /\ stream = [s \in Streams |-> None]
    /\ proc = "off"
    /\ faults = 0
    /\ reported = None

Exporter ==
    \/ Start \/ SendUnregister \/ GiveUp \/ Connect \/ Disconnect \/ Leave
    \/ \E v \in Values \cup {"Offline"} : Report(v)

Controller ==
    \/ \E c \in Calls : HandleCall(c)
    \/ \E s \in Streams : StatusStart(s) \/ online(s)
    \/ StatusEnds \/ StatusFails
    \/ SyncCache \/ PassStart \/ PassPatch \/ PassFails

Next == Exporter \/ Controller \/ Tick

Spec == Init /\ [][Next]_vars

(* Handlers, the cache, the watches and the reconciler make progress, and  *)
(* a pass that keeps failing is retried until it succeeds.                 *)
Fairness ==
    /\ \A c \in Calls : WF_vars(HandleCall(c))
    /\ \A s \in Streams : WF_vars(StatusStart(s)) /\ WF_vars(online(s))
    /\ WF_vars(StatusEnds)
    /\ WF_vars(SyncCache) /\ WF_vars(PassStart) /\ SF_vars(PassPatch)
    /\ WF_vars(Tick)

FairSpec == Spec /\ Fairness

-----------------------------------------------------------------------------
(* Properties                                                              *)

TypeOK ==
    /\ st \in Status /\ cache \in Status
    /\ {stale, queued, armed} \subseteq BOOLEAN
    /\ pass \in PassOf \cup {None}
    /\ call \in [Calls -> CallOf \cup {None}]
    /\ stream \in [Streams -> StreamOf \cup {None}]
    /\ proc \in {"off", "registering", "up", "leaving", "unregistering"}
    /\ reported \in Values \cup {None}

(* A status reported over such a connection, while no call that was given  *)
(* up is under way, stays until the exporter reports another: neither a    *)
(* late first patch of an older stream nor a pass computed from an older   *)
(* copy replaces it.                                                       *)
SteadyReportIsKept == reported # None => st.value = reported

(* An exporter that is gone, with or without Unregister, ends up shown     *)
(* offline for good, also when a call it gave up on is applied last.       *)
SilentGoesOffline ==
    <>[](stream["own"] = None /\ call["awaited"] = None) =>
      <>[](~st.online /\ (st.value = "Offline" \/ st.seen = Never))

(* The Online condition, "kept consistent" with the status by every        *)
(* writer (controller_service.go:408), contradicts it only for a while.    *)
OnlineAgrees ==
    (st.online /\ st.value = "Offline") ~> ~(st.online /\ st.value = "Offline")

=============================================================================
