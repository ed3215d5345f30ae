---------------------------- MODULE ClientLease -----------------------------
(***************************************************************************)
(* A client's use of one lease (python/packages/jumpstarter/jumpstarter/   *)
(* client/lease.py): request or adopt a lease, poll it until it is ready,  *)
(* use it under the watch of monitor_async, and release it on the way out, *)
(* whatever the reason for leaving.  The controller's side of the lease is *)
(* in LeaseController; here it is the environment.                         *)
(*                                                                         *)
(* One tick of the clock is a few seconds, shorter than check_interval.  A *)
(* call of the monitor takes up to Latency ticks.                          *)
(***************************************************************************)
EXTENDS Integers

CONSTANTS
    MaxTime,     \* the clock stops here
    Interval,    \* check_interval
    Latency,
    Durations,   \* of a lease
    MaxFaults,   \* calls of the monitor that fail
    MaxChanges,  \* changes to the lease made by somebody else
    None

VARIABLES
    lease,       \* the lease the client's name refers to, or the one it is creating
    own,         \* the client owns that lease and its selector is the wanted one
    name,        \* self.name is that lease
    release,     \* self.release
    pc,          \* request_async, the body of the context, and its finally
    clock,
    wake,        \* when the monitor's sleep ends; None while it does not run
    last,        \* last_known_end_time
    lease_ended,
    faults, changes

vars == <<lease, own, name, release, pc, clock, wake, last, lease_ended, faults, changes>>

Phases == {"none", "pending", "ready", "unsatisfiable", "invalid", "ended"}
Lease == [phase : Phases, end : 0 .. MaxTime]
Active == lease.phase \notin {"none", "ended"}

(* The types of the client's fields, and a monitor that runs only while    *)
(* the lease is in use.                                                    *)
TypeOK ==
    /\ lease \in Lease /\ own \in {"yes", "selector", "client"}
    /\ name \in BOOLEAN /\ release \in BOOLEAN
    /\ pc \in {"start", "creating", "created", "acquiring", "using", "leaving", "deleting", "done", "abandoned"}
    /\ clock \in 0 .. MaxTime
    /\ wake \in 0 .. MaxTime + Interval \cup {None} /\ last \in 0 .. MaxTime \cup {None}
    /\ wake # None => pc = "using"
    /\ lease_ended \in BOOLEAN /\ faults \in 0 .. MaxFaults
    /\ changes \in 0 .. MaxChanges

(* lease_async: without a name (an option or JMP_LEASE) the client makes a *)
(* lease of its own and releases it; a lease it was given is kept.         *)
Init ==
    /\ name \in BOOLEAN /\ release = ~name
    /\ lease \in IF name THEN [phase : {"pending", "ended"}, end : {0}]
                            \cup [phase : {"ready"}, end : Durations]
                 ELSE [phase : {"none"}, end : {0}]
    /\ own \in IF name THEN {"yes", "selector", "client"} ELSE {"yes"}
    /\ pc = "start"
    /\ clock = 0 /\ wake = None /\ last = None
    /\ lease_ended = FALSE /\ faults = 0 /\ changes = 0

Fault == faults < MaxFaults /\ faults' = faults + 1
Change == changes < MaxChanges /\ changes' = changes + 1
Goto(label) == pc' = label
counts == <<faults, changes>>
monitor == <<clock, wake, last, lease_ended>>

-----------------------------------------------------------------------------
(* Acquisition                                                             *)

(* The finally clause: nothing to do for a lease that is kept, or that has *)
(* no name yet.                                                            *)
Leave == Goto(IF release /\ name THEN "leaving" ELSE "done")

(* request_async: a lease that has ended or is another client's is         *)
(* refused; one with another selector is given up for a new one.           *)
request_async ==
    /\ pc = "start"
    /\ IF ~name THEN Goto("creating") /\ UNCHANGED <<lease, own, name>>
       ELSE IF lease.phase = "ended" \/ own = "client" THEN Leave /\ UNCHANGED <<lease, own, name>>
       ELSE IF own = "selector"
            THEN /\ name' = FALSE /\ own' = "yes"
                 /\ lease' = [phase |-> "none", end |-> 0]
                 /\ Goto("creating")
       ELSE Goto("acquiring") /\ UNCHANGED <<lease, own, name>>
    /\ UNCHANGED <<release, monitor, counts>>

(* External: CreateLease at the controller.                                *)
CreateLease ==
    /\ pc = "creating" /\ lease.phase = "none"
    /\ lease' = [lease EXCEPT !.phase = "pending"]
    /\ Goto("created")
    /\ UNCHANGED <<own, name, release, monitor, counts>>

(* _create: the reply brings the name.                                     *)
_create ==
    /\ pc = "created"
    /\ name' = TRUE
    /\ Goto("acquiring")
    /\ UNCHANGED <<lease, own, release, monitor, counts>>

(* A poll of _acquire that settles it: ready, or unsatisfiable, invalid,   *)
(* or neither pending nor ready.  A poll that finds the lease pending, and *)
(* a ConnectionError, are followed by another poll.  The retry with a new  *)
(* lease when the reason is NoExporter (lease.py:267) is left out: it is   *)
(* there for older controllers, and this one gives no such reason.         *)
_acquire ==
    /\ pc = "acquiring"
    /\ \/ /\ lease.phase = "ready"
          /\ Goto("using") /\ wake' = clock
       \/ /\ lease.phase \in {"unsatisfiable", "invalid", "ended"}
          /\ Leave /\ UNCHANGED wake
    /\ UNCHANGED <<lease, own, name, release, clock, last, lease_ended, counts>>

(* A call before the acquisition fails, or the caller cancels.             *)
GiveUp ==
    /\ pc \in {"start", "creating", "created"}
    /\ Leave
    /\ UNCHANGED <<lease, own, name, release, monitor, counts>>

(* fail_after(acquisition_timeout), or the caller cancels.                 *)
AcquisitionTimesOut ==
    /\ pc = "acquiring"
    /\ Leave
    /\ UNCHANGED <<lease, own, name, release, monitor, counts>>

-----------------------------------------------------------------------------
(* The monitor                                                             *)

Soonest(a, b) == IF a < b THEN a ELSE b

(* sleep(t); a sleep of 0 still lets a tick pass before the next call.     *)
Sleep(t) == wake' = clock + (IF t < 1 THEN 1 ELSE t)

(* _notify_lease_ending(0) and the break that follows it.                  *)
_notify_lease_ending == lease_ended' = TRUE /\ wake' = None

Due == pc = "using" /\ wake # None /\ wake <= clock

(* Mutant: the monitor sleeps for as long as the lease should last.        *)
SleepToEnd(remain) == Sleep(remain)

SleepRemain(remain) == Sleep(Soonest(remain, Interval))

(* A call that is answered.                                                *)
MonitorGets ==
    /\ Due
    /\ last' = lease.end
    /\ IF lease.end < clock THEN _notify_lease_ending
                            ELSE SleepRemain(lease.end - clock) /\ UNCHANGED lease_ended
    /\ UNCHANGED <<lease, own, name, release, pc, clock, counts>>

(* A call that fails: what the last one told of the end is all there is.   *)
MonitorFails ==
    /\ Due /\ Fault
    /\ IF last = None THEN Sleep(Interval) /\ UNCHANGED lease_ended
       ELSE IF last <= clock THEN _notify_lease_ending
       ELSE SleepRemain(last - clock) /\ UNCHANGED lease_ended
    /\ UNCHANGED <<lease, own, name, release, pc, clock, last, changes>>

(* The body of the context ends, and the monitor is cancelled with it.     *)
UseEnds ==
    /\ pc = "using"
    /\ Leave /\ wake' = None
    /\ UNCHANGED <<lease, own, name, release, clock, last, lease_ended, counts>>

-----------------------------------------------------------------------------
(* Cleanup, shielded from cancellation                                     *)

(* get, for the log; it fails, or the thirty seconds pass: no DeleteLease. *)
CleanupGets ==
    /\ pc = "leaving"
    /\ \/ Goto("deleting")
       \/ Goto("abandoned")
    /\ UNCHANGED <<lease, own, name, release, monitor, counts>>

(* Mutant: a lease whose use is over is not deleted.                       *)
CleanupOnlyLogs ==
    /\ pc = "deleting"
    /\ Goto("done")
    /\ UNCHANGED <<lease, own, name, release, monitor, counts>>

(* DeleteLease.  The controller ends the lease in its own time; a second   *)
(* release is refused, and the refusal is logged.                          *)
CleanupDeletes ==
    /\ pc = "deleting"
    /\ \/ /\ lease' = [phase |-> "ended", end |-> IF Active THEN clock ELSE lease.end]
          /\ Goto("done")
       \/ Goto("abandoned") /\ UNCHANGED lease
    /\ UNCHANGED <<own, name, release, monitor, counts>>

-----------------------------------------------------------------------------
(* External: the controller and other users of the lease                   *)

LeaseSettles(p, d) ==
    /\ lease.phase = "pending"
    /\ lease' = [phase |-> p, end |-> IF p = "ready" THEN Soonest(clock + d, MaxTime) ELSE 0]
    /\ UNCHANGED <<own, name, release, pc, monitor, counts>>

(* UpdateLease: the end is moved, but not into the past.                   *)
LeaseChanges(d) ==
    /\ lease.phase = "ready" /\ Change /\ clock + d # lease.end /\ clock + d <= MaxTime
    /\ lease' = [lease EXCEPT !.end = clock + d]
    /\ UNCHANGED <<own, name, release, pc, monitor, faults>>

(* Released by somebody else, or expired.                                  *)
LeaseEnds ==
    /\ lease.phase = "ready"
    /\ IF clock < lease.end THEN Change ELSE UNCHANGED changes
    /\ lease' = [phase |-> "ended", end |-> Soonest(clock, lease.end)]
    /\ UNCHANGED <<own, name, release, pc, monitor, faults>>

(* Time passes, but not past a call of the monitor that is due.            *)
Tick ==
    /\ clock < MaxTime
    /\ wake # None => clock < wake + Latency
    /\ clock' = clock + 1
    /\ UNCHANGED <<lease, own, name, release, pc, wake, last, lease_ended, counts>>

Request == request_async \/ CreateLease \/ _create
Cleanup == CleanupGets \/ CleanupDeletes

Next ==
    \/ Request \/ _acquire \/ GiveUp \/ AcquisitionTimesOut
    \/ MonitorGets \/ MonitorFails \/ UseEnds \/ Cleanup
    \/ \E p \in {"ready", "unsatisfiable", "invalid"}, d \in Durations : LeaseSettles(p, d)
    \/ \E d \in Durations : LeaseChanges(d)
    \/ LeaseEnds \/ Tick

Spec == Init /\ [][Next]_vars

-----------------------------------------------------------------------------
(* "release on contexts exit": a lease the client made and learned the     *)
(* name of is not left behind, however the client came to leave, unless a  *)
(* call of the cleanup failed.                                             *)
ReleasedOnExit == pc = "done" /\ release /\ name => ~Active

(* The end of the lease is noticed.  Whatever the calls of the monitor     *)
(* return, a user is told that the end it last heard of has passed, one    *)
(* call after it at the latest.  And a lease that ends, early or in its    *)
(* time, is noticed within an interval, the time of a call and the tick    *)
(* that tells "over" from "ending now", if no call fails.                  *)
EndIsNoticed ==
    pc = "using" /\ last # None /\ ~lease_ended =>
      /\ clock <= last + Latency + 1
      /\ lease.phase = "ended" /\ faults = 0 => clock <= lease.end + Interval + Latency + 1
=============================================================================
