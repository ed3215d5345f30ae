---------------------------- MODULE StatusMonitor ----------------------------
(***************************************************************************)
(* The client's StatusMonitor (client/status_monitor.py): the poll loop    *)
(* over GetStatus, the change event that it sets and replaces, and tasks   *)
(* in wait_for_status and wait_for_any_of.  The tasks share one event      *)
(* loop, so the code between two awaits is one action.                     *)
(*                                                                         *)
(* The exporter's session numbers its statuses.  Messages, intervals,      *)
(* callbacks and the events per status, which nobody waits for, are left   *)
(* out.  A monitor is started once, as by status_monitor_async.            *)
(***************************************************************************)
EXTENDS Naturals, Sequences

CONSTANTS
    Waiters,      \* tasks that wait
    AnyOf,        \* those of them in wait_for_any_of
    Targets,      \* Targets[w]: the statuses that w waits for
    History,      \* the statuses the exporter goes through
    MaxDeadlines, \* consecutive timeouts after which the connection is lost
    MaxErrors,    \* bound: calls that fail for other reasons
    None

Ready == "LEASE_READY"
Statuses == {History[i] : i \in 1 .. Len(History)} \cup {Ready}
Last == Len(History) - 1
StatusOf(v) == History[v + 1]

VARIABLES
    now,          \* the exporter's status_version
    implemented,  \* the exporter's session has GetStatus
    current, version, running, lost, missed,  \* fields of the monitor
    event,        \* number of the change event; those before it are set
    stop,         \* the stop event
    loop,         \* the poll loop
    reply,        \* the answer to the loop's GetStatus that has not arrived yet
    deadlines,    \* deadline_retries
    errors,
    pc, seen      \* the waiters, and the event each has captured

vars == <<now, implemented, current, version, running, lost, missed, event, stop,
          loop, reply, deadlines, errors, pc, seen>>
fields == <<current, version, running, lost, missed, event, stop>>

(* The types of the variables.                                             *)
TypeOK ==
    /\ now \in 0 .. Last /\ implemented \in BOOLEAN
    /\ current \in Statuses \cup {None}
    /\ {version, missed} \subseteq 0 .. Last
    /\ {running, lost, stop} \subseteq BOOLEAN
    /\ event \in 0 .. Len(History) + 1
    /\ loop \in {"off", "call", "sleep", "ended"}
    /\ reply \in (0 .. Last) \cup {None}
    /\ deadlines \in 0 .. MaxDeadlines /\ errors \in 0 .. MaxErrors
    /\ pc \in [Waiters -> {"idle", "verify", "waiting", "reached", "not", "timeout"}]
    /\ seen \in [Waiters -> 0 .. Len(History) + 1]

Init ==
    /\ now = 0 /\ implemented \in BOOLEAN
    /\ current = None /\ version = 0 /\ running = FALSE /\ lost = FALSE /\ missed = 0
    /\ event = 0 /\ stop = FALSE
    /\ loop = "off" /\ reply = None /\ deadlines = 0 /\ errors = 0
    /\ pc = [w \in Waiters |-> "idle"] /\ seen = [w \in Waiters |-> 0]

-----------------------------------------------------------------------------
(* The exporter                                                            *)

update_status ==
    /\ now < Last /\ now' = now + 1
    /\ UNCHANGED <<implemented, fields, loop, reply, deadlines, errors, pc, seen>>

(* GetStatus, for the poll loop.                                           *)
GetStatus ==
    /\ implemented /\ loop = "call" /\ reply = None
    /\ reply' = now
    /\ UNCHANGED <<now, implemented, fields, loop, deadlines, errors, pc, seen>>

-----------------------------------------------------------------------------
(* The poll loop                                                           *)

start ==
    /\ loop = "off"
    /\ running' = TRUE /\ loop' = "call"
    /\ UNCHANGED <<now, implemented, current, version, lost, missed, event, stop,
                   reply, deadlines, errors, pc, seen>>

Change == event' = event + 1

Missed(v) == IF version > 0 /\ v > version + 1 THEN missed + (v - version - 1) ELSE missed

PollReply ==
    /\ loop = "call" /\ reply # None
    /\ LET v == reply
       IN  /\ missed' = Missed(v)
           /\ current' = StatusOf(v) /\ version' = v
           /\ IF current # StatusOf(v) THEN Change ELSE UNCHANGED event
    /\ lost' = FALSE /\ deadlines' = 0
    /\ reply' = None
    /\ loop' = "sleep"
    /\ UNCHANGED <<now, implemented, running, stop, errors, pc, seen>>

_signal_unsupported ==
    /\ loop = "call" /\ ~implemented
    /\ current' = Ready /\ running' = FALSE /\ Change
    /\ loop' = "ended"
    /\ UNCHANGED <<now, implemented, version, lost, missed, stop,
                   reply, deadlines, errors, pc, seen>>

(* UNAVAILABLE and other errors: the next round after the pause.           *)
PollError ==
    /\ loop = "call" /\ errors < MaxErrors
    /\ errors' = errors + 1
    /\ reply' = None
    /\ loop' = "sleep"
    /\ UNCHANGED <<now, implemented, fields, deadlines, pc, seen>>

(* Mutant: the waiters are not told.                                       *)
DeadlineUntold ==
    /\ loop = "call" /\ implemented
    /\ reply' = None
    /\ deadlines' = deadlines + 1
    /\ IF deadlines' >= MaxDeadlines
       THEN lost' = TRUE /\ running' = FALSE /\ loop' = "ended" /\ UNCHANGED event
       ELSE loop' = (IF running THEN "call" ELSE "ended") /\ UNCHANGED <<lost, running, event>>
    /\ UNCHANGED <<now, implemented, current, version, missed, stop, errors, pc, seen>>

(* DEADLINE_EXCEEDED: the next round without a pause, up to a number.      *)
PollDeadline ==
    /\ loop = "call" /\ implemented
    /\ reply' = None
    /\ deadlines' = deadlines + 1
    /\ IF deadlines' >= MaxDeadlines
       THEN lost' = TRUE /\ running' = FALSE /\ Change /\ loop' = "ended"
       ELSE loop' = (IF running THEN "call" ELSE "ended") /\ UNCHANGED <<lost, running, event>>
    /\ UNCHANGED <<now, implemented, current, version, missed, stop, errors, pc, seen>>

(* The pause ends, or the stop event ends the loop.                        *)
PollSleep ==
    /\ loop = "sleep"
    /\ loop' = IF stop \/ ~running THEN "ended" ELSE "call"
    /\ UNCHANGED <<now, implemented, fields, reply, deadlines, errors, pc, seen>>

Stop ==
    /\ loop # "off" /\ ~stop
    /\ running' = FALSE /\ stop' = TRUE
    /\ UNCHANGED <<now, implemented, current, version, lost, missed, event,
                   loop, reply, deadlines, errors, pc, seen>>

-----------------------------------------------------------------------------
(* The waiters                                                             *)

(* wait_loop and wait_for_first up to their await, on the monitor's fields *)
(* as they are then: the loop's conditions, and the last look that only    *)
(* wait_for_any_of takes.                                                  *)
Reached(w, cur) == cur \in Targets[w]

WaitLoop(w, cur, isLost) ==
    IF running /\ ~isLost
    THEN IF Reached(w, cur)
         THEN pc' = [pc EXCEPT ![w] = "reached"] /\ UNCHANGED seen
         ELSE pc' = [pc EXCEPT ![w] = "waiting"] /\ seen' = [seen EXCEPT ![w] = event]
    ELSE /\ pc' = [pc EXCEPT ![w] = IF w \in AnyOf /\ Reached(w, cur) THEN "reached" ELSE "not"]
         /\ UNCHANGED seen

(* The check before the loop.                                              *)
Enter(w, cur, isLost) ==
    IF Reached(w, cur)
    THEN pc' = [pc EXCEPT ![w] = "reached"] /\ UNCHANGED seen
    ELSE WaitLoop(w, cur, isLost)

BeginWait(w) ==
    /\ pc[w] = "idle" /\ loop # "off"
    /\ IF lost THEN pc' = [pc EXCEPT ![w] = "verify"] /\ UNCHANGED seen
               ELSE Enter(w, current, FALSE)
    /\ UNCHANGED <<now, implemented, fields, loop, reply, deadlines, errors>>

(* The quick poll of a waiter that finds the connection lost, answered.    *)
Verified(w) ==
    /\ pc[w] = "verify" /\ implemented
    /\ lost' = FALSE /\ current' = StatusOf(now) /\ version' = now
    /\ Enter(w, StatusOf(now), FALSE)
    /\ UNCHANGED <<now, implemented, running, missed, event, stop, loop, reply, deadlines, errors>>

(* Still lost, or another error, which lets the waiter go on.              *)
NotVerified(w) ==
    /\ pc[w] = "verify"
    /\ \/ pc' = [pc EXCEPT ![w] = "not"] /\ UNCHANGED seen
       \/ Enter(w, current, lost)
    /\ UNCHANGED <<now, implemented, fields, loop, reply, deadlines, errors>>

Wake(w) ==
    /\ pc[w] = "waiting" /\ seen[w] < event
    /\ WaitLoop(w, current, lost)
    /\ UNCHANGED <<now, implemented, fields, loop, reply, deadlines, errors>>

(* move_on_after; it may win over an event that was just set.              *)
TimeOut(w) ==
    /\ pc[w] = "waiting"
    /\ pc' = [pc EXCEPT ![w] = "timeout"]
    /\ UNCHANGED <<now, implemented, fields, loop, reply, deadlines, errors, seen>>

-----------------------------------------------------------------------------
Poll == PollReply \/ _signal_unsupported \/ PollError \/ PollDeadline \/ PollSleep \/ GetStatus

Verify(w) == Verified(w) \/ NotVerified(w)

Next ==
    \/ update_status \/ start \/ Poll \/ Stop
    \/ \E w \in Waiters : BeginWait(w) \/ Verify(w) \/ Wake(w) \/ TimeOut(w)

Spec == Init /\ [][Next]_vars

(* The tasks run; a call that is made again and again succeeds.            *)
Fairness ==
    /\ WF_vars(Poll) /\ SF_vars(PollReply)
    /\ \A w \in Waiters : WF_vars(Wake(w) \/ Verify(w))
FairSpec == Spec /\ Fairness

-----------------------------------------------------------------------------
(* Properties                                                              *)

(* A waiter is not left behind by an event that is set and replaced at     *)
(* once: when the poll loop gives up or finds GetStatus missing, and when  *)
(* the exporter stays in a status that it waits for, it returns.  (stop()  *)
(* sets another event and wakes nobody.)                                   *)
WaitersReturn ==
    \A w \in Waiters :
        (pc[w] = "waiting" /\ (~running \/ (now = Last /\ Reached(w, StatusOf(now)))))
        ~> (pc[w] # "waiting" \/ stop)

=============================================================================
