--------------------------- MODULE ExporterRuntime ---------------------------
(***************************************************************************)
(* The exporter process: the control-plane loop that follows the Status    *)
(* stream, and for each lease the tasks handle_lease, run_before_lease_hook*)
(* and _handle_end_session, the release of the lease and the reports of    *)
(* the exporter's status to the controller.                                *)
(*                                                                         *)
(* The tasks share one event loop: a task runs from one await that can     *)
(* suspend it to the next in one step.  The controller is here only what   *)
(* the exporter sees of it: the lease it has assigned (Exporter.Status.    *)
(* LeaseRef) and the status last reported to it, which must be Available   *)
(* for another assignment (filterOutNotReadyExporters).                    *)
(***************************************************************************)
EXTENDS Integers, Sequences, FiniteSets

CONSTANTS Leases, NoLease,
          Configs,       \* the exporter configurations considered
          EndsEarly,     \* leases may end before the exporter has picked them up
          MaxReconnects, \* bound on reconnections of the Status stream
          MaxFailures    \* bound on release calls that fail after their retries

Results == {"ok", "endLease", "exit", "error"}

(* executor: hooks are configured at all; before, after: which of them;    *)
(* results: what they may come to, given their onFailure ("ok" includes a  *)
(* failure that only warns).                                               *)
Config == [executor : BOOLEAN, before : BOOLEAN, after : BOOLEAN,
           beforeResults : SUBSET Results, afterResults : SUBSET Results,
           exitOnLeaseEnd : BOOLEAN]

(* What told is before the stream has said anything.                       *)
Unknown == "unknown"

ASSUME ConfigAssumption ==
    /\ NoLease \notin Leases /\ Unknown \notin Leases
    /\ Configs \subseteq Config
    /\ EndsEarly \in BOOLEAN /\ MaxReconnects \in Nat /\ MaxFailures \in Nat

VARIABLES config,
          assigned, used,     \* the controller: its lease here, those it ever had
          released,           \* the leases the exporter has asked it to release
          seen,               \* the status the controller has stored
          told,               \* what the Status stream has said last
          control,            \* the channel of the control-plane loop
          slot,               \* _lease_context
          lastCompleted, pendingLease,
          stopRequested, started, running,
          ctx,                \* the LeaseContext of each lease: the events set
          pc,                 \* the tasks of each lease
          releasing,          \* the lease a ReleaseLease call names
          report,             \* _pending_status_request, not yet sent
          reconnects, failures

controllerVars == <<assigned, used, released, seen, told>>
loopVars == <<control, slot, lastCompleted, pendingLease, started>>
vars == <<config, controllerVars, loopVars, stopRequested, running, ctx, pc,
          releasing, report, reconnects, failures>>

Events == {"ended", "endSession", "started", "done", "before", "skip", "ready"}
Tasks == {"before", "lease", "end"}
Statuses == {"Available", "LeaseReady", "BeforeLeaseHook", "AfterLeaseHook",
             "BeforeLeaseHookFailed", "AfterLeaseHookFailed", "Offline"}
NoReport == "none"

Status(l) == [kind |-> "status", lease |-> l]
LeaseFinished(l) == [kind |-> "finished", lease |-> l]
Message == [kind : {"status", "finished"}, lease : Leases \cup {NoLease}]

TypeOK ==
    /\ config \in Configs
    /\ assigned \in Leases \cup {NoLease} /\ used \subseteq Leases
    /\ released \subseteq Leases
    /\ seen \in Statuses
    /\ told \in Leases \cup {NoLease, Unknown}
    /\ control \in Seq(Message)
    /\ slot \in Leases \cup {NoLease}
    /\ lastCompleted \in Leases \cup {NoLease}
    /\ pendingLease \in Leases \cup {NoLease}
    /\ stopRequested \in BOOLEAN /\ started \in BOOLEAN /\ running \in BOOLEAN
    /\ ctx \in [Leases -> SUBSET Events]
    /\ pc \in [Leases -> [Tasks ->
         {"none", "start", "session", "serve", "cleanup", "wait", "hook",
          "pause", "quit", "call", "return", "waitDone", "close", "gone"}]]
    /\ releasing \in [Leases -> [Tasks -> Leases \cup {NoLease}]]
    /\ report \in Statuses \cup {NoReport}
    /\ reconnects \in 0..MaxReconnects /\ failures \in 0..MaxFailures

Init ==
    /\ config \in Configs
    /\ assigned = NoLease /\ used = {} /\ released = {}
    /\ seen = "Available"            \* _register_with_controller has run
    /\ told = Unknown
    /\ control = <<>>
    /\ slot = NoLease /\ lastCompleted = NoLease /\ pendingLease = NoLease
    /\ stopRequested = FALSE /\ started = FALSE /\ running = TRUE
    /\ ctx = [l \in Leases |-> {}]
    /\ pc = [l \in Leases |-> [t \in Tasks |-> "none"]]
    /\ releasing = [l \in Leases |-> [t \in Tasks |-> NoLease]]
    /\ report = NoReport
    /\ reconnects = 0 /\ failures = 0

Set(l, events) == ctx' = [ctx EXCEPT ![l] = @ \cup events]
Goto(l, t, label) == pc' = [pc EXCEPT ![l][t] = label]
Report(status) == report' = status

-----------------------------------------------------------------------------
(* The controller, as far as the exporter can tell.                        *)

(* The lease reconciler gives the exporter to a new lease.                 *)
AssignLease(l) ==
    /\ assigned = NoLease /\ l \notin used
    /\ seen = "Available"
    /\ assigned' = l
    /\ used' = used \cup {l}
    /\ UNCHANGED <<config, released, seen, told, loopVars, stopRequested, running, ctx,
                   pc, releasing, report, reconnects, failures>>

PickedUp(l) == pc[l]["lease"] # "none"

(* The client releases the lease or it expires.                            *)
EndLease ==
    /\ assigned # NoLease
    /\ EndsEarly \/ PickedUp(assigned)
    /\ assigned' = NoLease
    /\ UNCHANGED <<config, used, released, seen, told, loopVars, stopRequested,
                   running, ctx, pc, releasing, report, reconnects, failures>>

(* ControllerService.Status sends what differs from what it sent before;   *)
(* _retry_stream passes it on to the channel.                              *)
SendStatus ==
    /\ running /\ told # assigned
    /\ told' = assigned
    /\ control' = Append(control, Status(assigned))
    /\ UNCHANGED <<config, assigned, used, released, seen, slot,
                   lastCompleted, pendingLease, started, stopRequested, running, ctx, pc,
                   releasing, report, reconnects, failures>>

(* The stream breaks and is opened again: the next message is the current  *)
(* state, sent before or not.                                              *)
Reconnect ==
    /\ running /\ told # Unknown /\ reconnects < MaxReconnects
    /\ told' = Unknown
    /\ reconnects' = reconnects + 1
    /\ UNCHANGED <<config, assigned, used, released, seen, loopVars,
                   stopRequested, running, ctx, pc, releasing, report, failures>>

-----------------------------------------------------------------------------
(* The control-plane loop.                                                 *)

_on_lease_acquired(l) ==
    /\ slot' = l
    /\ started' = TRUE
    /\ ctx' = [ctx EXCEPT ![l] = {}]
    /\ pc' = [pc EXCEPT ![l] = [t \in Tasks |->
                 IF t = "lease" THEN "start"
                 ELSE IF t = "before" /\ config.executor THEN "wait" ELSE "none"]]

(* Mutant: the slot is free as soon as the controller says so.             *)
FreeOnRelease ==
    /\ Set(slot, {"ended"})
    /\ slot' = NoLease
    /\ UNCHANGED <<lastCompleted, pendingLease, started, stopRequested, running, pc>>

(* A status that says not leased, with a lease in the slot.                *)
_on_lease_released ==
    /\ Set(slot, {"ended"})
    /\ stopRequested' = (stopRequested \/ config.exitOnLeaseEnd)
    /\ lastCompleted' = NoLease
    /\ UNCHANGED <<slot, pendingLease, started, running, pc>>

(* Mutant: a lease that replaces another is only noted, as if the status   *)
(* would come again.                                                       *)
ReassignForgets(l) ==
    /\ Set(slot, {"ended"})
    /\ UNCHANGED <<slot, lastCompleted, pendingLease, started, stopRequested, running, pc>>

(* A status that names another lease than the one in the slot.             *)
Reassigned(l) ==
    /\ pendingLease' = l
    /\ Set(slot, {"ended"})
    /\ UNCHANGED <<slot, lastCompleted, started, stopRequested, running, pc>>

(* _apply_status.  A lease already completed is a trailing status, a lease *)
(* in the slot only updates the client's name.                             *)
_apply_status(l) ==
    \/ /\ l # NoLease /\ slot = NoLease /\ l # lastCompleted
       /\ _on_lease_acquired(l)
       /\ UNCHANGED <<lastCompleted, pendingLease, stopRequested, running>>
    \/ /\ l # NoLease /\ (l = slot \/ (slot = NoLease /\ l = lastCompleted))
       /\ UNCHANGED <<slot, lastCompleted, pendingLease, started, stopRequested,
                      running, ctx, pc>>
    \/ /\ l # NoLease /\ slot \notin {l, NoLease}
       /\ Reassigned(l)
    \/ /\ l = NoLease /\ slot # NoLease
       /\ _on_lease_released
    \/ /\ l = NoLease /\ slot = NoLease
       /\ lastCompleted' = NoLease
       /\ running' = ~stopRequested
       /\ UNCHANGED <<slot, pendingLease, started, stopRequested, ctx, pc>>

HandleStatus ==
    /\ running /\ control # <<>> /\ Head(control).kind = "status"
    /\ control' = Tail(control)
    /\ _apply_status(Head(control).lease)
    /\ UNCHANGED <<config, controllerVars, releasing, report,
                   reconnects, failures>>

(* _on_lease_finished: the slot is free, a lease that came meanwhile is    *)
(* put back into the channel, a stop that waited for the lease is made.    *)
HandleFinished ==
    /\ running /\ control # <<>> /\ Head(control).kind = "finished"
    /\ IF slot = Head(control).lease
         THEN /\ lastCompleted' = slot
              /\ slot' = NoLease
              /\ stopRequested' = (stopRequested \/ config.exitOnLeaseEnd)
              /\ control' = IF pendingLease = NoLease THEN Tail(control)
                            ELSE Append(Tail(control), Status(pendingLease))
              /\ pendingLease' = NoLease
         ELSE /\ control' = Tail(control)
              /\ UNCHANGED <<lastCompleted, slot, stopRequested, pendingLease>>
    /\ running' = ~stopRequested'
    /\ UNCHANGED <<config, controllerVars, started, ctx, pc, releasing, report, reconnects, failures>>

(* stop(wait_for_lease_exit=True), the CLI's answer to SIGHUP.             *)
StopOnLeaseExit ==
    /\ running /\ ~stopRequested
    /\ IF started THEN stopRequested' = TRUE /\ UNCHANGED running
                  ELSE running' = FALSE /\ UNCHANGED stopRequested
    /\ UNCHANGED <<config, controllerVars, loopVars, ctx, pc, releasing,
                   report, reconnects, failures>>

-----------------------------------------------------------------------------
(* handle_lease.                                                           *)

ReportUnlessStopping == Report(IF stopRequested THEN report ELSE "Available")

(* The end of handle_lease, when the session is gone.                      *)
PostFinished(l) == control' = Append(control, LeaseFinished(l))

(* From the first yield to the session: a lease that has ended already is  *)
(* skipped (_skip_stale_lease).                                            *)
StartLease(l) ==
    /\ running /\ pc[l]["lease"] = "start"
    /\ IF "ended" \in ctx[l]
         THEN /\ Set(l, {"skip", "before", "done"})
              /\ ReportUnlessStopping
              /\ PostFinished(l)
              /\ Goto(l, "lease", "gone")
         ELSE /\ Goto(l, "lease", "session")
              /\ UNCHANGED <<ctx, report, control>>
    /\ UNCHANGED <<config, controllerVars, slot, lastCompleted, pendingLease,
                   started, stopRequested, running, releasing,
                   reconnects, failures>>

(* The session is up.  Unless the lease has ended meanwhile, connections   *)
(* are accepted; without hooks the lease is ready at once.                 *)
CreateSession(l) ==
    /\ running /\ pc[l]["lease"] = "session"
    /\ IF "ended" \in ctx[l]
         THEN /\ Set(l, {"ready", "skip", "before", "done"})
              /\ ReportUnlessStopping
              /\ Goto(l, "lease", "close")
         ELSE /\ pc' = [pc EXCEPT ![l]["lease"] = "serve", ![l]["end"] = "wait"]
              /\ IF config.executor
                   THEN Set(l, {"ready"}) /\ UNCHANGED report
                   ELSE Set(l, {"ready", "before"}) /\ Report("LeaseReady")
    /\ UNCHANGED <<config, controllerVars, loopVars, stopRequested, running,
                   releasing, reconnects, failures>>

(* wait_for_lease_end cancels the connections.                             *)
LeaseEnds(l) ==
    /\ running /\ pc[l]["lease"] = "serve" /\ "ended" \in ctx[l]
    /\ Goto(l, "lease", "cleanup")
    /\ UNCHANGED <<config, controllerVars, loopVars, stopRequested, running,
                   ctx, releasing, report, reconnects, failures>>

(* run_after_lease_hook, up to the hook.                                   *)
StartAfterHook(l, t) ==
    IF config.after THEN Report("AfterLeaseHook") /\ Goto(l, t, "hook")
                    ELSE Report("Available") /\ Goto(l, t, "pause")

(* Mutant: the hook is started whoever has started it already.             *)
CleanupAgain(l) ==
    /\ running /\ pc[l]["lease"] = "cleanup" /\ "before" \in ctx[l]
    /\ Set(l, {"started"}) /\ StartAfterHook(l, "lease")
    /\ UNCHANGED <<config, controllerVars, loopVars, stopRequested, running,
                   releasing, reconnects, failures>>

(* _cleanup_after_lease: waits for the beforeLease hook, then runs the     *)
(* afterLease hook unless EndSession has started it.                       *)
_cleanup_after_lease(l) ==
    /\ running /\ pc[l]["lease"] = "cleanup" /\ "before" \in ctx[l]
    /\ IF "started" \in ctx[l]
         THEN Goto(l, "lease", "waitDone") /\ UNCHANGED <<ctx, report>>
         ELSE IF config.executor /\ "skip" \notin ctx[l]
         THEN Set(l, {"started"}) /\ StartAfterHook(l, "lease")
         ELSE /\ Set(l, {"started", "done"})
              /\ ReportUnlessStopping
              /\ Goto(l, "lease", "close")
    /\ UNCHANGED <<config, controllerVars, loopVars, stopRequested, running,
                   releasing, reconnects, failures>>

(* The session's server has stopped; the slot is handed back.              *)
CloseSession(l) ==
    /\ running /\ pc[l]["lease"] = "close"
    /\ Set(l, {"before", "done"})
    /\ PostFinished(l)
    /\ Goto(l, "lease", "gone")
    /\ UNCHANGED <<config, controllerVars, slot, lastCompleted, pendingLease,
                   started, stopRequested, running, releasing, report,
                   reconnects, failures>>

-----------------------------------------------------------------------------
(* EndSession.                                                             *)

Serving == {"serve", "cleanup", "hook", "pause", "quit", "call", "return", "waitDone"}

(* The client's call, over a connection made after the beforeLease hook.   *)
EndSession(l) ==
    /\ running /\ pc[l]["lease"] \in Serving /\ "before" \in ctx[l]
    /\ "endSession" \notin ctx[l]
    /\ Set(l, {"endSession"})
    /\ UNCHANGED <<config, controllerVars, loopVars, stopRequested, running,
                   pc, releasing, report, reconnects, failures>>

(* Mutant: without a hook, done is left to the end of the lease.           *)
EndSessionNotDone(l) ==
    /\ running /\ pc[l]["end"] = "wait"
    /\ ctx[l] \cap {"endSession", "ended"} # {}
    /\ IF "endSession" \notin ctx[l]
         THEN UNCHANGED <<ctx, report>>
         ELSE Set(l, {"started"}) /\ Report("Available")
    /\ Goto(l, "end", "gone")
    /\ UNCHANGED <<config, controllerVars, loopVars, stopRequested, running,
                   releasing, reconnects, failures>>

(* The task that waits for it, or for the end of the lease.                *)
_handle_end_session(l) ==
    /\ running /\ pc[l]["end"] = "wait"
    /\ ctx[l] \cap {"endSession", "ended"} # {}
    /\ IF "endSession" \notin ctx[l]
         THEN Goto(l, "end", "gone") /\ UNCHANGED <<ctx, report>>
         ELSE IF "started" \in ctx[l]
         THEN Goto(l, "end", "waitDone") /\ UNCHANGED <<ctx, report>>
         ELSE IF config.executor /\ "skip" \notin ctx[l]
         THEN Set(l, {"started"}) /\ StartAfterHook(l, "end")
         ELSE /\ Set(l, {"started", "done"})
              /\ Report("Available")
              /\ Goto(l, "end", "gone")
    /\ UNCHANGED <<config, controllerVars, loopVars, stopRequested, running,
                   releasing, reconnects, failures>>

-----------------------------------------------------------------------------
(* The hooks.                                                              *)

(* Mutant: a lease that has ended is not noticed before the hook.          *)
WaitOnlyReady(l) ==
    /\ running /\ pc[l]["before"] = "wait" /\ "ready" \in ctx[l]
    /\ Report("BeforeLeaseHook")
    /\ Goto(l, "before", "hook")
    /\ UNCHANGED <<config, controllerVars, loopVars, stopRequested, running,
                   ctx, releasing, reconnects, failures>>

(* _wait_for_lease_ready and run_before_lease_hook up to the hook.  The    *)
(* session may take longer than the wait.                                  *)
WaitReady(l) ==
    /\ running /\ pc[l]["before"] = "wait"
    /\ \/ /\ "ready" \in ctx[l] /\ ~config.before
          /\ Report("LeaseReady")
          /\ Set(l, {"before"})
          /\ Goto(l, "before", "gone")
       \/ /\ "ready" \in ctx[l] /\ config.before /\ "ended" \notin ctx[l]
          /\ Report("BeforeLeaseHook")
          /\ Goto(l, "before", "hook")
          /\ UNCHANGED ctx
       \/ /\ "ended" \in ctx[l] /\ ("ready" \in ctx[l] => config.before)
          /\ Set(l, {"skip", "before"})
          /\ Goto(l, "before", "gone")
          /\ UNCHANGED report
       \/ /\ ctx[l] \cap {"ready", "ended"} = {}
          /\ Report("BeforeLeaseHookFailed")
          /\ Set(l, {"before"})
          /\ Goto(l, "before", "gone")
    /\ UNCHANGED <<config, controllerVars, loopVars, stopRequested, running,
                   releasing, reconnects, failures>>

(* The hook ends; when it fails the lease is released or the exporter is   *)
(* to stop, according to onFailure.                                        *)
BeforeHook(l) ==
    /\ running /\ pc[l]["before"] = "hook"
    /\ \E result \in config.beforeResults :
         /\ Set(l, IF result \in {"endLease", "exit"} THEN {"skip", "before"} ELSE {"before"})
         /\ Report(CASE result = "ok" -> IF "ended" \in ctx[l] THEN report ELSE "LeaseReady"
                     [] result = "exit" -> "Offline"
                     [] OTHER -> "BeforeLeaseHookFailed")
         /\ stopRequested' = (stopRequested \/ result = "exit")
         /\ Goto(l, "before", IF result = "endLease" THEN "pause" ELSE "gone")
    /\ UNCHANGED <<config, controllerVars, loopVars, running, releasing, reconnects, failures>>

(* Mutant: success is left for the release of the lease to report.         *)
AfterHookSilent(l, t) ==
    /\ running /\ t # "before" /\ pc[l][t] = "hook"
    /\ Goto(l, t, "pause")
    /\ UNCHANGED <<config, controllerVars, loopVars, stopRequested, running,
                   ctx, releasing, report, reconnects, failures>>

(* The end of the afterLease hook.                                         *)
AfterHook(l, t) ==
    /\ running /\ t # "before" /\ pc[l][t] = "hook"
    /\ \E result \in config.afterResults :
         /\ Report(CASE result = "ok" -> "Available"
                     [] result = "exit" -> "Offline"
                     [] OTHER -> "AfterLeaseHookFailed")
         /\ stopRequested' = (stopRequested \/ result = "exit")
         /\ Goto(l, t, IF result = "exit" THEN "quit" ELSE "pause")
    /\ UNCHANGED <<config, controllerVars, loopVars, running, ctx, releasing, reconnects, failures>>

(* What a task does once its hook is over and the lease released: the      *)
(* afterLease hook is marked done.                                         *)
AfterRelease(t) == IF t = "lease" THEN "close" ELSE "gone"
Done(t) == IF t = "before" THEN {} ELSE {"done"}

(* After a pause of one second, _request_lease_release: it looks at        *)
(* _lease_context, whatever lease that is by now.                          *)
_request_lease_release(l, t) ==
    /\ running /\ pc[l][t] \in {"pause", "quit"}
    /\ IF pc[l][t] = "quit" \/ slot = NoLease \/ (slot # NoLease /\ "ended" \in ctx[slot])
         THEN /\ Set(l, Done(t))
              /\ Goto(l, t, AfterRelease(t))
              /\ UNCHANGED releasing
         ELSE /\ releasing' = [releasing EXCEPT ![l][t] = slot]
              /\ Goto(l, t, "call")
              /\ UNCHANGED ctx
    /\ UNCHANGED <<config, controllerVars, loopVars, stopRequested, running,
                   report, reconnects, failures>>

(* ReleaseLease at the controller, which sets Spec.Release and leaves the  *)
(* rest to its reconcilers (EndLease), or its failure after the last retry.*)
ReleaseCall(l, t) ==
    /\ running /\ pc[l][t] = "call"
    /\ Goto(l, t, "return")
    /\ \/ /\ released' = released \cup {releasing[l][t]}
          /\ UNCHANGED failures
       \/ /\ failures < MaxFailures
          /\ failures' = failures + 1
          /\ UNCHANGED released
    /\ UNCHANGED <<config, assigned, used, seen, told, loopVars, stopRequested, running,
                   ctx, releasing, report, reconnects>>

(* The rest of _request_lease_release: the lease in the slot is over.      *)
ReleaseReturn(l, t) ==
    /\ running /\ pc[l][t] = "return"
    /\ Report("Available")
    /\ ctx' = [k \in Leases |-> ctx[k] \cup (IF k = slot THEN {"ended"} ELSE {})
                                       \cup (IF k = l THEN Done(t) ELSE {})]
    /\ releasing' = [releasing EXCEPT ![l][t] = NoLease]
    /\ Goto(l, t, AfterRelease(t))
    /\ UNCHANGED <<config, controllerVars, loopVars, stopRequested, running,
                   reconnects, failures>>

(* The other side of the afterLease hook waits for after_lease_hook_done.  *)
WaitDone(l, t) ==
    /\ running /\ pc[l][t] = "waitDone" /\ "done" \in ctx[l]
    /\ Goto(l, t, AfterRelease(t))
    /\ UNCHANGED <<config, controllerVars, loopVars, stopRequested, running,
                   ctx, releasing, report, reconnects, failures>>

-----------------------------------------------------------------------------
(* _drain_status_reports: one call at a time, of the latest status.        *)

(* The call in flight and the status it replaces differ only in when the   *)
(* controller stores it, so taking and storing a report are one step.      *)
ReportStatus ==
    /\ running /\ report # NoReport
    /\ seen' = report
    /\ report' = NoReport
    /\ UNCHANGED <<config, assigned, used, released, told, loopVars,
                   stopRequested, running, ctx, pc, releasing, reconnects, failures>>

(* The exporter has left serve(): Unregister.                              *)
_unregister_with_controller ==
    /\ ~running /\ seen # "Offline"
    /\ seen' = "Offline"
    /\ UNCHANGED <<config, assigned, used, released, told, loopVars,
                   stopRequested, running, ctx, pc, releasing, report, reconnects,
                   failures>>

LeaseTask(l) ==
    \/ StartLease(l) \/ CreateSession(l) \/ LeaseEnds(l)
    \/ _cleanup_after_lease(l) \/ CloseSession(l)
Release(l, t) == _request_lease_release(l, t) \/ ReleaseCall(l, t) \/ ReleaseReturn(l, t)

Next ==
    \/ \E l \in Leases : AssignLease(l)
    \/ EndLease \/ SendStatus \/ Reconnect
    \/ HandleStatus \/ HandleFinished \/ StopOnLeaseExit
    \/ \E l \in Leases :
         \/ LeaseTask(l) \/ EndSession(l) \/ _handle_end_session(l)
         \/ WaitReady(l) \/ BeforeHook(l)
         \/ \E t \in Tasks : AfterHook(l, t) \/ Release(l, t) \/ WaitDone(l, t)
    \/ ReportStatus \/ _unregister_with_controller

Spec == Init /\ [][Next]_vars

(* The event loop runs every task that can run, hooks end (at the latest   *)
(* by their timeout), calls return, the stream is read, and the reconcilers*)
(* end a lease whose release was asked for.                                *)
Fairness ==
    /\ WF_vars(SendStatus) /\ WF_vars(HandleStatus) /\ WF_vars(HandleFinished)
    /\ WF_vars(ReportStatus) /\ WF_vars(assigned \in released /\ EndLease)
    /\ \A l \in Leases :
         /\ WF_vars(LeaseTask(l)) /\ WF_vars(_handle_end_session(l))
         /\ WF_vars(WaitReady(l)) /\ WF_vars(BeforeHook(l))
         /\ \A t \in Tasks : WF_vars(AfterHook(l, t) \/ Release(l, t) \/ WaitDone(l, t))

FairSpec == Spec /\ Fairness

-----------------------------------------------------------------------------
(* Properties.                                                             *)

Open(l) == pc[l]["lease"] \in Serving \cup {"close"}

(* The device is open in one session at a time: handle_lease hands the     *)
(* slot back only when its session is gone, and only then is the next      *)
(* lease picked up.                                                        *)
OneSession == \A k, l \in Leases : Open(k) /\ Open(l) => k = l

(* Hooks never run side by side, of one lease or of two, whoever starts    *)
(* them: the control-plane loop, EndSession or the end of the lease.       *)
HooksAreSerial ==
    \A h, j \in Leases \X Tasks :
      pc[h[1]][h[2]] = "hook" /\ pc[j[1]][j[2]] = "hook" => h = j

(* A hook runs only while the session of its lease is open.                *)
HooksHaveASession ==
    \A l \in Leases, t \in Tasks : pc[l][t] = "hook" => Open(l)

(* LeaseFinished always comes from the lease in the slot: the case of      *)
(* another owner in _on_lease_finished cannot happen.                      *)
FinishedOwnsSlot ==
    \A i \in 1..Len(control) : control[i].kind = "finished" => control[i].lease = slot

(* A lease the exporter knows to be over is torn down, so that the slot    *)
(* is free for the next one.                                               *)
EndedIsTornDown ==
    \A l \in Leases : slot = l /\ "ended" \in ctx[l] ~> slot # l \/ ~running

(* A lease the controller has assigned and does not take back is picked    *)
(* up, also when it comes while another is torn down.                      *)
AssignedIsServed ==
    \A l \in Leases : assigned = l ~> PickedUp(l) \/ assigned # l \/ ~running

(* Without a lease on either side the controller comes to know that the    *)
(* exporter is available, or the exporter is to stop.                      *)
Idle == running /\ ~stopRequested /\ slot = NoLease /\ assigned = NoLease
IdleIsAvailable == Idle ~> (~Idle \/ seen = "Available")

(* A release asked for by a hook's failure is of the hook's own lease.     *)
ReleasesOwnLease ==
    \A l \in Leases, t \in Tasks : pc[l][t] = "call" => releasing[l][t] = l

=============================================================================
