------------------------ MODULE ExporterRuntimeProofs ------------------------
(***************************************************************************)
(* Proofs about ExporterRuntime, for any set of leases, any configurations *)
(* and any bounds.                                                         *)
(***************************************************************************)
EXTENDS ExporterRuntime, TLAPS

Labels == {"none", "start", "session", "serve", "cleanup", "wait", "hook",
           "pause", "quit", "call", "return", "waitDone", "close", "gone"}

(* The positions of the task that runs the afterLease hook.                *)
InAfterHook == {"hook", "pause", "quit", "call", "return"}

(* What ties the tasks of one lease to its events c: b is the position of  *)
(* the task of the beforeLease hook, s of handle_lease, n of the task that *)
(* waits for EndSession.                                                   *)
Fits(b, s, n, c) ==
    \* the beforeLease hook runs before cleanup starts anything
    /\ b = "hook" => s \in {"serve", "cleanup"} /\ "before" \notin c
    \* until the lease ends, the task that waits for it finds a session when
    \* it is told that the lease is ready
    /\ b = "wait" => config.executor
    /\ b = "wait" /\ "ended" \notin c =>
         /\ "before" \notin c
         /\ s \in {"start", "session", "serve"}
         /\ "ready" \in c => s = "serve"
    \* the afterLease hook is started once, by one of two tasks, and the
    \* session stays until it is done
    /\ n \in InAfterHook =>
         "started" \in c /\ "done" \notin c /\ s \in {"serve", "cleanup", "waitDone"}
    /\ s \in InAfterHook => "started" \in c /\ n \notin InAfterHook
    /\ n = "wait" /\ "started" \notin c => s \in {"serve", "cleanup"}
    /\ c \cap {"started", "endSession"} # {} => "before" \in c
    /\ "done" \in c => "started" \in c \/ s \in {"close", "gone"}
    /\ s \in {"start", "session"} => "done" \notin c
    \* until before_lease_hook is set, the task that sets it is at work
    /\ s \in {"start", "session"} /\ config.executor /\ "before" \notin c => b \in {"wait", "hook"}
    /\ s \in {"serve", "cleanup"} /\ "before" \notin c => b \in {"wait", "hook"}
    \* and so is the one that sets after_lease_hook_done, once it is started
    /\ "started" \in c /\ "done" \notin c => s \in InAfterHook \/ n \in InAfterHook
    /\ s = "waitDone" => "started" \in c
    /\ s # "wait"

TasksFit(p, c) == Fits(p["before"], p["lease"], p["end"], c)

(* A lease whose handle_lease runs has the slot s.                         *)
SlotOf(s, p) == \A l \in Leases : p[l]["lease"] \notin {"none", "gone"} => s = l

(* LeaseFinished is sent by the lease in the slot s as its last act, and   *)
(* waits in the channel q only once.                                       *)
Unfinished(q) == \A i \in 1..Len(q) : q[i].kind # "finished"
FinishedIn(q, s, p) ==
    /\ \A i \in 1..Len(q) : q[i].kind = "finished" =>
         s \in Leases /\ q[i].lease = s /\ p[s]["lease"] = "gone"
    /\ \A i, j \in 1..Len(q) : q[i].kind = "finished" /\ q[j].kind = "finished" => i = j

(* The lease in the slot s has a handle_lease, which runs or has sent its  *)
(* LeaseFinished.                                                          *)
HeldIn(q, s, p) ==
    s \in Leases => /\ p[s]["lease"] # "none"
                    /\ p[s]["lease"] = "gone" => ~Unfinished(q)

HasSlot == SlotOf(slot, pc)
FinishedOnce == FinishedIn(control, slot, pc)
SlotIsHeld == HeldIn(control, slot, pc)
RuntimeInv ==
    HasSlot /\ FinishedOnce /\ SlotIsHeld /\ \A l \in Leases : TasksFit(pc[l], ctx[l])

(* One task at t goes to x.                                                *)
FitsAt(p, t, x, c) ==
    Fits(IF t = "before" THEN x ELSE p["before"],
         IF t = "lease" THEN x ELSE p["lease"],
         IF t = "end" THEN x ELSE p["end"], c)

-----------------------------------------------------------------------------
(* The positions and the events alone: one lemma per kind of step.         *)

(* The steps of handle_lease.                                              *)
LEMMA LeaseFits ==
    ASSUME NEW p, NEW c, TasksFit(p, c)
    PROVE  /\ p["lease"] = "start" /\ "ended" \in c =>
                FitsAt(p, "lease", "gone", c \cup {"skip", "before", "done"})
           /\ p["lease"] = "start" /\ "ended" \notin c => FitsAt(p, "lease", "session", c)
           /\ p["lease"] = "session" /\ "ended" \in c =>
                FitsAt(p, "lease", "close", c \cup {"ready", "skip", "before", "done"})
           /\ p["lease"] = "serve" /\ "ended" \in c => FitsAt(p, "lease", "cleanup", c)
           /\ p["lease"] = "close" => FitsAt(p, "lease", "gone", c \cup {"before", "done"})
  BY Zenon DEF Fits, FitsAt, TasksFit, InAfterHook

(* handle_lease opens the session and starts the task of EndSession.       *)
LEMMA ServeFits ==
    ASSUME NEW p, NEW c, TasksFit(p, c), p["lease"] = "session", "ended" \notin c,
           NEW q, q["lease"] = "serve", q["end"] = "wait", q["before"] = p["before"]
    PROVE  TasksFit(q, c \cup (IF config.executor THEN {"ready"} ELSE {"ready", "before"}))
  BY Zenon DEF Fits, TasksFit, InAfterHook

(* The afterLease hook, started by handle_lease or after EndSession.       *)
LEMMA CleanupFits ==
    ASSUME NEW p, NEW c, TasksFit(p, c), p["lease"] = "cleanup", "before" \in c
    PROVE  /\ "started" \in c => FitsAt(p, "lease", "waitDone", c)
           /\ "started" \notin c =>
                /\ \A to \in {"hook", "pause"} : FitsAt(p, "lease", to, c \cup {"started"})
                /\ FitsAt(p, "lease", "close", c \cup {"started", "done"})
  BY Zenon DEF Fits, FitsAt, TasksFit, InAfterHook

LEMMA EndSessionFits ==
    ASSUME NEW p, NEW c, TasksFit(p, c), "before" \in c
    PROVE  TasksFit(p, c \cup {"endSession"})
  BY Zenon DEF Fits, TasksFit

LEMMA EndTaskFits ==
    ASSUME NEW p, NEW c, TasksFit(p, c), p["end"] = "wait"
    PROVE  /\ FitsAt(p, "end", "gone", c) /\ FitsAt(p, "end", "waitDone", c)
           /\ "endSession" \in c /\ "started" \notin c =>
                /\ \A to \in {"hook", "pause"} : FitsAt(p, "end", to, c \cup {"started"})
                /\ FitsAt(p, "end", "gone", c \cup {"started", "done"})
  BY Zenon DEF Fits, FitsAt, TasksFit, InAfterHook

(* The beforeLease hook.                                                   *)
LEMMA BeforeFits ==
    ASSUME NEW p, NEW c, TasksFit(p, c)
    PROVE  /\ \A to \in {"gone", "pause"} :
                /\ FitsAt(p, "before", to, c \cup {"before"})
                /\ FitsAt(p, "before", to, c \cup {"skip", "before"})
           /\ p["before"] = "wait" /\ "ready" \in c /\ "ended" \notin c =>
                FitsAt(p, "before", "hook", c)
  BY DEF Fits, FitsAt, TasksFit, InAfterHook

(* A task that runs the afterLease hook, and one that has a hook behind it,*)
(* its own or the one it waited for.                                       *)
LEMMA HookFits ==
    ASSUME NEW p, NEW c, TasksFit(p, c), NEW t \in Tasks, p[t] \in InAfterHook,
           t = "before" => p[t] # "hook", NEW x \in InAfterHook \ {"hook"}
    PROVE  FitsAt(p, t, x, c)
  BY DEF Fits, FitsAt, TasksFit, InAfterHook, Tasks

LEMMA ReleasedFits ==
    ASSUME NEW p, NEW c, TasksFit(p, c), NEW t \in Tasks,
           \/ p[t] \in {"pause", "quit", "return"}
           \/ p[t] = "waitDone" /\ "done" \in c
    PROVE  FitsAt(p, t, AfterRelease(t), c \cup Done(t))
<1>1. CASE t = "before"
  BY <1>1, Zenon DEF Fits, FitsAt, TasksFit, InAfterHook, AfterRelease, Done
<1>2. CASE t = "end"
  BY <1>2, Zenon DEF Fits, FitsAt, TasksFit, InAfterHook, AfterRelease, Done
<1>3. CASE t = "lease"
  BY <1>3, Zenon DEF Fits, FitsAt, TasksFit, InAfterHook, AfterRelease, Done
<1> QED
  BY <1>1, <1>2, <1>3, Zenon DEF Tasks

(* The end of a lease disturbs no task.                                    *)
LEMMA EndedFits ==
    ASSUME NEW p, NEW c, TasksFit(p, c)
    PROVE  TasksFit(p, c \cup {"ended"})
  BY Zenon DEF Fits, TasksFit

LEMMA EndedFitsAt ==
    ASSUME NEW p, NEW c, NEW t, NEW x, FitsAt(p, t, x, c)
    PROVE  FitsAt(p, t, x, c \cup {"ended"})
<1>1. ASSUME NEW b, NEW s, NEW n, Fits(b, s, n, c) PROVE Fits(b, s, n, c \cup {"ended"})
  BY <1>1, Zenon DEF Fits
<1> QED
  BY <1>1, Zenon DEF FitsAt

(* Tasks that have not begun, or of which one waits to run a hook.         *)
LEMMA FreshFits ==
    ASSUME NEW p, p["end"] = "none", p["lease"] \in {"none", "start"},
           \/ p["before"] = "none" /\ (config.executor => p["lease"] = "none")
           \/ p["before"] = "wait" /\ config.executor /\ p["lease"] = "start"
    PROVE  TasksFit(p, {})
  BY Zenon DEF Fits, TasksFit, InAfterHook

(* Where a hook may run.                                                   *)
LEMMA HookPlaces ==
    ASSUME NEW p, NEW c, TasksFit(p, c)
    PROVE  /\ p["before"] = "hook" => p["lease"] \in {"serve", "cleanup"} /\ p["end"] # "hook"
           /\ p["end"] = "hook" => p["lease"] \in {"serve", "cleanup", "waitDone"}
  BY Zenon DEF Fits, TasksFit, InAfterHook

-----------------------------------------------------------------------------
(* The slot and the channel alone.                                         *)
LEMMA SlotKept ==
    ASSUME NEW s, NEW p, NEW r, SlotOf(s, p), \A k \in Leases : r[k]["lease"] = p[k]["lease"]
    PROVE  SlotOf(s, r)
  BY Zenon DEF SlotOf

LEMMA SlotMoves ==
    ASSUME NEW s, NEW p, NEW r, NEW l \in Leases, SlotOf(s, p),
           p[l]["lease"] \notin {"none", "gone"}, \A k \in Leases \ {l} : r[k] = p[k]
    PROVE  s = l /\ SlotOf(s, r)
  BY Zenon DEF SlotOf

LEMMA SlotFree ==
    ASSUME NEW s, NEW p, SlotOf(s, p), s \notin Leases \/ p[s]["lease"] = "gone"
    PROVE  \A u : SlotOf(u, p)
  BY Zenon DEF SlotOf

LEMMA SlotTaken ==
    ASSUME NEW s, NEW p, SlotOf(s, p), s \notin Leases,
           NEW r, NEW l \in Leases, \A k \in Leases \ {l} : r[k] = p[k]
    PROVE  SlotOf(l, r)
  BY Zenon DEF SlotOf

LEMMA FinishedKept ==
    ASSUME NEW q, NEW s, NEW p, NEW r, FinishedIn(q, s, p),
           \A k \in Leases : r[k]["lease"] = p[k]["lease"]
    PROVE  FinishedIn(q, s, r)
  BY Zenon DEF FinishedIn

LEMMA FinishedNot ==
    ASSUME NEW q, NEW s, NEW p
    PROVE  /\ FinishedIn(q, s, p) /\ (s \notin Leases \/ p[s]["lease"] # "gone") => Unfinished(q)
           /\ Unfinished(q) => FinishedIn(q, s, p)
  BY Zenon DEF FinishedIn, Unfinished

LEMMA Appended ==
    ASSUME NEW q \in Seq(Message), NEW m
    PROVE  /\ Len(Append(q, m)) = Len(q) + 1 /\ Len(q) \in Nat
           /\ Append(q, m)[Len(q) + 1] = m
           /\ \A i \in 1..Len(q) : Append(q, m)[i] = q[i]
  OBVIOUS

LEMMA FinishedPosted ==
    ASSUME NEW q \in Seq(Message), Unfinished(q),
           NEW s \in Leases, NEW p, p[s]["lease"] = "gone"
    PROVE  FinishedIn(Append(q, LeaseFinished(s)), s, p)
<1>1. LeaseFinished(s).lease = s
  BY Zenon DEF LeaseFinished
<1> HIDE DEF LeaseFinished
<1> QED
  BY <1>1, Appended DEF FinishedIn, Unfinished

LEMMA StatusPosted ==
    ASSUME NEW q \in Seq(Message), NEW lease
    PROVE  /\ Unfinished(q) => Unfinished(Append(q, Status(lease)))
           /\ \A s, p : FinishedIn(q, s, p) => FinishedIn(Append(q, Status(lease)), s, p)
<1>1. Status(lease).kind = "status"
  BY Zenon DEF Status
<1>2. \A i \in 1..Len(Append(q, Status(lease))) :
        Append(q, Status(lease))[i].kind = "finished" =>
          i \in 1..Len(q) /\ Append(q, Status(lease))[i] = q[i]
  BY <1>1, Appended
<1>3. Unfinished(q) => Unfinished(Append(q, Status(lease)))
  BY <1>2, Zenon DEF Unfinished
<1>4. ASSUME NEW s, NEW p, FinishedIn(q, s, p) PROVE FinishedIn(Append(q, Status(lease)), s, p)
  BY <1>2, <1>4 DEF FinishedIn
<1> QED
  BY <1>3, <1>4, Zenon

LEMMA HeldKept ==
    ASSUME NEW q, NEW s, NEW p, NEW r, HeldIn(q, s, p),
           \A k \in Leases : r[k]["lease"] = p[k]["lease"]
    PROVE  HeldIn(q, s, r)
  BY Zenon DEF HeldIn

LEMMA HeldPosted ==
    ASSUME NEW q \in Seq(Message), NEW s \in Leases
    PROVE  ~Unfinished(Append(q, LeaseFinished(s)))
<1>1. LeaseFinished(s).kind = "finished"
  BY Zenon DEF LeaseFinished
<1>2. Len(q) + 1 \in 1..Len(Append(q, LeaseFinished(s)))
  BY Appended
<1> HIDE DEF LeaseFinished
<1> QED
  BY <1>1, <1>2, Appended, Zenon DEF Unfinished

LEMMA HeldStatus ==
    ASSUME NEW q \in Seq(Message), NEW m, ~Unfinished(q)
    PROVE  ~Unfinished(Append(q, m))
<1>1. PICK i \in 1..Len(q) : q[i].kind = "finished"
  BY Zenon DEF Unfinished
<1>2. i \in 1..Len(Append(q, m)) /\ Append(q, m)[i] = q[i]
  BY Appended
<1> QED
  BY <1>1, <1>2, Zenon DEF Unfinished

LEMMA HeldTail ==
    ASSUME NEW q \in Seq(Message), q # <<>>, ~Unfinished(q), Head(q).kind # "finished"
    PROVE  ~Unfinished(Tail(q))
<1>1. PICK i \in 1..Len(q) : q[i].kind = "finished"
  BY Zenon DEF Unfinished
<1>2. i # 1
  BY <1>1
<1>3. i - 1 \in 1..Len(Tail(q)) /\ Tail(q)[i - 1] = q[i]
  BY <1>2
<1> QED
  BY <1>1, <1>3, Zenon DEF Unfinished

LEMMA FinishedTail ==
    ASSUME NEW q \in Seq(Message), q # <<>>, NEW s, NEW p, FinishedIn(q, s, p)
    PROVE  /\ Tail(q) \in Seq(Message) /\ FinishedIn(Tail(q), s, p)
           /\ Head(q).kind = "finished" =>
                /\ s \in Leases /\ Head(q).lease = s /\ p[s]["lease"] = "gone"
                /\ Unfinished(Tail(q))
<1>1. /\ 1 \in 1..Len(q) /\ Head(q) = q[1] /\ Tail(q) \in Seq(Message)
      /\ \A i \in 1..Len(Tail(q)) :
           i \in Int /\ i + 1 \in 1..Len(q) /\ i + 1 # 1 /\ Tail(q)[i] = q[i + 1]
  OBVIOUS
<1>2. FinishedIn(Tail(q), s, p)
  BY <1>1 DEF FinishedIn
<1>3. Head(q).kind = "finished" => Unfinished(Tail(q))
  BY <1>1, Zenon DEF FinishedIn, Unfinished
<1>4. Head(q).kind = "finished" => s \in Leases /\ Head(q).lease = s /\ p[s]["lease"] = "gone"
  BY <1>1, Zenon DEF FinishedIn
<1> QED
  BY <1>1, <1>2, <1>3, <1>4, Zenon

-----------------------------------------------------------------------------
(* The parts of the invariants that the steps below need.                  *)
LEMMA TypeParts ==
    ASSUME TypeOK
    PROVE  /\ control \in Seq(Message) /\ slot \in Leases \cup {NoLease}
           /\ ctx \in [Leases -> SUBSET Events]
           /\ pc \in [Leases -> [Tasks -> Labels]]
  BY Zenon DEF TypeOK, Labels

LEMMA InvParts ==
    ASSUME RuntimeInv
    PROVE  /\ SlotOf(slot, pc) /\ FinishedIn(control, slot, pc) /\ HeldIn(control, slot, pc)
           /\ \A l \in Leases : TasksFit(pc[l], ctx[l])
  BY Zenon DEF RuntimeInv, HasSlot, FinishedOnce, SlotIsHeld

LEMMA InvWhole ==
    ASSUME SlotOf(slot', pc'), FinishedIn(control', slot', pc'), HeldIn(control', slot', pc'),
           UNCHANGED config,
           \A k \in Leases : TasksFit(pc'[k], ctx'[k])
    PROVE  RuntimeInv'
<1>1. \A k \in Leases : TasksFit(pc[k], ctx[k])'
  BY Zenon DEF TasksFit, Fits
<1> QED
  BY <1>1, Zenon DEF RuntimeInv, HasSlot, FinishedOnce, SlotIsHeld

-----------------------------------------------------------------------------
(* A call of ReleaseLease names the lease that was in the slot.            *)
CallNamesLease ==
    \A l \in Leases, t \in Tasks : pc[l][t] = "call" => releasing[l][t] \in Leases

(* The two assignments the tasks are made of.                              *)
LEMMA GotoMoves ==
    ASSUME TypeOK, NEW l \in Leases, NEW t \in Tasks, NEW x \in Labels, Goto(l, t, x)
    PROVE  /\ pc' \in [Leases -> [Tasks -> Labels]]
           /\ \A k \in Leases \ {l} : pc'[k] = pc[k]
           /\ \A u \in Tasks : pc'[l][u] = IF u = t THEN x ELSE pc[l][u]
  BY Zenon DEF TypeOK, Goto, Labels

LEMMA SetAdds ==
    ASSUME TypeOK, NEW l \in Leases, NEW events \in SUBSET Events, Set(l, events)
    PROVE  /\ ctx' \in [Leases -> SUBSET Events]
           /\ \A k \in Leases \ {l} : ctx'[k] = ctx[k]
           /\ ctx'[l] = ctx[l] \cup events
  BY Zenon DEF TypeOK, Set

LEMMA PostType ==
    ASSUME TypeOK, NEW l \in Leases, PostFinished(l)
    PROVE  control' \in Seq(Message)
  BY DEF TypeOK, PostFinished, LeaseFinished, Message

LEMMA InitType == Init => TypeOK
<1> SUFFICES ASSUME Init PROVE TypeOK
  OBVIOUS
<1>1. pc \in [Leases -> [Tasks -> Labels]] /\ ctx \in [Leases -> SUBSET Events]
  BY Zenon DEF Init, Labels
<1>2. control \in Seq(Message) /\ releasing \in [Leases -> [Tasks -> Leases \cup {NoLease}]]
  BY DEF Init
<1>3. reconnects \in 0..MaxReconnects /\ failures \in 0..MaxFailures
  BY ConfigAssumption DEF Init
<1> QED
  BY <1>1, <1>2, <1>3, Zenon DEF Init, TypeOK, Statuses, Labels

(* The steps that touch neither the tasks nor the channel.                 *)
LEMMA OtherType ==
    ASSUME TypeOK,
           \/ \E l \in Leases : AssignLease(l)
           \/ EndLease \/ Reconnect \/ StopOnLeaseExit \/ ReportStatus
           \/ _unregister_with_controller \/ UNCHANGED vars
    PROVE  TypeOK'
<1>1. ASSUME NEW l \in Leases, AssignLease(l) PROVE TypeOK'
  BY <1>1 DEF TypeOK, AssignLease, loopVars
<1>2. CASE EndLease
  BY <1>2 DEF TypeOK, EndLease, loopVars
<1>3. CASE Reconnect
  BY <1>3, ConfigAssumption DEF TypeOK, Reconnect, loopVars
<1>4. CASE StopOnLeaseExit
  BY <1>4, Zenon DEF TypeOK, StopOnLeaseExit, controllerVars, loopVars
<1>5. CASE ReportStatus
  BY <1>5, Zenon DEF TypeOK, ReportStatus, loopVars
<1>6. CASE _unregister_with_controller
  BY <1>6 DEF TypeOK, _unregister_with_controller, Statuses, loopVars
<1>7. CASE UNCHANGED vars
  BY <1>7 DEF TypeOK, vars, controllerVars, loopVars
<1> QED
  BY <1>1, <1>2, <1>3, <1>4, <1>5, <1>6, <1>7, Zenon

(* The control-plane loop.                                                 *)
LEMMA LoopType ==
    ASSUME TypeOK, SendStatus \/ HandleStatus \/ HandleFinished
    PROVE  TypeOK'
<1>1. CASE SendStatus
  BY <1>1 DEF TypeOK, SendStatus, Status, Message
<1>2. CASE HandleStatus
  <2> DEFINE m == Head(control)
  <2>1. m \in Message /\ control' \in Seq(Message)
    BY <1>2 DEF TypeOK, HandleStatus
  <2>2. /\ UNCHANGED <<config, controllerVars, releasing, report, reconnects, failures>>
        /\ _apply_status(m.lease)
    BY <1>2, Zenon DEF HandleStatus
  <2>3. m.lease \in Leases \cup {NoLease}
    BY <2>1, Zenon DEF Message
  <2> HIDE DEF m
  <2>4. /\ slot' \in Leases \cup {NoLease} /\ lastCompleted' \in Leases \cup {NoLease}
        /\ pendingLease' \in Leases \cup {NoLease}
        /\ stopRequested' \in BOOLEAN /\ started' \in BOOLEAN /\ running' \in BOOLEAN
    BY <2>2, <2>3, Zenon DEF TypeOK, _apply_status, _on_lease_acquired, _on_lease_released, Reassigned
  <2>5. pc' \in [Leases -> [Tasks -> Labels]] /\ ctx' \in [Leases -> SUBSET Events]
    <3>1. CASE _on_lease_acquired(m.lease) /\ m.lease # NoLease
      BY <2>3, <3>1, Zenon DEF TypeOK, _on_lease_acquired, Labels
    <3>2. CASE Set(slot, {"ended"}) /\ slot # NoLease /\ UNCHANGED pc
      BY <3>2, SetAdds, Zenon DEF TypeOK, Labels, Events
    <3>3. CASE UNCHANGED <<pc, ctx>>
      BY <3>3, Zenon DEF TypeOK, Labels
    <3> QED
      BY <2>2, <3>1, <3>2, <3>3, Zenon DEF _apply_status, _on_lease_released, Reassigned
  <2> QED
    BY <2>1, <2>2, <2>4, <2>5, Zenon DEF TypeOK, controllerVars, Labels
<1>3. CASE HandleFinished
  <2>1. Tail(control) \in Seq(Message) /\ Status(pendingLease) \in Message
    BY <1>3 DEF TypeOK, HandleFinished, Status, Message
  <2>2. control' \in Seq(Message)
    BY <1>3, <2>1 DEF HandleFinished
  <2> QED
    BY <1>3, <2>2, Zenon DEF TypeOK, HandleFinished, controllerVars
<1> QED
  BY <1>1, <1>2, <1>3, Zenon

(* A step of handle_lease, of the end-session task or of a hook.           *)
TaskStep(l) ==
    \/ LeaseTask(l) \/ EndSession(l) \/ _handle_end_session(l)
    \/ WaitReady(l) \/ BeforeHook(l)
    \/ \E t \in Tasks : AfterHook(l, t) \/ Release(l, t) \/ WaitDone(l, t)

LEMMA TaskType ==
    ASSUME TypeOK, CallNamesLease, NEW l \in Leases, TaskStep(l)
    PROVE  TypeOK'
<1>1. CASE StartLease(l)
  <2>1. pc' \in [Leases -> [Tasks -> Labels]]
    BY <1>1, GotoMoves, Zenon DEF StartLease, Tasks, Labels
  <2>2. ctx' \in [Leases -> SUBSET Events]
    BY <1>1, SetAdds, Zenon DEF TypeOK, StartLease, Events
  <2>3. control' \in Seq(Message)
    BY <1>1, PostType, Zenon DEF TypeOK, StartLease
  <2> QED
    BY <1>1, <2>1, <2>2, <2>3
    DEF TypeOK, StartLease, ReportUnlessStopping, Report, controllerVars, Labels, Statuses
<1>2. CASE CreateSession(l)
  <2>1. pc' \in [Leases -> [Tasks -> Labels]]
    <3>1. CASE "ended" \in ctx[l]
      BY <1>2, <3>1, GotoMoves, Zenon DEF CreateSession, Tasks, Labels
    <3>2. CASE pc' = [pc EXCEPT ![l]["lease"] = "serve", ![l]["end"] = "wait"]
      BY <3>2, Zenon DEF TypeOK, Tasks, Labels
    <3> QED
      BY <1>2, <3>1, <3>2, Zenon DEF CreateSession
  <2>2. ctx' \in [Leases -> SUBSET Events]
    BY <1>2, SetAdds, Zenon DEF CreateSession, Events
  <2> QED
    BY <1>2, <2>1, <2>2
    DEF TypeOK, CreateSession, ReportUnlessStopping, Report, controllerVars, loopVars, Statuses, Labels
<1>3. CASE LeaseEnds(l)
  <2>1. pc' \in [Leases -> [Tasks -> Labels]]
    BY <1>3, GotoMoves, Zenon DEF LeaseEnds, Tasks, Labels
  <2> QED
    BY <1>3, <2>1, ZenonT(40) DEF TypeOK, LeaseEnds, controllerVars, loopVars, Labels
<1>4. CASE _cleanup_after_lease(l)
  <2>1. pc' \in [Leases -> [Tasks -> Labels]]
    BY <1>4, GotoMoves, Zenon DEF _cleanup_after_lease, StartAfterHook, Tasks, Labels
  <2>2. ctx' \in [Leases -> SUBSET Events]
    BY <1>4, SetAdds, Zenon DEF TypeOK, _cleanup_after_lease, Events
  <2> QED
    BY <1>4, <2>1, <2>2
    DEF TypeOK, _cleanup_after_lease, StartAfterHook, ReportUnlessStopping, Report, controllerVars,
        loopVars, Labels, Statuses
<1>5. CASE CloseSession(l)
  <2>1. pc' \in [Leases -> [Tasks -> Labels]]
    BY <1>5, GotoMoves, Zenon DEF CloseSession, Tasks, Labels
  <2>2. ctx' \in [Leases -> SUBSET Events]
    BY <1>5, SetAdds, Zenon DEF TypeOK, CloseSession, Events
  <2>3. control' \in Seq(Message)
    BY <1>5, PostType, Zenon DEF TypeOK, CloseSession
  <2> QED
    BY <1>5, <2>1, <2>2, <2>3
    DEF TypeOK, CloseSession, controllerVars, Labels
<1>6. CASE EndSession(l)
  BY <1>6, SetAdds DEF TypeOK, EndSession, controllerVars, loopVars, Events
<1>7. CASE _handle_end_session(l)
  <2>1. pc' \in [Leases -> [Tasks -> Labels]]
    BY <1>7, GotoMoves, SMTT(30) DEF _handle_end_session, StartAfterHook, Tasks, Labels
  <2>2. ctx' \in [Leases -> SUBSET Events]
    BY <1>7, SetAdds, Zenon DEF TypeOK, _handle_end_session, Events
  <2> QED
    BY <1>7, <2>1, <2>2
    DEF TypeOK, _handle_end_session, StartAfterHook, Report, controllerVars, loopVars, Labels, Statuses
<1>8. CASE WaitReady(l)
  <2>1. pc' \in [Leases -> [Tasks -> Labels]]
    BY <1>8, GotoMoves, Zenon DEF WaitReady, Tasks, Labels
  <2>2. ctx' \in [Leases -> SUBSET Events]
    BY <1>8, SetAdds, Zenon DEF TypeOK, WaitReady, Events
  <2> QED
    BY <1>8, <2>1, <2>2
    DEF TypeOK, WaitReady, Report, controllerVars, loopVars, Labels, Statuses
<1>9. CASE BeforeHook(l)
  <2>1. PICK result \in config.beforeResults :
          /\ Set(l, IF result \in {"endLease", "exit"} THEN {"skip", "before"} ELSE {"before"})
          /\ report' = CASE result = "ok" -> IF "ended" \in ctx[l] THEN report ELSE "LeaseReady"
                         [] result = "exit" -> "Offline"
                         [] OTHER -> "BeforeLeaseHookFailed"
          /\ stopRequested' = (stopRequested \/ result = "exit")
          /\ Goto(l, "before", IF result = "endLease" THEN "pause" ELSE "gone")
    BY <1>9, Zenon DEF BeforeHook, Report
  <2>2. report' \in Statuses \cup {NoReport}
    BY <2>1, Zenon DEF TypeOK, Statuses
  <2>3. pc' \in [Leases -> [Tasks -> Labels]] /\ ctx' \in [Leases -> SUBSET Events]
    BY <2>1, GotoMoves, SetAdds DEF Tasks, Labels, Events
  <2>4. stopRequested' \in BOOLEAN
    BY <2>1, Zenon
  <2> QED
    BY <1>9, <2>2, <2>3, <2>4 DEF TypeOK, BeforeHook, controllerVars, loopVars, Labels
<1>10. ASSUME NEW t \in Tasks, AfterHook(l, t) PROVE TypeOK'
  <2>1. PICK result \in config.afterResults :
          /\ report' = CASE result = "ok" -> "Available"
                         [] result = "exit" -> "Offline"
                         [] OTHER -> "AfterLeaseHookFailed"
          /\ stopRequested' = (stopRequested \/ result = "exit")
          /\ Goto(l, t, IF result = "exit" THEN "quit" ELSE "pause")
    BY <1>10, Zenon DEF AfterHook, Report
  <2>2. report' \in Statuses \cup {NoReport}
    BY <2>1, Zenon DEF TypeOK, Statuses
  <2>3. pc' \in [Leases -> [Tasks -> Labels]]
    BY <2>1, GotoMoves, Zenon DEF Labels
  <2>4. stopRequested' \in BOOLEAN
    BY <2>1, Zenon
  <2> QED
    BY <1>10, <2>2, <2>3, <2>4, Zenon DEF TypeOK, AfterHook, controllerVars, loopVars, Labels
<1>11. ASSUME NEW t \in Tasks, _request_lease_release(l, t) PROVE TypeOK'
  <2>1. pc' \in [Leases -> [Tasks -> Labels]] /\ ctx' \in [Leases -> SUBSET Events]
    BY <1>11, GotoMoves, SetAdds
    DEF TypeOK, _request_lease_release, AfterRelease, Done, Labels, Events
  <2>2. releasing' \in [Leases -> [Tasks -> Leases \cup {NoLease}]]
    <3>1. CASE UNCHANGED releasing
      BY <3>1, Zenon DEF TypeOK
    <3>2. ASSUME NEW k \in Leases \cup {NoLease}, releasing' = [releasing EXCEPT ![l][t] = k]
          PROVE  releasing' \in [Leases -> [Tasks -> Leases \cup {NoLease}]]
      BY <3>2, Zenon DEF TypeOK
    <3>3. slot \in Leases \cup {NoLease}
      BY Zenon DEF TypeOK
    <3> QED
      BY <1>11, <3>1, <3>2, <3>3, Zenon DEF _request_lease_release
  <2> QED
    BY <1>11, <2>1, <2>2 DEF TypeOK, _request_lease_release, controllerVars, loopVars, Labels
<1>12. ASSUME NEW t \in Tasks, ReleaseCall(l, t) PROVE TypeOK'
  <2>1. pc' \in [Leases -> [Tasks -> Labels]]
    BY <1>12, GotoMoves, Zenon DEF ReleaseCall, Labels
  <2>2. released' \subseteq Leases
    BY <1>12 DEF TypeOK, ReleaseCall, CallNamesLease
  <2>3. failures' \in 0..MaxFailures
    BY <1>12, ConfigAssumption DEF TypeOK, ReleaseCall
  <2> QED
    BY <1>12, <2>1, <2>2, <2>3 DEF TypeOK, ReleaseCall, loopVars, Labels
<1>13. ASSUME NEW t \in Tasks, ReleaseReturn(l, t) PROVE TypeOK'
  <2>1. pc' \in [Leases -> [Tasks -> Labels]]
    BY <1>13, GotoMoves, Zenon DEF ReleaseReturn, AfterRelease, Labels
  <2>2. ctx' \in [Leases -> SUBSET Events]
    BY <1>13, Zenon DEF TypeOK, ReleaseReturn, Done, Events
  <2>3. releasing' \in [Leases -> [Tasks -> Leases \cup {NoLease}]]
    BY <1>13, Zenon DEF TypeOK, ReleaseReturn
  <2> QED
    BY <1>13, <2>1, <2>2, <2>3
    DEF TypeOK, ReleaseReturn, Report, controllerVars, loopVars, Labels, Statuses
<1>14. ASSUME NEW t \in Tasks, WaitDone(l, t) PROVE TypeOK'
  BY <1>14, GotoMoves DEF TypeOK, WaitDone, AfterRelease, controllerVars, loopVars, Labels
<1> QED
  BY <1>1, <1>2, <1>3, <1>4, <1>5, <1>6, <1>7, <1>8, <1>9, <1>10, <1>11, <1>12, <1>13, <1>14
  DEF TaskStep, LeaseTask, Release

(* A release in progress names a lease.                                    *)
LEMMA CallKeeps ==
    ASSUME TypeOK, CallNamesLease, [Next]_vars
    PROVE  CallNamesLease'
<1>1. ASSUME NEW l \in Leases, NEW t \in Tasks, _request_lease_release(l, t)
      PROVE  CallNamesLease'
  <2>1. \A k \in Leases, u \in Tasks :
          (k # l \/ u # t) => pc'[k][u] = pc[k][u] /\ releasing'[k][u] = releasing[k][u]
    BY <1>1, GotoMoves DEF TypeOK, _request_lease_release, AfterRelease, Labels
  <2>2. pc'[l][t] = "call" => releasing'[l][t] = slot /\ slot # NoLease
    BY <1>1, GotoMoves DEF TypeOK, _request_lease_release, AfterRelease, Labels
  <2> QED
    BY <2>1, <2>2, TypeParts DEF CallNamesLease
<1>2. ASSUME NEW l \in Leases, NEW t \in Tasks, ReleaseReturn(l, t)
      PROVE  CallNamesLease'
  <2>1. \A k \in Leases, u \in Tasks :
          (k # l \/ u # t) => pc'[k][u] = pc[k][u] /\ releasing'[k][u] = releasing[k][u]
    BY <1>2, GotoMoves DEF TypeOK, ReleaseReturn, AfterRelease, Labels
  <2>2. pc'[l][t] # "call"
    BY <1>2, GotoMoves DEF ReleaseReturn, AfterRelease, Labels
  <2> QED
    BY <2>1, <2>2, ZenonT(40) DEF CallNamesLease
<1>3. ASSUME UNCHANGED releasing,
             \A k \in Leases, u \in Tasks : pc'[k][u] = "call" => pc[k][u] = "call"
      PROVE  CallNamesLease'
  BY <1>3, Zenon DEF CallNamesLease
<1>4. ASSUME UNCHANGED <<pc, releasing>> PROVE CallNamesLease'
  BY <1>4, Zenon DEF CallNamesLease
<1>5. CASE HandleStatus
  <2>1. UNCHANGED releasing
    BY <1>5, Zenon DEF HandleStatus
  <2>2. CASE UNCHANGED pc
    BY <1>4, <2>1, <2>2, Zenon
  <2>3. CASE _on_lease_acquired(Head(control).lease)
    BY <1>3, <2>1, <2>3, Zenon DEF TypeOK, _on_lease_acquired
  <2> QED
    BY <1>5, <2>2, <2>3, Zenon DEF HandleStatus, _apply_status, _on_lease_released, Reassigned
<1>6. ASSUME NEW l \in Leases, NEW t \in Tasks, NEW x \in Labels \ {"call"}, Goto(l, t, x),
             UNCHANGED releasing
      PROVE  CallNamesLease'
  BY <1>3, <1>6, GotoMoves
<1>7. ASSUME NEW l \in Leases, LeaseTask(l) PROVE CallNamesLease'
  <2>1. CASE CreateSession(l) /\ "ended" \notin ctx[l]
    <3>1. \A k \in Leases, u \in Tasks : pc'[k][u] = "call" => pc[k][u] = "call"
      BY <2>1 DEF TypeOK, CreateSession, Tasks
    <3> QED
      BY <1>3, <2>1, <3>1, Zenon DEF CreateSession
  <2> QED
    BY <1>6, <1>7, <2>1, Zenon
    DEF LeaseTask, StartLease, CreateSession, LeaseEnds, _cleanup_after_lease, StartAfterHook,
        CloseSession, Tasks, Labels
<1>8. ASSUME NEW l \in Leases, EndSession(l) \/ _handle_end_session(l) \/ WaitReady(l)
      PROVE  CallNamesLease'
  BY <1>4, <1>6, <1>8, Zenon
  DEF EndSession, _handle_end_session, StartAfterHook, WaitReady, Tasks, Labels
<1>9. ASSUME NEW l \in Leases, BeforeHook(l) PROVE CallNamesLease'
  BY <1>6, <1>9, Zenon DEF BeforeHook, Tasks, Labels
<1>10. ASSUME NEW l \in Leases, NEW t \in Tasks, AfterHook(l, t) \/ ReleaseCall(l, t) \/ WaitDone(l, t)
       PROVE  CallNamesLease'
  BY <1>6, <1>10, Zenon DEF AfterHook, ReleaseCall, WaitDone, AfterRelease, Labels
<1>11. CASE UNCHANGED vars
  BY <1>4, <1>11, Zenon DEF vars
<1>12. CASE Next
  BY <1>1, <1>2, <1>4, <1>5, <1>7, <1>8, <1>9, <1>10, <1>12, Zenon
  DEF Next, Release, AssignLease, EndLease, SendStatus, Reconnect, HandleFinished,
      StopOnLeaseExit, ReportStatus, _unregister_with_controller
<1> QED
  BY <1>11, <1>12, Zenon

RuntimeType == TypeOK /\ CallNamesLease

LEMMA NextType == RuntimeType /\ [Next]_vars => RuntimeType'
  BY OtherType, LoopType, TaskType, CallKeeps, Zenon DEF RuntimeType, Next, TaskStep

LEMMA RuntimeTypes == Spec => []RuntimeType
<1>1. Init => RuntimeType
  BY InitType DEF Init, RuntimeType, CallNamesLease
<1> QED
  BY <1>1, NextType, PTL DEF Spec

(* The exporter's state has its type, whatever the hooks and the           *)
(* controller do; a release that is sent names a lease.                    *)
THEOREM RuntimeTypeCorrect == Spec => []TypeOK
<1>1. RuntimeType => TypeOK
  BY Zenon DEF RuntimeType
<1> QED
  BY <1>1, RuntimeTypes, PTL

-----------------------------------------------------------------------------
(* What a step of the tasks of lease l leaves of the others, and of the    *)
(* slot: LeaseFinished is posted when handle_lease ends.                   *)
PcKept(l) == \A k \in Leases \ {l} : pc'[k] = pc[k]
CtxKept(l) ==
    \A k \in Leases \ {l} : ctx'[k] = ctx[k] \/ ctx'[k] = ctx[k] \cup {"ended"}
LeaseGoes(l) ==
    \/ /\ pc'[l]["lease"] = pc[l]["lease"]
       /\ UNCHANGED control
    \/ /\ pc[l]["lease"] \notin {"none", "gone"}
       /\ pc'[l]["lease"] \notin {"none", "gone"}
       /\ UNCHANGED control
    \/ /\ pc[l]["lease"] \notin {"none", "gone"}
       /\ pc'[l]["lease"] = "gone"
       /\ PostFinished(l)

LEMMA TaskFrame ==
    ASSUME TypeOK, RuntimeInv, NEW l \in Leases, UNCHANGED <<config, slot>>,
           PcKept(l), CtxKept(l), LeaseGoes(l), TasksFit(pc'[l], ctx'[l])
    PROVE  RuntimeInv'
<1>1. SlotOf(slot', pc') /\ FinishedIn(control', slot', pc') /\ HeldIn(control', slot', pc')
  <2>1. CASE pc'[l]["lease"] = pc[l]["lease"] /\ UNCHANGED control
    <3>1. \A k \in Leases : pc'[k]["lease"] = pc[k]["lease"]
      BY <2>1, Zenon DEF PcKept
    <3> QED
      BY <2>1, <3>1, InvParts, SlotKept, FinishedKept, HeldKept, Zenon
  <2>2. CASE pc[l]["lease"] \notin {"none", "gone"}
    <3>1. slot = l /\ SlotOf(slot', pc')
      BY <2>2, InvParts, SlotMoves, Zenon DEF PcKept
    <3>2. Unfinished(control)
      BY <2>2, <3>1, InvParts, FinishedNot, Zenon
    <3>3. CASE UNCHANGED control /\ pc'[l]["lease"] \notin {"none", "gone"}
      BY <3>1, <3>2, <3>3, FinishedNot, Zenon DEF HeldIn
    <3>4. CASE pc'[l]["lease"] = "gone" /\ PostFinished(l)
      <4>1. FinishedIn(control', slot', pc')
        BY <3>1, <3>2, <3>4, TypeParts, FinishedPosted, Zenon DEF PostFinished
      <4>2. ~Unfinished(control')
        BY <3>4, TypeParts, HeldPosted, Zenon DEF PostFinished
      <4> QED
        BY <3>1, <3>4, <4>1, <4>2, Zenon DEF HeldIn
    <3> QED
      BY <2>2, <3>1, <3>3, <3>4, Zenon DEF LeaseGoes
  <2> QED
    BY <2>1, <2>2, Zenon DEF LeaseGoes
<1>2. \A k \in Leases : TasksFit(pc'[k], ctx'[k])
  <2> TAKE k \in Leases
  <2>1. TasksFit(pc[k], ctx[k]) /\ TasksFit(pc[k], ctx[k] \cup {"ended"})
    BY InvParts, EndedFits, Zenon
  <2>2. CASE k = l
    BY <2>2, Zenon
  <2>3. CASE k \in Leases \ {l}
    BY <2>1, <2>3, Zenon DEF PcKept, CtxKept
  <2> QED
    BY <2>2, <2>3, Zenon
<1> QED
  BY <1>1, <1>2, InvWhole, Zenon

(* A step that touches no task of any lease.                               *)
LEMMA OtherFrame ==
    ASSUME RuntimeInv, UNCHANGED <<config, slot, control, pc, ctx>>
    PROVE  RuntimeInv'
  BY InvParts, InvWhole, Zenon

(* A step of handle_lease goes from a position of its own to another, or   *)
(* to its end; the other two tasks leave the channel alone.                *)
MayGo(l, t, x) ==
    \/ t # "lease" /\ UNCHANGED control
    \/ /\ t = "lease" /\ pc[l]["lease"] \notin {"none", "gone"}
       /\ \/ x \notin {"none", "gone"} /\ UNCHANGED control
          \/ x = "gone" /\ PostFinished(l)

LEMMA TaskMoves ==
    ASSUME TypeOK, RuntimeInv, UNCHANGED <<config, slot>>,
           NEW l \in Leases, NEW t \in Tasks, NEW x, Goto(l, t, x), MayGo(l, t, x),
           CtxKept(l), FitsAt(pc[l], t, x, ctx'[l])
    PROVE  RuntimeInv'
<1>1. /\ PcKept(l)
      /\ pc'[l]["before"] = IF t = "before" THEN x ELSE pc[l]["before"]
      /\ pc'[l]["lease"] = IF t = "lease" THEN x ELSE pc[l]["lease"]
      /\ pc'[l]["end"] = IF t = "end" THEN x ELSE pc[l]["end"]
  BY TypeParts, Zenon DEF Goto, Tasks, PcKept
<1>2. LeaseGoes(l)
  BY <1>1, Zenon DEF MayGo, LeaseGoes
<1>3. TasksFit(pc'[l], ctx'[l])
  BY <1>1, Zenon DEF TasksFit, FitsAt
<1> QED
  BY <1>1, <1>2, <1>3, TaskFrame, Zenon

LEMMA GotoKeeps ==
    ASSUME TypeOK, RuntimeInv, UNCHANGED <<config, slot, ctx>>,
           NEW l \in Leases, NEW t \in Tasks, NEW x, Goto(l, t, x), MayGo(l, t, x),
           FitsAt(pc[l], t, x, ctx[l])
    PROVE  RuntimeInv'
<1>1. CtxKept(l)
  BY Zenon DEF CtxKept
<1> QED
  BY <1>1, TaskMoves, Zenon

LEMMA GotoSetKeeps ==
    ASSUME TypeOK, RuntimeInv, UNCHANGED <<config, slot>>,
           NEW l \in Leases, NEW t \in Tasks, NEW x, Goto(l, t, x), MayGo(l, t, x),
           NEW e, Set(l, e), FitsAt(pc[l], t, x, ctx[l] \cup e)
    PROVE  RuntimeInv'
<1>1. CtxKept(l) /\ ctx'[l] = ctx[l] \cup e
  BY TypeParts, Zenon DEF Set, CtxKept
<1> QED
  BY <1>1, TaskMoves, Zenon

-----------------------------------------------------------------------------
(* The steps of handle_lease.                                              *)
LEMMA StartLeaseKeeps ==
    ASSUME TypeOK, RuntimeInv, NEW l \in Leases, StartLease(l)
    PROVE  RuntimeInv'
<1>1. UNCHANGED <<config, slot>> /\ pc[l]["lease"] = "start"
  BY Zenon DEF StartLease
<1>2. CASE "ended" \in ctx[l]
  <2>1. Goto(l, "lease", "gone") /\ Set(l, {"skip", "before", "done"}) /\ PostFinished(l)
    BY <1>2, Zenon DEF StartLease
  <2>2. FitsAt(pc[l], "lease", "gone", ctx[l] \cup {"skip", "before", "done"})
    BY <1>1, <1>2, InvParts, LeaseFits, Zenon
  <2> QED
    BY <1>1, <2>1, <2>2, GotoSetKeeps, Zenon DEF MayGo, Tasks
<1>3. CASE "ended" \notin ctx[l]
  <2>1. Goto(l, "lease", "session") /\ UNCHANGED <<ctx, control>>
    BY <1>3, Zenon DEF StartLease
  <2>2. FitsAt(pc[l], "lease", "session", ctx[l])
    BY <1>1, <1>3, InvParts, LeaseFits, Zenon
  <2> QED
    BY <1>1, <2>1, <2>2, GotoKeeps, Zenon DEF MayGo, Tasks
<1> QED
  BY <1>2, <1>3, Zenon

LEMMA CreateSessionKeeps ==
    ASSUME TypeOK, RuntimeInv, NEW l \in Leases, CreateSession(l)
    PROVE  RuntimeInv'
<1>1. UNCHANGED <<config, slot, control>> /\ pc[l]["lease"] = "session"
  BY Zenon DEF CreateSession, loopVars
<1>2. CASE "ended" \in ctx[l]
  <2>1. Goto(l, "lease", "close") /\ Set(l, {"ready", "skip", "before", "done"})
    BY <1>2, Zenon DEF CreateSession
  <2>2. FitsAt(pc[l], "lease", "close", ctx[l] \cup {"ready", "skip", "before", "done"})
    BY <1>1, <1>2, InvParts, LeaseFits, Zenon
  <2> QED
    BY <1>1, <2>1, <2>2, GotoSetKeeps, Zenon DEF MayGo, Tasks
<1>3. CASE "ended" \notin ctx[l]
  <2> DEFINE e == IF config.executor THEN {"ready"} ELSE {"ready", "before"}
  <2>1. pc' = [pc EXCEPT ![l]["lease"] = "serve", ![l]["end"] = "wait"] /\ Set(l, e)
    BY <1>3, Zenon DEF CreateSession
  <2>3. /\ PcKept(l) /\ pc'[l]["lease"] = "serve"
        /\ pc'[l]["before"] = pc[l]["before"] /\ pc'[l]["end"] = "wait"
    BY <2>1, TypeParts, Zenon DEF Tasks, PcKept
  <2>2. TasksFit(pc'[l], ctx[l] \cup e)
    BY <1>1, <1>3, <2>3, InvParts, ServeFits, Zenon
  <2> HIDE DEF e
  <2>4. CtxKept(l) /\ ctx'[l] = ctx[l] \cup e
    BY <2>1, TypeParts, Zenon DEF Set, CtxKept
  <2>5. TasksFit(pc'[l], ctx'[l])
    BY <2>2, <2>4, Zenon
  <2>6. LeaseGoes(l)
    BY <1>1, <2>3, Zenon DEF LeaseGoes
  <2> QED
    BY <1>1, <2>3, <2>4, <2>5, <2>6, TaskFrame, Zenon
<1> QED
  BY <1>2, <1>3, Zenon

LEMMA LeaseEndsKeeps ==
    ASSUME TypeOK, RuntimeInv, NEW l \in Leases, LeaseEnds(l)
    PROVE  RuntimeInv'
<1>1. /\ UNCHANGED <<config, slot, control, ctx>> /\ Goto(l, "lease", "cleanup")
      /\ pc[l]["lease"] = "serve" /\ "ended" \in ctx[l]
  BY Zenon DEF LeaseEnds, loopVars
<1>2. FitsAt(pc[l], "lease", "cleanup", ctx[l])
  BY <1>1, InvParts, LeaseFits, Zenon
<1> QED
  BY <1>1, <1>2, GotoKeeps, Zenon DEF MayGo, Tasks

LEMMA CleanupKeeps ==
    ASSUME TypeOK, RuntimeInv, NEW l \in Leases, _cleanup_after_lease(l)
    PROVE  RuntimeInv'
<1>1. /\ UNCHANGED <<config, slot, control>>
      /\ pc[l]["lease"] = "cleanup" /\ "before" \in ctx[l]
  BY Zenon DEF _cleanup_after_lease, loopVars
<1>2. CASE "started" \in ctx[l] /\ Goto(l, "lease", "waitDone") /\ UNCHANGED ctx
  <2>1. FitsAt(pc[l], "lease", "waitDone", ctx[l])
    BY <1>1, <1>2, InvParts, CleanupFits, Zenon
  <2> QED
    BY <1>1, <1>2, <2>1, GotoKeeps, Zenon DEF MayGo, Tasks
<1>3. CASE "started" \notin ctx[l] /\ Set(l, {"started"}) /\ StartAfterHook(l, "lease")
  <2>1. PICK to \in {"hook", "pause"} : Goto(l, "lease", to)
    BY <1>3, Zenon DEF StartAfterHook
  <2>2. FitsAt(pc[l], "lease", to, ctx[l] \cup {"started"})
    BY <1>1, <1>3, InvParts, CleanupFits, Zenon
  <2> QED
    BY <1>1, <1>3, <2>1, <2>2, GotoSetKeeps, Zenon DEF MayGo, Tasks
<1>4. CASE "started" \notin ctx[l] /\ Set(l, {"started", "done"}) /\ Goto(l, "lease", "close")
  <2>1. FitsAt(pc[l], "lease", "close", ctx[l] \cup {"started", "done"})
    BY <1>1, <1>4, InvParts, CleanupFits, Zenon
  <2> QED
    BY <1>1, <1>4, <2>1, GotoSetKeeps, Zenon DEF MayGo, Tasks
<1> QED
  BY <1>2, <1>3, <1>4, Zenon DEF _cleanup_after_lease

LEMMA CloseSessionKeeps ==
    ASSUME TypeOK, RuntimeInv, NEW l \in Leases, CloseSession(l)
    PROVE  RuntimeInv'
<1>1. /\ UNCHANGED <<config, slot>> /\ PostFinished(l) /\ pc[l]["lease"] = "close"
      /\ Goto(l, "lease", "gone") /\ Set(l, {"before", "done"})
  BY Zenon DEF CloseSession
<1>2. FitsAt(pc[l], "lease", "gone", ctx[l] \cup {"before", "done"})
  BY <1>1, InvParts, LeaseFits, Zenon
<1> QED
  BY <1>1, <1>2, GotoSetKeeps, Zenon DEF MayGo, Tasks

-----------------------------------------------------------------------------
(* EndSession, its task, and the beforeLease hook.                         *)
LEMMA EndSessionKeeps ==
    ASSUME TypeOK, RuntimeInv, NEW l \in Leases, EndSession(l)
    PROVE  RuntimeInv'
<1>1. UNCHANGED <<config, slot, control, pc>> /\ Set(l, {"endSession"}) /\ "before" \in ctx[l]
  BY Zenon DEF EndSession, loopVars
<1>2. CtxKept(l) /\ ctx'[l] = ctx[l] \cup {"endSession"}
  BY <1>1, TypeParts, Zenon DEF Set, CtxKept
<1>3. TasksFit(pc'[l], ctx'[l])
  BY <1>1, <1>2, InvParts, EndSessionFits, Zenon
<1> QED
  BY <1>1, <1>2, <1>3, TaskFrame, Zenon DEF PcKept, LeaseGoes

LEMMA HandleEndSessionKeeps ==
    ASSUME TypeOK, RuntimeInv, NEW l \in Leases, _handle_end_session(l)
    PROVE  RuntimeInv'
<1>1. UNCHANGED <<config, slot, control>> /\ pc[l]["end"] = "wait"
  BY Zenon DEF _handle_end_session, loopVars
<1>2. CASE (Goto(l, "end", "gone") \/ Goto(l, "end", "waitDone")) /\ UNCHANGED ctx
  <2>1. FitsAt(pc[l], "end", "gone", ctx[l]) /\ FitsAt(pc[l], "end", "waitDone", ctx[l])
    BY <1>1, InvParts, EndTaskFits, Zenon
  <2> QED
    BY <1>1, <1>2, <2>1, GotoKeeps, Zenon DEF MayGo, Tasks
<1>3. CASE /\ "endSession" \in ctx[l] /\ "started" \notin ctx[l]
           /\ Set(l, {"started"}) /\ StartAfterHook(l, "end")
  <2>1. PICK to \in {"hook", "pause"} : Goto(l, "end", to)
    BY <1>3, Zenon DEF StartAfterHook
  <2>2. FitsAt(pc[l], "end", to, ctx[l] \cup {"started"})
    BY <1>1, <1>3, InvParts, EndTaskFits, Zenon
  <2> QED
    BY <1>1, <1>3, <2>1, <2>2, GotoSetKeeps, Zenon DEF MayGo, Tasks
<1>4. CASE /\ "endSession" \in ctx[l] /\ "started" \notin ctx[l]
           /\ Set(l, {"started", "done"}) /\ Goto(l, "end", "gone")
  <2>1. FitsAt(pc[l], "end", "gone", ctx[l] \cup {"started", "done"})
    BY <1>1, <1>4, InvParts, EndTaskFits, Zenon
  <2> QED
    BY <1>1, <1>4, <2>1, GotoSetKeeps, Zenon DEF MayGo, Tasks
<1> QED
  BY <1>2, <1>3, <1>4, Zenon DEF _handle_end_session

LEMMA WaitReadyKeeps ==
    ASSUME TypeOK, RuntimeInv, NEW l \in Leases, WaitReady(l)
    PROVE  RuntimeInv'
<1>1. UNCHANGED <<config, slot, control>> /\ pc[l]["before"] = "wait"
  BY Zenon DEF WaitReady, loopVars
<1>2. CASE Goto(l, "before", "gone") /\ (Set(l, {"before"}) \/ Set(l, {"skip", "before"}))
  <2>1. PICK e \in {{"before"}, {"skip", "before"}} : Set(l, e)
    BY <1>2, Zenon
  <2>2. FitsAt(pc[l], "before", "gone", ctx[l] \cup e)
    BY InvParts, BeforeFits, Zenon
  <2> QED
    BY <1>1, <1>2, <2>1, <2>2, GotoSetKeeps, Zenon DEF MayGo, Tasks
<1>3. CASE /\ "ready" \in ctx[l] /\ "ended" \notin ctx[l]
           /\ Goto(l, "before", "hook") /\ UNCHANGED ctx
  <2>1. FitsAt(pc[l], "before", "hook", ctx[l])
    BY <1>1, <1>3, InvParts, BeforeFits, Zenon
  <2> QED
    BY <1>1, <1>3, <2>1, GotoKeeps, Zenon DEF MayGo, Tasks
<1> QED
  BY <1>2, <1>3, Zenon DEF WaitReady

LEMMA BeforeHookKeeps ==
    ASSUME TypeOK, RuntimeInv, NEW l \in Leases, BeforeHook(l)
    PROVE  RuntimeInv'
<1>0. \A to \in {"gone", "pause"} : /\ FitsAt(pc[l], "before", to, ctx[l] \cup {"before"})
                                    /\ FitsAt(pc[l], "before", to, ctx[l] \cup {"skip", "before"})
  BY InvParts, BeforeFits, Zenon
<1>1. UNCHANGED <<config, slot, control>>
  BY Zenon DEF BeforeHook, loopVars
<1>2. PICK result \in config.beforeResults :
        /\ Set(l, IF result \in {"endLease", "exit"} THEN {"skip", "before"} ELSE {"before"})
        /\ Goto(l, "before", IF result = "endLease" THEN "pause" ELSE "gone")
  BY Zenon DEF BeforeHook
<1>3. PICK e \in {{"before"}, {"skip", "before"}}, to \in {"gone", "pause"} :
        Set(l, e) /\ Goto(l, "before", to)
  BY <1>2, Zenon
<1>4. FitsAt(pc[l], "before", to, ctx[l] \cup e)
  BY <1>0, Zenon
<1> QED
  BY <1>1, <1>3, <1>4, GotoSetKeeps, Zenon DEF MayGo, Tasks

-----------------------------------------------------------------------------
(* The afterLease hook and the release of the lease.  The hook and the     *)
(* pause after it, up to the answer of the controller, are the same to the *)
(* other tasks.                                                            *)
LEMMA HookMoves ==
    ASSUME TypeOK, RuntimeInv, UNCHANGED <<config, slot, control, ctx>>,
           NEW l \in Leases, NEW t \in Tasks, pc[l][t] \in InAfterHook,
           t = "before" => pc[l][t] # "hook",
           NEW to \in InAfterHook \ {"hook"}, Goto(l, t, to)
    PROVE  RuntimeInv'
<1>1. FitsAt(pc[l], t, to, ctx[l])
  BY InvParts, HookFits, Zenon
<1> QED
  BY <1>1, GotoKeeps, Zenon DEF MayGo, InAfterHook

LEMMA AfterHookKeeps ==
    ASSUME TypeOK, RuntimeInv, NEW l \in Leases, NEW t \in Tasks, AfterHook(l, t)
    PROVE  RuntimeInv'
<1>1. UNCHANGED <<config, slot, control, ctx>> /\ t # "before" /\ pc[l][t] = "hook"
  BY Zenon DEF AfterHook, loopVars
<1>2. PICK to \in {"quit", "pause"} : Goto(l, t, to)
  BY Zenon DEF AfterHook
<1> QED
  BY <1>1, <1>2, HookMoves, Zenon DEF InAfterHook

LEMMA RequestReleaseKeeps ==
    ASSUME TypeOK, RuntimeInv, NEW l \in Leases, NEW t \in Tasks, _request_lease_release(l, t)
    PROVE  RuntimeInv'
<1>1. UNCHANGED <<config, slot, control>> /\ pc[l][t] \in {"pause", "quit"}
  BY Zenon DEF _request_lease_release, loopVars
<1>2. CASE Set(l, Done(t)) /\ Goto(l, t, AfterRelease(t))
  <2>1. FitsAt(pc[l], t, AfterRelease(t), ctx[l] \cup Done(t))
    BY <1>1, InvParts, ReleasedFits, Zenon
  <2>2. MayGo(l, t, AfterRelease(t))
    BY <1>1, Zenon DEF MayGo, AfterRelease
  <2> QED
    BY <1>1, <1>2, <2>1, <2>2, GotoSetKeeps, Zenon
<1>3. CASE Goto(l, t, "call") /\ UNCHANGED ctx
  BY <1>1, <1>3, HookMoves, Zenon DEF InAfterHook
<1> QED
  BY <1>2, <1>3, Zenon DEF _request_lease_release

LEMMA ReleaseCallKeeps ==
    ASSUME TypeOK, RuntimeInv, NEW l \in Leases, NEW t \in Tasks, ReleaseCall(l, t)
    PROVE  RuntimeInv'
<1>1. UNCHANGED <<config, slot, control, ctx>> /\ pc[l][t] = "call" /\ Goto(l, t, "return")
  BY Zenon DEF ReleaseCall, loopVars
<1> QED
  BY <1>1, HookMoves, Zenon DEF InAfterHook

(* The lease in the slot ends with the answer, whichever lease that is.    *)
LEMMA ReleaseReturnKeeps ==
    ASSUME TypeOK, RuntimeInv, NEW l \in Leases, NEW t \in Tasks, ReleaseReturn(l, t)
    PROVE  RuntimeInv'
<1>1. /\ UNCHANGED <<config, slot, control>> /\ pc[l][t] = "return"
      /\ Goto(l, t, AfterRelease(t))
      /\ ctx' = [k \in Leases |-> ctx[k] \cup (IF k = slot THEN {"ended"} ELSE {})
                                         \cup (IF k = l THEN Done(t) ELSE {})]
  BY Zenon DEF ReleaseReturn, loopVars
<1>2. /\ CtxKept(l)
      /\ \/ ctx'[l] = ctx[l] \cup Done(t)
         \/ ctx'[l] = (ctx[l] \cup Done(t)) \cup {"ended"}
  BY <1>1, Zenon DEF CtxKept
<1>3. FitsAt(pc[l], t, AfterRelease(t), ctx[l] \cup Done(t))
  BY <1>1, InvParts, ReleasedFits, Zenon
<1>4. FitsAt(pc[l], t, AfterRelease(t), ctx'[l])
  BY <1>2, <1>3, EndedFitsAt
<1>5. MayGo(l, t, AfterRelease(t))
  BY <1>1, Zenon DEF MayGo, AfterRelease
<1> QED
  BY <1>1, <1>2, <1>4, <1>5, TaskMoves, Zenon

LEMMA WaitDoneKeeps ==
    ASSUME TypeOK, RuntimeInv, NEW l \in Leases, NEW t \in Tasks, WaitDone(l, t)
    PROVE  RuntimeInv'
<1>1. /\ UNCHANGED <<config, slot, control, ctx>> /\ pc[l][t] = "waitDone" /\ "done" \in ctx[l]
      /\ Goto(l, t, AfterRelease(t))
  BY Zenon DEF WaitDone, loopVars
<1>2. ctx[l] \cup Done(t) = ctx[l]
  BY <1>1, Zenon DEF Done
<1>3. FitsAt(pc[l], t, AfterRelease(t), ctx[l])
  BY <1>1, <1>2, InvParts, ReleasedFits
<1>4. MayGo(l, t, AfterRelease(t))
  BY <1>1, Zenon DEF MayGo, AfterRelease
<1> QED
  BY <1>1, <1>3, <1>4, GotoKeeps, Zenon

-----------------------------------------------------------------------------
(* The control-plane loop.                                                 *)

(* A status message changes nothing about who has finished.                *)
LEMMA SendStatusKeeps ==
    ASSUME TypeOK, RuntimeInv, SendStatus
    PROVE  RuntimeInv'
<1>1. UNCHANGED <<config, slot, pc, ctx>> /\ \E k : control' = Append(control, Status(k))
  BY Zenon DEF SendStatus
<1>2. FinishedIn(control', slot, pc)
  BY <1>1, InvParts, TypeParts, StatusPosted, Zenon
<1>3. HeldIn(control', slot, pc)
  BY <1>1, InvParts, TypeParts, HeldStatus, Zenon DEF HeldIn
<1> QED
  BY <1>1, <1>2, <1>3, InvParts, InvWhole, Zenon

LEMMA HandleStatusKeeps ==
    ASSUME TypeOK, RuntimeInv, HandleStatus
    PROVE  RuntimeInv'
<1> DEFINE m == Head(control).lease
<1>1. /\ UNCHANGED config /\ control' = Tail(control) /\ _apply_status(m) /\ control # <<>>
      /\ Head(control).kind # "finished"
  BY Zenon DEF HandleStatus
<1>2. m \in Leases \cup {NoLease}
  <2>1. Head(control) \in Message
    BY <1>1, TypeParts
  <2> QED
    BY <2>1, Zenon DEF Message
<1>3. FinishedIn(control', slot, pc)
  BY <1>1, InvParts, TypeParts, FinishedTail, Zenon
<1>4. HeldIn(control', slot, pc)
  BY <1>1, InvParts, TypeParts, HeldTail, Zenon DEF HeldIn
<1> HIDE DEF m
<1>5. CASE m # NoLease /\ slot = NoLease /\ _on_lease_acquired(m)
  <2>1. m \in Leases
    BY <1>2, <1>5, Zenon
  <2>2. /\ slot' = m
        /\ \A k \in Leases \ {m} : pc'[k] = pc[k] /\ ctx'[k] = ctx[k]
        /\ ctx'[m] = {}
        /\ pc'[m]["lease"] = "start" /\ pc'[m]["end"] = "none"
        /\ pc'[m]["before"] = IF config.executor THEN "wait" ELSE "none"
    BY <1>5, <2>1, TypeParts, Zenon DEF _on_lease_acquired, Tasks
  <2>3. slot \notin Leases
    BY <1>5, ConfigAssumption, Zenon
  <2>4. SlotOf(slot', pc')
    BY <2>1, <2>2, <2>3, InvParts, SlotTaken
  <2>5. FinishedIn(control', slot', pc')
    BY <1>3, <2>3, FinishedNot, Zenon
  <2>6. HeldIn(control', slot', pc')
    BY <2>2, Zenon DEF HeldIn
  <2>7. TasksFit(pc'[m], ctx'[m])
    BY <2>2, FreshFits, Zenon
  <2>8. \A k \in Leases : TasksFit(pc'[k], ctx'[k])
    BY <2>2, <2>7, InvParts, Zenon
  <2> QED
    BY <1>1, <2>4, <2>5, <2>6, <2>8, InvWhole, Zenon
<1>6. CASE /\ UNCHANGED <<slot, pc>>
           /\ \A k \in Leases : ctx'[k] = ctx[k] \/ ctx'[k] = ctx[k] \cup {"ended"}
  <2>4. \A k \in Leases : TasksFit(pc'[k], ctx'[k])
    BY <1>6, InvParts, EndedFits
  <2> QED
    BY <1>1, <1>3, <1>4, <1>6, <2>4, InvParts, InvWhole, Zenon
<1>7. ASSUME slot # NoLease, Set(slot, {"ended"})
      PROVE  \A k \in Leases : ctx'[k] = ctx[k] \/ ctx'[k] = ctx[k] \cup {"ended"}
  BY <1>7, SetAdds, TypeParts, Zenon DEF Events
<1> QED
  BY <1>1, <1>5, <1>6, <1>7, Zenon DEF _apply_status, _on_lease_released, Reassigned

(* The slot is given up when no task of handle_lease is left, and with the *)
(* only LeaseFinished there is.                                            *)
LEMMA HandleFinishedKeeps ==
    ASSUME TypeOK, RuntimeInv, HandleFinished
    PROVE  RuntimeInv'
<1>1. UNCHANGED <<config, pc, ctx>> /\ control # <<>> /\ Head(control).kind = "finished"
  BY Zenon DEF HandleFinished
<1>2. /\ slot \in Leases /\ pc[slot]["lease"] = "gone"
      /\ Unfinished(Tail(control)) /\ Tail(control) \in Seq(Message)
  BY <1>1, InvParts, TypeParts, FinishedTail, Zenon
<1>3. control' = Tail(control) \/ control' = Append(Tail(control), Status(pendingLease))
  BY Zenon DEF HandleFinished
<1>6. slot' \notin Leases
  BY <1>1, <1>2, InvParts, TypeParts, FinishedTail, ConfigAssumption, Zenon DEF HandleFinished
<1>4. Unfinished(control')
  BY <1>2, <1>3, StatusPosted, Zenon
<1>5. SlotOf(slot', pc') /\ FinishedIn(control', slot', pc')
  BY <1>1, <1>2, <1>4, InvParts, SlotFree, FinishedNot, Zenon
<1> QED
  BY <1>1, <1>5, <1>6, InvParts, InvWhole, Zenon DEF HeldIn

-----------------------------------------------------------------------------
LEMMA InitRuntime == Init => RuntimeInv
<1> SUFFICES ASSUME Init PROVE RuntimeInv
  OBVIOUS
<1>1. \A l \in Leases : /\ ctx[l] = {}
                        /\ \A t \in Tasks : pc[l][t] = "none"
  BY Zenon DEF Init
<1>2. \A l \in Leases : TasksFit(pc[l], ctx[l])
  BY <1>1, FreshFits, Zenon DEF Tasks
<1>3. HasSlot /\ FinishedOnce
  BY <1>1 DEF Init, HasSlot, FinishedOnce, SlotOf, FinishedIn, Tasks
<1>4. SlotIsHeld
  BY ConfigAssumption, Zenon DEF Init, SlotIsHeld, HeldIn
<1> QED
  BY <1>2, <1>3, <1>4, Zenon DEF RuntimeInv

LEMMA NextRuntime ==
    ASSUME TypeOK, RuntimeInv, [Next]_vars
    PROVE  RuntimeInv'
<1>1. ASSUME NEW l \in Leases, TaskStep(l) PROVE RuntimeInv'
  BY <1>1, StartLeaseKeeps, CreateSessionKeeps, LeaseEndsKeeps, CleanupKeeps, CloseSessionKeeps,
     EndSessionKeeps, HandleEndSessionKeeps, WaitReadyKeeps, BeforeHookKeeps, AfterHookKeeps,
     RequestReleaseKeeps, ReleaseCallKeeps, ReleaseReturnKeeps, WaitDoneKeeps, Zenon
  DEF TaskStep, LeaseTask, Release
<1>2. CASE SendStatus \/ HandleStatus \/ HandleFinished
  BY <1>2, SendStatusKeeps, HandleStatusKeeps, HandleFinishedKeeps, Zenon
<1>3. CASE \/ \E l \in Leases : AssignLease(l)
           \/ EndLease \/ Reconnect \/ StopOnLeaseExit \/ ReportStatus
           \/ _unregister_with_controller
  BY <1>3, OtherFrame, Zenon
  DEF AssignLease, EndLease, Reconnect, StopOnLeaseExit, ReportStatus,
      _unregister_with_controller, loopVars
<1>4. CASE UNCHANGED vars
  BY <1>4, OtherFrame, Zenon DEF vars, loopVars
<1> QED
  BY <1>1, <1>2, <1>3, <1>4, Zenon DEF Next, TaskStep

LEMMA RuntimeInvariant == Spec => [](TypeOK /\ RuntimeInv)
<1>1. TypeOK /\ RuntimeInv /\ [Next]_vars => RuntimeInv'
  BY NextRuntime, Zenon
<1> QED
  BY <1>1, InitRuntime, RuntimeTypeCorrect, PTL DEF Spec

(* The device is open in one session at a time, whatever leases come while *)
(* one is torn down: a session is open only for the lease in the slot.     *)
THEOREM SessionsExclude == Spec => []OneSession
<1>1. RuntimeInv => OneSession
  BY InvParts DEF SlotOf, OneSession, Open, Serving
<1> QED
  BY <1>1, RuntimeInvariant, PTL

(* A hook runs only while the session of its lease is open: the task that  *)
(* runs it, or the one that waits for it, keeps handle_lease from closing  *)
(* the session.                                                            *)
THEOREM HooksRunInSession == Spec => []HooksHaveASession
<1>1. RuntimeInv => HooksHaveASession
  BY InvParts, HookPlaces, Zenon DEF HooksHaveASession, Open, Serving, Tasks
<1> QED
  BY <1>1, RuntimeInvariant, PTL

(* Hooks never run side by side, of one lease or of two, whoever starts    *)
(* them.                                                                   *)
THEOREM HooksExclude == Spec => []HooksAreSerial
<1>1. ASSUME RuntimeInv,
             NEW k \in Leases, NEW t \in Tasks, pc[k][t] = "hook",
             NEW l \in Leases, NEW u \in Tasks, pc[l][u] = "hook"
      PROVE  k = l /\ t = u
  <2>1. pc[k]["lease"] \notin {"none", "gone"} /\ pc[l]["lease"] \notin {"none", "gone"}
    BY <1>1, InvParts, HookPlaces, Zenon DEF Tasks
  <2>2. k = l
    BY <1>1, <2>1, InvParts, Zenon DEF SlotOf
  <2>3. t = u
    BY <1>1, <2>2, InvParts, HookPlaces, Zenon DEF Tasks
  <2> QED
    BY <2>2, <2>3, Zenon
<1>2. RuntimeInv => HooksAreSerial
  <2> SUFFICES ASSUME RuntimeInv, NEW h \in Leases \X Tasks, NEW j \in Leases \X Tasks,
                      pc[h[1]][h[2]] = "hook", pc[j[1]][j[2]] = "hook"
               PROVE  h = j
    BY Zenon DEF HooksAreSerial
  <2>1. h[1] = j[1] /\ h[2] = j[2]
    BY <1>1
  <2> QED
    BY <2>1
<1> QED
  BY <1>2, RuntimeInvariant, PTL

(* LeaseFinished always comes from the lease in the slot, so               *)
(* _on_lease_finished never meets another owner.                           *)
THEOREM FinishedComesFromSlot == Spec => []FinishedOwnsSlot
<1>1. RuntimeInv => FinishedOwnsSlot
  BY InvParts, Zenon DEF FinishedIn, FinishedOwnsSlot
<1> QED
  BY <1>1, RuntimeInvariant, PTL

(* Where handle_lease may be with its lease in the slot: it can go on (or  *)
(* serves a lease that has not ended); it waits for the beforeLease hook   *)
(* while the task of that hook is there to set the event; it waits for the *)
(* afterLease hook while the task of EndSession runs that hook; or it is   *)
(* gone and its LeaseFinished is in the channel.                           *)
Attended(l) ==
    \/ pc[l]["lease"] \in {"start", "session", "serve", "close"} \cup InAfterHook
    \/ /\ pc[l]["lease"] = "cleanup"
       /\ "before" \in ctx[l] \/ pc[l]["before"] \in {"wait", "hook"}
    \/ /\ pc[l]["lease"] = "waitDone"
       /\ "done" \in ctx[l] \/ pc[l]["end"] \in InAfterHook
    \/ /\ pc[l]["lease"] = "gone"
       /\ \E i \in 1..Len(control) : control[i].kind = "finished" /\ control[i].lease = l
SlotIsAttended == \A l \in Leases : slot = l => Attended(l)

(* The slot is never stuck: a lease in it has a handle_lease that can go   *)
(* on, or one that waits for an event which another task is on its way to  *)
(* set, or a LeaseFinished that will free the slot.  No event a wait of    *)
(* handle_lease needs is forgotten on any path of the hooks, of EndSession *)
(* or of a lease that ends early.                                          *)
THEOREM SlotNeverSticks == Spec => []SlotIsAttended
<1>1. ASSUME TypeOK, RuntimeInv, NEW l \in Leases, slot = l PROVE Attended(l)
  <2>1. pc[l]["lease"] # "none" /\ (pc[l]["lease"] = "gone" => ~Unfinished(control))
    BY <1>1, InvParts, Zenon DEF HeldIn
  <2>2. pc[l]["lease"] \in Labels
    BY <1>1, TypeParts, Zenon DEF Tasks
  <2>3. TasksFit(pc[l], ctx[l])
    BY <1>1, InvParts, Zenon
  <2>4. CASE pc[l]["lease"] = "cleanup"
    BY <2>3, <2>4, Zenon DEF Attended, TasksFit, Fits
  <2>5. CASE pc[l]["lease"] = "waitDone"
    BY <2>3, <2>5, Zenon DEF Attended, TasksFit, Fits, InAfterHook
  <2>6. CASE pc[l]["lease"] = "gone"
    <3>1. PICK i \in 1..Len(control) : control[i].kind = "finished"
      BY <2>1, <2>6, Zenon DEF Unfinished
    <3>2. control[i].lease = l
      BY <1>1, <3>1, InvParts, Zenon DEF FinishedIn
    <3> QED
      BY <2>6, <3>1, <3>2, Zenon DEF Attended
  <2>7. pc[l]["lease"] # "wait"
    BY <2>3, Zenon DEF TasksFit, Fits
  <2> QED
    BY <2>1, <2>2, <2>4, <2>5, <2>6, <2>7, Zenon DEF Attended, Labels, InAfterHook
<1>2. TypeOK /\ RuntimeInv => SlotIsAttended
  BY <1>1, Zenon DEF SlotIsAttended
<1> QED
  BY <1>2, RuntimeInvariant, PTL

-----------------------------------------------------------------------------
(* What the Status stream has said of leases and the control-plane loop    *)
(* has not read yet.                                                       *)
Says(q, i) == q[i].kind = "status"
Mentions(q, l) == \E i \in 1..Len(q) : Says(q, i) /\ q[i].lease = l
OnlySays(q, l) == \A i \in 1..Len(q) : Says(q, i) => q[i].lease = l
(* l comes first, and l comes last.                                        *)
OpensWith(q, l) ==
    \A i, j \in 1..Len(q) : j < i /\ Says(q, i) /\ Says(q, j) /\ q[i].lease = l => q[j].lease = l
EndsWith(q, l) ==
    \A i, j \in 1..Len(q) : i < j /\ Says(q, i) /\ Says(q, j) /\ q[i].lease = l => q[j].lease = l

LEMMA TailSays ==
    ASSUME NEW q \in Seq(Message), q # <<>>, NEW l
    PROVE  /\ OnlySays(q, l) => OnlySays(Tail(q), l)
           /\ OpensWith(q, l) => OpensWith(Tail(q), l)
           /\ EndsWith(q, l) => EndsWith(Tail(q), l)
           /\ Mentions(Tail(q), l) => Mentions(q, l)
           /\ Mentions(q, l) => Mentions(Tail(q), l) \/ (Head(q).kind = "status" /\ Head(q).lease = l)
<1>1. /\ Len(q) \in Nat /\ Len(Tail(q)) \in Nat /\ Head(q) = q[1] /\ Len(q) # 0
      /\ Len(Tail(q)) = Len(q) - 1
      /\ \A i \in 1..Len(Tail(q)) : Tail(q)[i] = q[i + 1]
  OBVIOUS
<1>2. \A i \in 1..Len(Tail(q)) : i + 1 \in 1..Len(q) /\ Tail(q)[i] = q[i + 1]
  BY <1>1
<1>3. \A i, j \in 1..Len(Tail(q)) : i < j => i + 1 < j + 1
  BY <1>1
<1>4. OnlySays(q, l) => OnlySays(Tail(q), l)
  BY <1>2, Zenon DEF OnlySays, Says
<1>5. OpensWith(q, l) => OpensWith(Tail(q), l)
  BY <1>2, <1>3 DEF OpensWith, Says
<1>6. EndsWith(q, l) => EndsWith(Tail(q), l)
  BY <1>2, <1>3, Zenon DEF EndsWith, Says
<1>7. Mentions(Tail(q), l) => Mentions(q, l)
  BY <1>2, Zenon DEF Mentions, Says
<1>8. ASSUME Mentions(q, l)
      PROVE  Mentions(Tail(q), l) \/ (Head(q).kind = "status" /\ Head(q).lease = l)
  <2>1. PICK i \in 1..Len(q) : q[i].kind = "status" /\ q[i].lease = l
    BY <1>8, Zenon DEF Mentions, Says
  <2>2. CASE i = 1
    BY <1>1, <2>1, <2>2, Zenon
  <2>3. CASE i # 1
    <3>1. i - 1 \in 1..Len(Tail(q)) /\ Tail(q)[i - 1] = q[i]
      BY <1>1, <2>3
    <3> QED
      BY <2>1, <3>1, Zenon DEF Mentions, Says
  <2> QED
    BY <2>2, <2>3, Zenon
<1> QED
  BY <1>4, <1>5, <1>6, <1>7, <1>8, Zenon

(* The first message, if it is a status.                                   *)
LEMMA HeadSays ==
    ASSUME NEW q \in Seq(Message), q # <<>>, Head(q).kind = "status"
    PROVE  /\ Mentions(q, Head(q).lease)
           /\ \A l : OnlySays(q, l) => Head(q).lease = l
           /\ \A l : OpensWith(q, l) /\ Mentions(q, l) => Head(q).lease = l
           /\ EndsWith(q, Head(q).lease) => OnlySays(Tail(q), Head(q).lease)
<1>1. 1 \in 1..Len(q) /\ Head(q) = q[1] /\ Says(q, 1)
  BY DEF Says
<1>2. \A i \in 1..Len(q) : i = 1 \/ 1 < i
  OBVIOUS
<1>3. \A i \in 1..Len(Tail(q)) : i + 1 \in 1..Len(q) /\ 1 < i + 1 /\ Tail(q)[i] = q[i + 1]
  OBVIOUS
<1>4. Mentions(q, Head(q).lease) /\ \A l : OnlySays(q, l) => Head(q).lease = l
  BY <1>1, Zenon DEF Mentions, OnlySays
<1>5. \A l : OpensWith(q, l) /\ Mentions(q, l) => Head(q).lease = l
  BY <1>1, <1>2, Zenon DEF OpensWith, Mentions
<1>6. EndsWith(q, Head(q).lease) => OnlySays(Tail(q), Head(q).lease)
  BY <1>1, <1>3, Zenon DEF EndsWith, OnlySays, Says
<1> QED
  BY <1>4, <1>5, <1>6, Zenon

LEMMA OnlyIsFirstAndLast ==
    ASSUME NEW q, NEW l
    PROVE  /\ OnlySays(q, l) => OpensWith(q, l) /\ EndsWith(q, l)
           /\ ~Mentions(q, l) => OpensWith(q, l) /\ EndsWith(q, l)
  BY Zenon DEF OnlySays, OpensWith, EndsWith, Mentions

(* A LeaseFinished says nothing of this.                                   *)
LEMMA FinishedSays ==
    ASSUME NEW q \in Seq(Message), NEW m, m.kind # "status", NEW l
    PROVE  /\ OnlySays(q, l) => OnlySays(Append(q, m), l)
           /\ OpensWith(q, l) => OpensWith(Append(q, m), l)
           /\ EndsWith(q, l) => EndsWith(Append(q, m), l)
           /\ Mentions(Append(q, m), l) <=> Mentions(q, l)
<1>1. \A i \in 1..Len(Append(q, m)) : Says(Append(q, m), i) =>
        i \in 1..Len(q) /\ Append(q, m)[i] = q[i] /\ Says(q, i)
  BY Appended DEF Says
<1>2. \A i \in 1..Len(q) : /\ i \in 1..Len(Append(q, m)) /\ Append(q, m)[i] = q[i]
                            /\ Says(q, i) => Says(Append(q, m), i)
  BY Appended DEF Says
<1>3. OnlySays(q, l) => OnlySays(Append(q, m), l)
  BY <1>1, Zenon DEF OnlySays
<1>4. OpensWith(q, l) => OpensWith(Append(q, m), l)
  BY <1>1 DEF OpensWith
<1>5. EndsWith(q, l) => EndsWith(Append(q, m), l)
  BY <1>1 DEF EndsWith
<1>6. Mentions(Append(q, m), l) <=> Mentions(q, l)
  BY <1>1, <1>2 DEF Mentions
<1> QED
  BY <1>3, <1>4, <1>5, <1>6, Zenon

(* A status that names k.                                                  *)
LEMMA StatusSays ==
    ASSUME NEW q \in Seq(Message), NEW k, NEW l
    PROVE  /\ OnlySays(q, k) => OnlySays(Append(q, Status(k)), k)
           /\ EndsWith(q, k) => EndsWith(Append(q, Status(k)), k)
           /\ l # k /\ OpensWith(q, l) => OpensWith(Append(q, Status(k)), l)
           /\ Mentions(Append(q, Status(k)), l) => Mentions(q, l) \/ l = k
           /\ Mentions(q, l) => Mentions(Append(q, Status(k)), l)
           /\ Mentions(Append(q, Status(k)), k)
<1> DEFINE a == Append(q, Status(k))
           n == Len(q) + 1
<1>1. Status(k).kind = "status" /\ Status(k).lease = k
  BY Zenon DEF Status
<1>2. /\ n \in 1..Len(a) /\ Says(a, n) /\ a[n].lease = k
      /\ \A i \in 1..Len(a) : i \in 1..Len(q) \/ i = n
      /\ \A i \in 1..Len(q) : ~(n < i) /\ i \in 1..Len(a) /\ a[i] = q[i] /\ (Says(a, i) <=> Says(q, i))
  BY <1>1, Appended DEF Says
<1>3. ~(n < n)
  OBVIOUS
<1> HIDE DEF a, n
<1>4. OnlySays(q, k) => OnlySays(a, k)
  BY <1>2, Zenon DEF OnlySays
<1>5. EndsWith(q, k) => EndsWith(a, k)
  BY <1>2, <1>3 DEF EndsWith
<1>6. l # k /\ OpensWith(q, l) => OpensWith(a, l)
  BY <1>2, <1>3 DEF OpensWith
<1>7. /\ Mentions(a, l) => Mentions(q, l) \/ l = k
      /\ Mentions(q, l) => Mentions(a, l)
      /\ Mentions(a, k)
  BY <1>2, Zenon DEF Mentions
<1> QED
  BY <1>4, <1>5, <1>6, <1>7, Zenon DEF a

-----------------------------------------------------------------------------
(* The assignments of the controller and what the loop makes of them, when *)
(* no lease ends before it is picked up (~EndsEarly).                      *)

(* Every lease the exporter knows of was assigned, and all but the current *)
(* assignment were picked up.                                              *)
LeasesKnown ==
    /\ \A k \in Leases : Mentions(control, k) => k \in used
    /\ assigned \in Leases => assigned \in used
    /\ told \in Leases => told \in used
    /\ lastCompleted \in Leases => PickedUp(lastCompleted)
LeasesTaken ==
    /\ \A k \in Leases : PickedUp(k) => k \in used
    /\ \A k \in used : k = assigned \/ PickedUp(k)

(* A status of a lease picked up is one the loop ignores: it names the     *)
(* lease in the slot or the one completed last, and comes before any       *)
(* status of another.                                                      *)
Current(k) == k = slot \/ (slot = NoLease /\ k = lastCompleted)
TrailingIsCurrent ==
    \A k \in Leases : PickedUp(k) /\ Mentions(control, k) => Current(k) /\ OpensWith(control, k)

(* A lease assigned and not picked up is the last thing the stream says;   *)
(* once picked up, it is the only thing.                                   *)
AssignedIsLast == assigned \in Leases /\ ~PickedUp(assigned) => EndsWith(control, assigned)
AssignedIsCurrent ==
    assigned \in Leases /\ PickedUp(assigned) =>
      OnlySays(control, assigned) /\ Current(assigned) /\ pendingLease = NoLease

(* The lease that waits for the slot is the assigned one.                  *)
PendingIsAssigned ==
    pendingLease # NoLease =>
      /\ pendingLease = assigned /\ ~PickedUp(assigned) /\ slot # NoLease
      /\ OnlySays(control, assigned)

ToldIsKept ==
    \A l \in Leases : assigned = l /\ told = l /\ ~PickedUp(l) =>
      Mentions(control, l) \/ pendingLease = l

KeptInv ==
    /\ LeasesKnown /\ LeasesTaken /\ TrailingIsCurrent /\ AssignedIsLast
    /\ AssignedIsCurrent /\ PendingIsAssigned /\ ToldIsKept

LEMMA KeptTypes ==
    ASSUME TypeOK, RuntimeInv
    PROVE  /\ control \in Seq(Message) /\ NoLease \notin Leases /\ Unknown \notin Leases
           /\ assigned \in Leases \cup {NoLease} /\ used \subseteq Leases
           /\ told \in Leases \cup {NoLease, Unknown} /\ slot \in Leases \cup {NoLease}
           /\ lastCompleted \in Leases \cup {NoLease} /\ pendingLease \in Leases \cup {NoLease}
           /\ slot \in Leases => PickedUp(slot)
<1>1. slot \in Leases => PickedUp(slot)
  BY InvParts, Zenon DEF HeldIn, PickedUp
<1> QED
  BY <1>1, ConfigAssumption, Zenon DEF TypeOK

LEMMA InitKept == Init => KeptInv
<1> SUFFICES ASSUME Init PROVE KeptInv
  OBVIOUS
<1>1. \A l \in Leases : ~PickedUp(l)
  BY Zenon DEF Init, PickedUp, Tasks
<1>2. \A l : ~Mentions(control, l)
  BY DEF Init, Mentions
<1>3. /\ assigned = NoLease /\ told = Unknown /\ lastCompleted = NoLease /\ used = {}
      /\ pendingLease = NoLease /\ NoLease \notin Leases /\ Unknown \notin Leases
  BY ConfigAssumption, Zenon DEF Init
<1> QED
  BY <1>1, <1>2, <1>3, Zenon DEF KeptInv, LeasesKnown, LeasesTaken, TrailingIsCurrent,
     AssignedIsLast, AssignedIsCurrent, PendingIsAssigned, ToldIsKept

(* Where the tasks of a lease go from.                                     *)
LEMMA GotoGoes ==
    ASSUME TypeOK, NEW l \in Leases, NEW t \in Tasks, NEW x, Goto(l, t, x), MayGo(l, t, x)
    PROVE  PcKept(l) /\ LeaseGoes(l)
<1>1. /\ PcKept(l)
      /\ pc'[l]["lease"] = IF t = "lease" THEN x ELSE pc[l]["lease"]
  BY TypeParts, Zenon DEF Goto, Tasks, PcKept
<1> QED
  BY <1>1, Zenon DEF MayGo, LeaseGoes

AssignmentVars == <<assigned, used, told, slot, lastCompleted, pendingLease>>

LEMMA TaskGoes ==
    ASSUME TypeOK, NEW l \in Leases, TaskStep(l)
    PROVE  PcKept(l) /\ LeaseGoes(l) /\ UNCHANGED AssignmentVars
<1>0. "lease" \in Tasks /\ "before" \in Tasks /\ "end" \in Tasks
  BY Zenon DEF Tasks
<1>1. CASE StartLease(l)
  <2>1. \/ Goto(l, "lease", "gone") /\ PostFinished(l)
        \/ Goto(l, "lease", "session") /\ UNCHANGED control
    BY <1>1, Zenon DEF StartLease
  <2>2. pc[l]["lease"] \notin {"none", "gone"}
    BY <1>1, Zenon DEF StartLease
  <2>3. PcKept(l) /\ LeaseGoes(l)
    BY <1>0, <2>1, <2>2, GotoGoes, Zenon DEF MayGo
  <2> QED
    BY <1>1, <2>3, Zenon DEF StartLease, AssignmentVars, controllerVars
<1>2. CASE CreateSession(l)
  <2>1. UNCHANGED control
    BY <1>2, Zenon DEF CreateSession, loopVars
  <2>2. PcKept(l) /\ LeaseGoes(l)
    <3>1. CASE Goto(l, "lease", "close")
      BY <1>0, <1>2, <2>1, <3>1, GotoGoes, Zenon DEF CreateSession, MayGo
    <3>2. CASE pc' = [pc EXCEPT ![l]["lease"] = "serve", ![l]["end"] = "wait"]
      <4>1. PcKept(l) /\ pc'[l]["lease"] = "serve"
        BY <3>2, TypeParts DEF PcKept, Tasks
      <4> QED
        BY <1>2, <2>1, <4>1, Zenon DEF CreateSession, LeaseGoes
    <3> QED
      BY <1>2, <3>1, <3>2, Zenon DEF CreateSession
  <2> QED
    BY <1>2, <2>2, Zenon DEF CreateSession, AssignmentVars, controllerVars, loopVars
<1>3. CASE LeaseEnds(l)
  <2>1. Goto(l, "lease", "cleanup") /\ MayGo(l, "lease", "cleanup")
    BY <1>3, Zenon DEF LeaseEnds, MayGo, loopVars
  <2> QED
    BY <1>0, <1>3, <2>1, GotoGoes, Zenon DEF LeaseEnds, AssignmentVars, controllerVars, loopVars
<1>4. CASE _cleanup_after_lease(l)
  <2>1. \E x \in {"waitDone", "hook", "pause", "close"} : Goto(l, "lease", x)
    BY <1>4 DEF _cleanup_after_lease, StartAfterHook
  <2>2. pc[l]["lease"] \notin {"none", "gone"} /\ UNCHANGED control
    BY <1>4, Zenon DEF _cleanup_after_lease, loopVars
  <2>3. PcKept(l) /\ LeaseGoes(l)
    BY <1>0, <2>1, <2>2, GotoGoes, Zenon DEF MayGo
  <2> QED
    BY <1>4, <2>3, Zenon
    DEF _cleanup_after_lease, AssignmentVars, controllerVars, loopVars
<1>5. CASE CloseSession(l)
  <2>1. Goto(l, "lease", "gone") /\ MayGo(l, "lease", "gone")
    BY <1>5, Zenon DEF CloseSession, MayGo
  <2> QED
    BY <1>0, <1>5, <2>1, GotoGoes, Zenon DEF CloseSession, AssignmentVars, controllerVars
<1>6. CASE EndSession(l)
  BY <1>6, Zenon DEF EndSession, PcKept, LeaseGoes, AssignmentVars, controllerVars, loopVars
<1>7. CASE _handle_end_session(l)
  <2>1. \E x : Goto(l, "end", x) /\ MayGo(l, "end", x)
    BY <1>7, Zenon DEF _handle_end_session, StartAfterHook, MayGo, loopVars
  <2> QED
    BY <1>0, <1>7, <2>1, GotoGoes, Zenon
    DEF _handle_end_session, AssignmentVars, controllerVars, loopVars
<1>8. CASE WaitReady(l)
  <2>1. \E x : Goto(l, "before", x) /\ MayGo(l, "before", x)
    BY <1>8, Zenon DEF WaitReady, MayGo, loopVars
  <2> QED
    BY <1>0, <1>8, <2>1, GotoGoes, Zenon DEF WaitReady, AssignmentVars, controllerVars, loopVars
<1>9. CASE BeforeHook(l)
  <2>1. \E x : Goto(l, "before", x) /\ MayGo(l, "before", x)
    BY <1>9, Zenon DEF BeforeHook, MayGo, loopVars
  <2> QED
    BY <1>0, <1>9, <2>1, GotoGoes, Zenon DEF BeforeHook, AssignmentVars, controllerVars, loopVars
<1>10. ASSUME NEW t \in Tasks, AfterHook(l, t) \/ Release(l, t) \/ WaitDone(l, t)
       PROVE  PcKept(l) /\ LeaseGoes(l) /\ UNCHANGED AssignmentVars
  <2>1. UNCHANGED AssignmentVars /\ UNCHANGED control
    BY <1>10, Zenon DEF AfterHook, Release, _request_lease_release, ReleaseCall, ReleaseReturn,
       WaitDone, AssignmentVars, controllerVars, loopVars
  <2>2. pc[l][t] \notin {"none", "gone"}
    BY <1>10, Zenon DEF AfterHook, Release, _request_lease_release, ReleaseCall, ReleaseReturn,
       WaitDone
  <2>3. PICK x \in {"quit", "pause", "call", "return", AfterRelease(t)} : Goto(l, t, x)
    BY <1>10 DEF AfterHook, Release, _request_lease_release, ReleaseCall, ReleaseReturn, WaitDone
  <2>4. MayGo(l, t, x)
    BY <2>1, <2>2, <2>3, Zenon DEF MayGo, AfterRelease
  <2> QED
    BY <2>1, <2>3, <2>4, GotoGoes, Zenon
<1> QED
  BY <1>1, <1>2, <1>3, <1>4, <1>5, <1>6, <1>7, <1>8, <1>9, <1>10, Zenon DEF TaskStep, LeaseTask

(* A step that moves no assignment and picks up no lease.                  *)
LEMMA QuietKept ==
    ASSUME TypeOK, KeptInv, UNCHANGED AssignmentVars,
           \A k \in Leases : PickedUp(k)' <=> PickedUp(k),
           UNCHANGED control \/ \E l \in Leases : PostFinished(l)
    PROVE  KeptInv'
<1>1. \A k : /\ OnlySays(control, k) => OnlySays(control', k)
             /\ OpensWith(control, k) => OpensWith(control', k)
             /\ EndsWith(control, k) => EndsWith(control', k)
             /\ Mentions(control', k) <=> Mentions(control, k)
  <2>1. CASE UNCHANGED control
    BY <2>1, Zenon
  <2>2. CASE \E l \in Leases : PostFinished(l)
    <3>1. PICK l \in Leases : control' = Append(control, LeaseFinished(l))
      BY <2>2, Zenon DEF PostFinished
    <3>2. LeaseFinished(l).kind # "status"
      BY Zenon DEF LeaseFinished
    <3> QED
      BY <3>1, <3>2, TypeParts, FinishedSays, Zenon
  <2> QED
    BY <2>1, <2>2, Zenon
<1>2. /\ assigned' = assigned /\ used' = used /\ told' = told /\ slot' = slot
      /\ lastCompleted' = lastCompleted /\ pendingLease' = pendingLease
  BY Zenon DEF AssignmentVars
<1>3. LeasesKnown' /\ LeasesTaken'
  <2>1. lastCompleted' \in Leases => PickedUp(lastCompleted)'
    BY <1>2, Zenon DEF KeptInv, LeasesKnown
  <2>2. LeasesTaken'
    BY <1>2, Zenon DEF KeptInv, LeasesTaken, TypeOK
  <2> QED
    BY <1>1, <1>2, <2>1, <2>2, Zenon DEF KeptInv, LeasesKnown
<1>4. TrailingIsCurrent' /\ AssignedIsLast'
  BY <1>1, <1>2, Zenon DEF KeptInv, TrailingIsCurrent, AssignedIsLast, Current
<1>5. AssignedIsCurrent'
  BY <1>1, <1>2, Zenon DEF KeptInv, AssignedIsCurrent, Current
<1>6. PendingIsAssigned' /\ ToldIsKept'
  <2>1. ASSUME pendingLease' # NoLease PROVE ~PickedUp(assigned)'
    <3>1. assigned \in Leases /\ ~PickedUp(assigned)
      BY <1>2, <2>1, Zenon DEF KeptInv, PendingIsAssigned, TypeOK
    <3> QED
      BY <1>2, <3>1, Zenon
  <2> QED
    BY <1>1, <1>2, <2>1, Zenon DEF KeptInv, PendingIsAssigned, ToldIsKept
<1> QED
  BY <1>3, <1>4, <1>5, <1>6, Zenon DEF KeptInv

LEMMA TaskKept ==
    ASSUME TypeOK, KeptInv, NEW l \in Leases, TaskStep(l)
    PROVE  KeptInv'
<1>1. PcKept(l) /\ LeaseGoes(l) /\ UNCHANGED AssignmentVars
  BY TaskGoes, Zenon
<1>2. \A k \in Leases : PickedUp(k)' <=> PickedUp(k)
  BY <1>1, Zenon DEF PcKept, LeaseGoes, PickedUp
<1> QED
  BY <1>1, <1>2, QuietKept, Zenon DEF LeaseGoes

(* The controller's steps.                                                 *)
LEMMA AssignKept ==
    ASSUME TypeOK, RuntimeInv, KeptInv, NEW l \in Leases, AssignLease(l)
    PROVE  KeptInv'
<1>1. /\ assigned = NoLease /\ l \notin used /\ assigned' = l /\ used' = used \cup {l}
      /\ told' = told /\ control' = control /\ slot' = slot /\ pc' = pc
      /\ lastCompleted' = lastCompleted /\ pendingLease' = pendingLease
  BY Zenon DEF AssignLease, loopVars
<1>2. \A k \in Leases : PickedUp(k)' <=> PickedUp(k)
  BY <1>1, Zenon DEF PickedUp
<1>3. /\ ~Mentions(control, l) /\ ~PickedUp(l) /\ told # l
      /\ pendingLease = NoLease /\ \A k \in used : PickedUp(k)
  BY <1>1, KeptTypes, Zenon DEF KeptInv, LeasesKnown, LeasesTaken, PendingIsAssigned
<1>4. EndsWith(control, l)
  BY <1>3, OnlyIsFirstAndLast, Zenon
<1>5. LeasesKnown' /\ LeasesTaken'
  <2>1. lastCompleted' \in Leases => PickedUp(lastCompleted)'
    BY <1>1, <1>2, Zenon DEF KeptInv, LeasesKnown
  <2>2. LeasesTaken'
    BY <1>1, <1>2, <1>3, KeptTypes, Zenon DEF KeptInv, LeasesTaken
  <2> QED
    BY <1>1, <2>1, <2>2, Zenon DEF KeptInv, LeasesKnown
<1>6. TrailingIsCurrent' /\ AssignedIsLast'
  BY <1>1, <1>2, <1>4, Zenon DEF KeptInv, TrailingIsCurrent, AssignedIsLast, Current
<1>7. AssignedIsCurrent' /\ PendingIsAssigned' /\ ToldIsKept'
  BY <1>1, <1>2, <1>3, Zenon DEF AssignedIsCurrent, PendingIsAssigned, ToldIsKept
<1> QED
  BY <1>5, <1>6, <1>7, Zenon DEF KeptInv

LEMMA EndKept ==
    ASSUME TypeOK, RuntimeInv, KeptInv, ~EndsEarly, EndLease
    PROVE  KeptInv'
<1>1. /\ assigned \in Leases /\ PickedUp(assigned) /\ assigned' = NoLease /\ used' = used
      /\ told' = told /\ control' = control /\ slot' = slot /\ pc' = pc
      /\ lastCompleted' = lastCompleted /\ pendingLease' = pendingLease
  BY KeptTypes, Zenon DEF EndLease, loopVars
<1>2. \A k \in Leases : PickedUp(k)' <=> PickedUp(k)
  BY <1>1, Zenon DEF PickedUp
<1>3. pendingLease = NoLease /\ NoLease \notin Leases /\ \A k \in used : PickedUp(k)
  BY <1>1, KeptTypes, Zenon DEF KeptInv, AssignedIsCurrent, LeasesTaken
<1>4. LeasesKnown' /\ LeasesTaken'
  <2>1. lastCompleted' \in Leases => PickedUp(lastCompleted)'
    BY <1>1, <1>2, Zenon DEF KeptInv, LeasesKnown
  <2>2. LeasesTaken'
    BY <1>1, <1>2, <1>3, KeptTypes, Zenon DEF KeptInv, LeasesTaken
  <2> QED
    BY <1>1, <1>3, <2>1, <2>2, Zenon DEF KeptInv, LeasesKnown
<1>5. TrailingIsCurrent'
  BY <1>1, <1>2, Zenon DEF KeptInv, TrailingIsCurrent, Current
<1>6. AssignedIsLast' /\ AssignedIsCurrent' /\ PendingIsAssigned' /\ ToldIsKept'
  BY <1>1, <1>3, Zenon DEF AssignedIsLast, AssignedIsCurrent, PendingIsAssigned, ToldIsKept
<1> QED
  BY <1>4, <1>5, <1>6, Zenon DEF KeptInv

LEMMA ReconnectKept ==
    ASSUME TypeOK, RuntimeInv, KeptInv, Reconnect
    PROVE  KeptInv'
<1>1. /\ assigned' = assigned /\ used' = used /\ told' = Unknown /\ control' = control
      /\ slot' = slot /\ pc' = pc
      /\ lastCompleted' = lastCompleted /\ pendingLease' = pendingLease
  BY Zenon DEF Reconnect, loopVars
<1>2. \A k : PickedUp(k)' <=> PickedUp(k)
  BY <1>1, Zenon DEF PickedUp
<1>3. LeasesKnown' /\ LeasesTaken'
  <2>1. lastCompleted' \in Leases => PickedUp(lastCompleted)'
    BY <1>1, <1>2, Zenon DEF KeptInv, LeasesKnown
  <2> QED
    BY <1>1, <1>2, <2>1, KeptTypes, Zenon DEF KeptInv, LeasesKnown, LeasesTaken
<1>4. TrailingIsCurrent' /\ AssignedIsLast'
  BY <1>1, <1>2, Zenon DEF KeptInv, TrailingIsCurrent, AssignedIsLast, Current
<1>5. AssignedIsCurrent' /\ PendingIsAssigned'
  <2>1. PickedUp(assigned)' <=> PickedUp(assigned)
    BY <1>1, Zenon DEF PickedUp
  <2> QED
    BY <1>1, <2>1, Zenon DEF KeptInv, AssignedIsCurrent, PendingIsAssigned, Current
<1>6. ToldIsKept'
  BY <1>1, KeptTypes, Zenon DEF ToldIsKept
<1> QED
  BY <1>3, <1>4, <1>5, <1>6, Zenon DEF KeptInv

LEMMA SendKept ==
    ASSUME TypeOK, RuntimeInv, KeptInv, SendStatus
    PROVE  KeptInv'
<1>1. /\ assigned' = assigned /\ used' = used /\ told' = assigned
      /\ control' = Append(control, Status(assigned)) /\ slot' = slot /\ pc' = pc
      /\ lastCompleted' = lastCompleted /\ pendingLease' = pendingLease
  BY Zenon DEF SendStatus
<1>2. /\ \A k : PickedUp(k)' <=> PickedUp(k)
      /\ PickedUp(assigned)' <=> PickedUp(assigned)
  BY <1>1, Zenon DEF PickedUp
<1>3. /\ OnlySays(control, assigned) => OnlySays(control', assigned)
      /\ EndsWith(control, assigned) => EndsWith(control', assigned)
      /\ Mentions(control', assigned)
      /\ \A k : /\ k # assigned /\ OpensWith(control, k) => OpensWith(control', k)
                /\ Mentions(control', k) => Mentions(control, k) \/ k = assigned
                /\ Mentions(control, k) => Mentions(control', k)
  BY <1>1, TypeParts, StatusSays, Zenon
<1>4. LeasesKnown' /\ LeasesTaken'
  <2>1. lastCompleted' \in Leases => PickedUp(lastCompleted)'
    BY <1>1, <1>2, Zenon DEF KeptInv, LeasesKnown
  <2> QED
    BY <1>1, <1>2, <1>3, <2>1, KeptTypes, Zenon DEF KeptInv, LeasesKnown, LeasesTaken
<1>5. TrailingIsCurrent'
  <2> SUFFICES ASSUME NEW k \in Leases, PickedUp(k), Mentions(control', k)
               PROVE  Current(k)' /\ OpensWith(control', k)
    BY <1>2, Zenon DEF TrailingIsCurrent
  <2>1. Current(k) => Current(k)'
    BY <1>1, Zenon DEF Current
  <2>2. CASE k = assigned
    <3>1. OnlySays(control, k) /\ Current(k)
      BY <2>2, Zenon DEF KeptInv, AssignedIsCurrent
    <3> QED
      BY <1>3, <2>1, <2>2, <3>1, OnlyIsFirstAndLast, Zenon
  <2>3. CASE k # assigned
    BY <1>3, <2>1, <2>3, Zenon DEF KeptInv, TrailingIsCurrent
  <2> QED
    BY <2>2, <2>3, Zenon
<1>6. AssignedIsLast' /\ AssignedIsCurrent' /\ PendingIsAssigned' /\ ToldIsKept'
  <2>1. Current(assigned) => Current(assigned)'
    BY <1>1, Zenon DEF Current
  <2> QED
    BY <1>1, <1>2, <1>3, <2>1, Zenon DEF KeptInv, AssignedIsLast, AssignedIsCurrent,
       PendingIsAssigned, ToldIsKept
<1> QED
  BY <1>4, <1>5, <1>6, Zenon DEF KeptInv

(* The loop takes a lease up, keeps it for later, or ignores the status:   *)
(* what the first message of the channel is in each case.                  *)
LEMMA AcquireKept ==
    ASSUME TypeOK, RuntimeInv, KeptInv,
           control # <<>>, Head(control).kind = "status", control' = Tail(control),
           UNCHANGED <<assigned, used, told>>, UNCHANGED <<lastCompleted, pendingLease>>,
           NEW m \in Leases, m = Head(control).lease, slot = NoLease, m # lastCompleted,
           slot' = m, \A k \in Leases : PickedUp(k)' <=> PickedUp(k) \/ k = m
    PROVE  ~PickedUp(m) /\ KeptInv'
<1>1. /\ Mentions(control, m)
      /\ EndsWith(control, m) => OnlySays(Tail(control), m)
      /\ \A k : OpensWith(control, k) /\ Mentions(control, k) => m = k
  BY TypeParts, HeadSays, Zenon
<1>2. \A k : Mentions(Tail(control), k) => Mentions(control, k)
  BY TypeParts, TailSays, Zenon
<1>3. ~PickedUp(m)
  BY <1>1, KeptTypes, Zenon DEF KeptInv, TrailingIsCurrent, Current
<1>4. m = assigned
  BY <1>1, <1>3, Zenon DEF KeptInv, LeasesKnown, LeasesTaken
<1>5. OnlySays(control', m) /\ pendingLease = NoLease /\ OpensWith(control', m)
  BY <1>1, <1>3, <1>4, OnlyIsFirstAndLast, Zenon DEF KeptInv, AssignedIsLast, PendingIsAssigned
<1>6. \A k \in Leases : PickedUp(k)' /\ Mentions(control', k) => k = m
  BY <1>1, <1>2, Zenon DEF KeptInv, TrailingIsCurrent
<1>7. Current(m)' /\ PickedUp(m)'
  BY Zenon DEF Current
<1>8. LeasesKnown' /\ LeasesTaken'
  <2>1. lastCompleted' \in Leases => PickedUp(lastCompleted)'
    BY Zenon DEF KeptInv, LeasesKnown
  <2>2. \A k \in Leases : Mentions(control', k) => k \in used'
    BY <1>2, Zenon DEF KeptInv, LeasesKnown
  <2>3. LeasesTaken'
    BY <1>4, KeptTypes, Zenon DEF KeptInv, LeasesKnown, LeasesTaken
  <2> QED
    BY <2>1, <2>2, <2>3, Zenon DEF KeptInv, LeasesKnown
<1>9. TrailingIsCurrent'
  BY <1>5, <1>6, <1>7, Zenon DEF TrailingIsCurrent
<1>10. AssignedIsLast' /\ AssignedIsCurrent' /\ PendingIsAssigned' /\ ToldIsKept'
  BY <1>4, <1>5, <1>7, Zenon DEF AssignedIsLast, AssignedIsCurrent, PendingIsAssigned, ToldIsKept
<1> QED
  BY <1>3, <1>8, <1>9, <1>10, Zenon DEF KeptInv

LEMMA ReassignKept ==
    ASSUME TypeOK, RuntimeInv, KeptInv,
           control # <<>>, Head(control).kind = "status", control' = Tail(control),
           UNCHANGED <<assigned, used, told>>, UNCHANGED <<lastCompleted, slot, pc>>,
           NEW m \in Leases, m = Head(control).lease, slot \notin {m, NoLease},
           pendingLease' = m
    PROVE  KeptInv'
<1>1. /\ Mentions(control, m)
      /\ EndsWith(control, m) => OnlySays(Tail(control), m)
      /\ \A k : OpensWith(control, k) /\ Mentions(control, k) => m = k
  BY TypeParts, HeadSays, Zenon
<1>2. \A k : Mentions(Tail(control), k) => Mentions(control, k)
  BY TypeParts, TailSays, Zenon
<1>3. /\ \A k : PickedUp(k)' <=> PickedUp(k)
      /\ PickedUp(assigned)' <=> PickedUp(assigned)
  BY Zenon DEF PickedUp
<1>4. ~PickedUp(m)
  BY <1>1, KeptTypes, Zenon DEF KeptInv, TrailingIsCurrent, Current
<1>5. m = assigned
  BY <1>1, <1>4, Zenon DEF KeptInv, LeasesKnown, LeasesTaken
<1>6. OnlySays(control', m) /\ EndsWith(control', m)
  BY <1>1, <1>4, <1>5, OnlyIsFirstAndLast, Zenon DEF KeptInv, AssignedIsLast
<1>7. \A k \in Leases : PickedUp(k)' => ~Mentions(control', k)
  BY <1>1, <1>2, <1>3, <1>4, Zenon DEF KeptInv, TrailingIsCurrent
<1>8. LeasesKnown' /\ LeasesTaken'
  <2>1. lastCompleted' \in Leases => PickedUp(lastCompleted)'
    BY <1>3, Zenon DEF KeptInv, LeasesKnown
  <2> QED
    BY <1>2, <1>3, <2>1, Zenon DEF KeptInv, LeasesKnown, LeasesTaken
<1>9. TrailingIsCurrent'
  BY <1>7, Zenon DEF TrailingIsCurrent
<1>10. AssignedIsLast' /\ AssignedIsCurrent' /\ PendingIsAssigned' /\ ToldIsKept'
  BY <1>3, <1>4, <1>5, <1>6, Zenon
  DEF AssignedIsLast, AssignedIsCurrent, PendingIsAssigned, ToldIsKept
<1> QED
  BY <1>8, <1>9, <1>10, Zenon DEF KeptInv

(* A message is dropped that says nothing of a lease still to be picked up.*)
LEMMA DropKept ==
    ASSUME TypeOK, RuntimeInv, KeptInv, control # <<>>, control' = Tail(control),
           UNCHANGED <<assigned, used, told>>, UNCHANGED <<pendingLease, pc>>,
           \A k \in Leases : Head(control).kind = "status" /\ Head(control).lease = k => PickedUp(k),
           \A k \in Leases : PickedUp(k) /\ Mentions(control, k) /\ Current(k) => Current(k)',
           \A k \in Leases : PickedUp(k) /\ assigned = k /\ Current(k) => Current(k)',
           lastCompleted' \in Leases => PickedUp(lastCompleted'),
           pendingLease # NoLease => slot' # NoLease
    PROVE  KeptInv'
<1>1. \A k : /\ OnlySays(control, k) => OnlySays(control', k)
             /\ OpensWith(control, k) => OpensWith(control', k)
             /\ EndsWith(control, k) => EndsWith(control', k)
             /\ Mentions(control', k) => Mentions(control, k)
  BY TypeParts, TailSays, Zenon
<1>2. \A k : Mentions(control, k) =>
              Mentions(control', k) \/ (Head(control).kind = "status" /\ Head(control).lease = k)
  BY TypeParts, TailSays, Zenon
<1>3. /\ \A k : PickedUp(k)' <=> PickedUp(k)
      /\ PickedUp(assigned)' <=> PickedUp(assigned)
      /\ PickedUp(lastCompleted)' <=> PickedUp(lastCompleted')
  BY Zenon DEF PickedUp
<1>4. LeasesKnown' /\ LeasesTaken'
  BY <1>1, <1>3, Zenon DEF KeptInv, LeasesKnown, LeasesTaken
<1>5. TrailingIsCurrent'
  BY <1>1, <1>3, Zenon DEF KeptInv, TrailingIsCurrent
<1>6. AssignedIsLast' /\ AssignedIsCurrent' /\ PendingIsAssigned'
  <2>1. assigned \in Leases /\ PickedUp(assigned) /\ Current(assigned) => Current(assigned)'
    <3> SUFFICES ASSUME assigned \in Leases, PickedUp(assigned), Current(assigned)
                 PROVE  Current(assigned)'
      OBVIOUS
    <3>1. PICK k \in Leases : k = assigned
      BY Zenon
    <3>2. Current(k)'
      BY <3>1, Zenon
    <3> QED
      BY <3>1, <3>2, Zenon DEF Current
  <2> QED
    BY <1>1, <1>3, <2>1, Zenon DEF KeptInv, AssignedIsLast, AssignedIsCurrent, PendingIsAssigned
<1>7. ToldIsKept'
  BY <1>2, <1>3, Zenon DEF KeptInv, ToldIsKept
<1> QED
  BY <1>4, <1>5, <1>6, <1>7, Zenon DEF KeptInv

LEMMA HandleStatusKept ==
    ASSUME TypeOK, RuntimeInv, KeptInv, HandleStatus
    PROVE  /\ KeptInv'
           /\ \A k \in Leases : pc[k]["lease"] = "gone" => pc'[k]["lease"] = "gone"
<1> DEFINE m == Head(control).lease
<1>1. /\ control # <<>> /\ Head(control).kind = "status" /\ control' = Tail(control)
      /\ UNCHANGED <<assigned, used, told>> /\ _apply_status(m)
  BY Zenon DEF HandleStatus, controllerVars
<1>2. /\ \A k : OnlySays(control, k) => m = k
      /\ \A k : OpensWith(control, k) /\ Mentions(control, k) => m = k
  BY <1>1, TypeParts, HeadSays, Zenon
<1>3. m \in Leases \cup {NoLease}
  <2>1. control \in Seq(Message) /\ control # <<>>
    BY <1>1, TypeParts, Zenon
  <2>2. Head(control) \in Message
    BY <2>1
  <2> QED
    BY <2>2 DEF Message
<1> HIDE DEF m
<1>4. CASE m # NoLease /\ slot = NoLease /\ m # lastCompleted
  <2>1. _on_lease_acquired(m) /\ UNCHANGED <<lastCompleted, pendingLease>>
    BY <1>1, <1>4 DEF _apply_status
  <2>2. m \in Leases
    BY <1>3, <1>4, Zenon
  <2>3. \A k \in Leases \ {m} : pc'[k] = pc[k]
    BY <2>1, <2>2, TypeParts, Zenon DEF _on_lease_acquired
  <2>4. pc'[m]["lease"] = "start"
    BY <2>1, <2>2, TypeParts DEF _on_lease_acquired, Tasks
  <2>5. \A k \in Leases : PickedUp(k)' <=> PickedUp(k) \/ k = m
    BY <2>2, <2>3, <2>4, Zenon DEF PickedUp
  <2>6. ~PickedUp(m) /\ KeptInv'
    BY <1>1, <1>4, <2>1, <2>2, <2>5, AcquireKept, Zenon DEF m, _on_lease_acquired
  <2> QED
    BY <2>3, <2>6, Zenon DEF PickedUp
<1>5. CASE m # NoLease /\ (m = slot \/ (slot = NoLease /\ m = lastCompleted))
  <2>1. UNCHANGED <<slot, lastCompleted, pendingLease, pc>>
    BY <1>1, <1>5 DEF _apply_status
  <2>2. PickedUp(m)
    BY <1>3, <1>5, KeptTypes, Zenon DEF KeptInv, LeasesKnown
  <2>3. \A k : Current(k)' <=> Current(k)
    BY <2>1, Zenon DEF Current
  <2>4. KeptInv'
    BY <1>1, <2>1, <2>2, <2>3, DropKept, Zenon DEF m, KeptInv, LeasesKnown, PendingIsAssigned
  <2> QED
    BY <2>1, <2>4, Zenon
<1>6. CASE m # NoLease /\ slot \notin {m, NoLease}
  <2>1. Reassigned(m)
    BY <1>1, <1>6, Zenon DEF _apply_status
  <2>2. KeptInv'
    BY <1>1, <1>3, <1>6, <2>1, ReassignKept, Zenon DEF m, Reassigned
  <2> QED
    BY <2>1, <2>2, Zenon DEF Reassigned
<1>7. CASE m = NoLease /\ slot # NoLease
  <2>1. lastCompleted' = NoLease /\ UNCHANGED <<slot, pendingLease, pc>>
    BY <1>1, <1>7, Zenon DEF _apply_status, _on_lease_released
  <2>2. \A k : Current(k) => Current(k)'
    BY <1>7, <2>1, Zenon DEF Current
  <2>3. KeptInv'
    BY <1>1, <1>7, <2>1, <2>2, KeptTypes, DropKept, Zenon DEF m
  <2> QED
    BY <2>1, <2>3, Zenon
<1>8. CASE m = NoLease /\ slot = NoLease
  <2>1. lastCompleted' = NoLease /\ UNCHANGED <<slot, pendingLease, pc>>
    BY <1>1, <1>8, Zenon DEF _apply_status
  <2>2. \A k \in Leases : PickedUp(k) => ~Mentions(control, k) /\ assigned # k
    BY <1>2, <1>8, KeptTypes, Zenon DEF KeptInv, TrailingIsCurrent, AssignedIsCurrent
  <2>3. KeptInv'
    BY <1>1, <1>8, <2>1, <2>2, KeptTypes, DropKept, Zenon DEF m, KeptInv, PendingIsAssigned
  <2> QED
    BY <2>1, <2>3, Zenon
<1> QED
  BY <1>4, <1>5, <1>6, <1>7, <1>8, Zenon

LEMMA HandleFinishedKept ==
    ASSUME TypeOK, RuntimeInv, KeptInv, HandleFinished
    PROVE  KeptInv'
<1>1. /\ control # <<>> /\ Head(control).kind = "finished" /\ UNCHANGED <<assigned, used, told, pc>>
  BY Zenon DEF HandleFinished, controllerVars
<1>2. slot = Head(control).lease /\ slot \in Leases
  <2>1. 1 \in 1..Len(control) /\ Head(control) = control[1]
    BY <1>1, TypeParts
  <2> QED
    BY <1>1, <2>1, InvParts, Zenon DEF FinishedIn
<1>3. /\ lastCompleted' = slot /\ slot' = NoLease /\ pendingLease' = NoLease
      /\ control' = IF pendingLease = NoLease THEN Tail(control)
                    ELSE Append(Tail(control), Status(pendingLease))
  BY <1>2, Zenon DEF HandleFinished
<1>4. Head(control).kind # "status" /\ PickedUp(slot)
  BY <1>1, <1>2, KeptTypes, Zenon
<1>5. \A k \in Leases : Current(k) => Current(k)'
  BY <1>2, <1>3, KeptTypes, Zenon DEF Current
<1>6. CASE pendingLease = NoLease
  BY <1>1, <1>2, <1>3, <1>4, <1>5, <1>6, DropKept, Zenon
<1>7. CASE pendingLease # NoLease
  <2>1. /\ pendingLease = assigned /\ ~PickedUp(assigned) /\ OnlySays(control, assigned)
        /\ assigned \in Leases
    BY <1>7, KeptTypes, Zenon DEF KeptInv, PendingIsAssigned
  <2>2. Tail(control) \in Seq(Message)
    BY <1>1, TypeParts
  <2>3. /\ OnlySays(Tail(control), assigned)
        /\ \A k : OpensWith(control, k) => OpensWith(Tail(control), k)
        /\ \A k : Mentions(Tail(control), k) => Mentions(control, k)
    BY <1>1, <2>1, TypeParts, TailSays, Zenon
  <2>4. /\ OnlySays(control', assigned) /\ Mentions(control', assigned)
        /\ \A k : k # assigned /\ OpensWith(control, k) => OpensWith(control', k)
        /\ \A k : Mentions(control', k) => Mentions(control, k) \/ k = assigned
    BY <1>3, <1>7, <2>1, <2>2, <2>3, StatusSays, Zenon
  <2>5. EndsWith(control', assigned)
    BY <2>4, OnlyIsFirstAndLast, Zenon
  <2>6. /\ \A k : PickedUp(k)' <=> PickedUp(k)
        /\ PickedUp(assigned)' <=> PickedUp(assigned)
        /\ PickedUp(lastCompleted)' <=> PickedUp(slot)
    BY <1>1, <1>3, Zenon DEF PickedUp
  <2>7. LeasesKnown' /\ LeasesTaken'
    BY <1>1, <1>4, <2>4, <2>6, Zenon DEF KeptInv, LeasesKnown, LeasesTaken
  <2>8. TrailingIsCurrent'
    BY <1>5, <2>1, <2>4, <2>6, Zenon DEF KeptInv, TrailingIsCurrent
  <2>9. AssignedIsLast' /\ AssignedIsCurrent' /\ PendingIsAssigned' /\ ToldIsKept'
    BY <1>1, <1>3, <2>1, <2>4, <2>5, <2>6, Zenon
    DEF AssignedIsLast, AssignedIsCurrent, PendingIsAssigned, ToldIsKept
  <2> QED
    BY <2>7, <2>8, <2>9, Zenon DEF KeptInv
<1> QED
  BY <1>6, <1>7, Zenon

LEMMA NextKept ==
    ASSUME TypeOK, RuntimeInv, KeptInv, ~EndsEarly, [Next]_vars
    PROVE  /\ KeptInv'
           /\ \A k \in Leases : pc[k]["lease"] = "gone" => pc'[k]["lease"] = "gone"
<1>1. ASSUME NEW l \in Leases, TaskStep(l)
      PROVE  /\ KeptInv'
             /\ \A k \in Leases : pc[k]["lease"] = "gone" => pc'[k]["lease"] = "gone"
  BY <1>1, TaskKept, TaskGoes, Zenon DEF PcKept, LeaseGoes
<1>2. CASE SendStatus
  BY <1>2, SendKept, Zenon DEF SendStatus
<1>3. CASE HandleStatus
  BY <1>3, HandleStatusKept, Zenon
<1>4. CASE HandleFinished
  BY <1>4, HandleFinishedKept, Zenon DEF HandleFinished
<1>5. CASE \E l \in Leases : AssignLease(l)
  BY <1>5, AssignKept, Zenon DEF AssignLease
<1>6. CASE EndLease
  BY <1>6, EndKept, Zenon DEF EndLease
<1>7. CASE Reconnect
  BY <1>7, ReconnectKept, Zenon DEF Reconnect
<1>8. CASE StopOnLeaseExit \/ ReportStatus \/ _unregister_with_controller \/ UNCHANGED vars
  <2>1. UNCHANGED AssignmentVars /\ UNCHANGED <<control, pc>>
    BY <1>8, Zenon DEF StopOnLeaseExit, ReportStatus, _unregister_with_controller, vars,
       AssignmentVars, controllerVars, loopVars
  <2>2. \A k \in Leases : PickedUp(k)' <=> PickedUp(k)
    BY <2>1, Zenon DEF PickedUp
  <2> QED
    BY <2>1, <2>2, QuietKept, Zenon
<1> QED
  BY <1>1, <1>2, <1>3, <1>4, <1>5, <1>6, <1>7, <1>8, Zenon DEF Next, TaskStep

LEMMA KeptInvariant == ASSUME ~EndsEarly PROVE Spec => []KeptInv
<1>1. TypeOK /\ RuntimeInv /\ KeptInv /\ [Next]_vars => KeptInv'
  BY NextKept, Zenon
<1> QED
  BY <1>1, InitKept, RuntimeInvariant, PTL DEF Spec

(* A lease the controller has told the exporter of, and that is still      *)
(* assigned, is picked up, or its status is in the channel, or the loop    *)
(* keeps it for when the slot is free, which some lease then holds.        *)
AssignmentIsKept ==
    \A l \in Leases : assigned = l /\ told = l =>
      \/ PickedUp(l)
      \/ \E i \in 1..Len(control) : control[i].kind = "status" /\ control[i].lease = l
      \/ pendingLease = l /\ slot \in Leases

(* No assignment is lost on the way: although the controller tells each    *)
(* lease once, and the loop ignores statuses, stashes one that comes while *)
(* another lease is torn down and puts it back at the end of the channel,  *)
(* the lease that is assigned is never overtaken or dropped.  It needs     *)
(* that a lease ends only after it was picked up.                          *)
THEOREM AssignmentIsNotLost == ASSUME ~EndsEarly PROVE Spec => []AssignmentIsKept
<1>1. TypeOK /\ RuntimeInv /\ KeptInv => AssignmentIsKept
  BY KeptTypes, Zenon DEF AssignmentIsKept, KeptInv, ToldIsKept, PendingIsAssigned, Mentions, Says
<1> QED
  BY <1>1, KeptInvariant, RuntimeInvariant, PTL

(* A lease that was torn down is over.                                     *)
StaysGone ==
    [][\A l \in Leases : pc[l]["lease"] = "gone" => pc'[l]["lease"] = "gone"]_vars

(* A lease the exporter has torn down is not opened again by a status of   *)
(* it that comes late or twice, after a reconnection of the stream: it is  *)
(* the one completed last for as long as the channel names it.             *)
THEOREM LeaseIsServedOnce == ASSUME ~EndsEarly PROVE Spec => StaysGone
<1>1. TypeOK /\ RuntimeInv /\ KeptInv /\ [Next]_vars =>
        [\A l \in Leases : pc[l]["lease"] = "gone" => pc'[l]["lease"] = "gone"]_vars
  BY NextKept, Zenon
<1> QED
  BY <1>1, KeptInvariant, RuntimeInvariant, PTL DEF Spec, StaysGone

-----------------------------------------------------------------------------
(* The status the controller has once the report under way is stored.      *)
Latest == IF report = NoReport THEN seen ELSE report
SaysAvailable == stopRequested \/ Latest = "Available"

(* The afterLease hook of lease l is over, or there will be none.          *)
PastHook(l) ==
    \/ "done" \in ctx[l]
    \/ pc[l]["lease"] \in {"pause", "quit", "call", "return", "close", "gone"}
    \/ pc[l]["end"] \in {"pause", "quit", "call", "return"}

(* What is said between two leases is said before the slot is free, when   *)
(* the hook is over.                                                       *)
AvailableInv ==
    running => /\ slot = NoLease => SaysAvailable
               /\ \A l \in Leases : slot = l /\ PastHook(l) => SaysAvailable

(* A configuration whose afterLease hook, if it fails, warns or has the    *)
(* exporter stop, and that has a beforeLease hook if it has any.           *)
Sound(c) == (c.executor => c.before) /\ c.afterResults \subseteq {"ok", "exit"}

LEMMA SaidKept ==
    ASSUME AvailableInv, UNCHANGED slot, running' => running, SaysAvailable => SaysAvailable',
           \A k \in Leases : slot = k /\ PastHook(k)' => PastHook(k)
    PROVE  AvailableInv'
  BY Zenon DEF AvailableInv

(* The lease in the slot still has its hook to come.                       *)
LEMMA NotYetPast ==
    ASSUME NEW l \in Leases, slot' = l, ~PastHook(l)'
    PROVE  AvailableInv'
  BY ConfigAssumption, Zenon DEF AvailableInv

(* A report of Available, whatever the positions.                          *)
LEMMA SaidNow ==
    ASSUME \/ report' = "Available"
           \/ ReportUnlessStopping /\ UNCHANGED stopRequested
           \/ stopRequested'
    PROVE  AvailableInv'
<1>1. SaysAvailable'
  <2>1. CASE report' = "Available"
    BY <2>1, Zenon DEF SaysAvailable, Latest, NoReport
  <2>2. CASE stopRequested'
    BY <2>2, Zenon DEF SaysAvailable
  <2>3. CASE ReportUnlessStopping /\ UNCHANGED stopRequested
    BY <2>1, <2>2, <2>3, Zenon DEF ReportUnlessStopping, Report
  <2> QED
    BY <2>1, <2>2, <2>3, Zenon
<1> QED
  BY <1>1, Zenon DEF AvailableInv

LEMMA GotoPlaces ==
    ASSUME TypeOK, NEW l \in Leases, NEW t \in Tasks, NEW x, Goto(l, t, x)
    PROVE  /\ PcKept(l)
           /\ pc'[l]["lease"] = IF t = "lease" THEN x ELSE pc[l]["lease"]
           /\ pc'[l]["end"] = IF t = "end" THEN x ELSE pc[l]["end"]
  BY TypeParts, Zenon DEF Goto, Tasks, PcKept

LEMMA DoneKept ==
    ASSUME TypeOK, NEW l, NEW e, "done" \notin e, UNCHANGED ctx \/ Set(l, e)
    PROVE  \A k \in Leases : "done" \in ctx'[k] => "done" \in ctx[k]
<1>1. CASE UNCHANGED ctx
  BY <1>1, Zenon
<1>2. CASE Set(l, e)
  <2>1. \A k \in Leases : ctx'[k] = ctx[k] \/ ctx'[k] = ctx[k] \cup e
    BY <1>2, TypeParts, Zenon DEF Set
  <2> QED
    BY <2>1, Zenon
<1> QED
  BY <1>1, <1>2, Zenon

(* A step that reports nothing, and takes no task past the hook.           *)
NothingSaid == UNCHANGED <<slot, running, stopRequested, report, seen>>

LEMMA QuietSaid ==
    ASSUME TypeOK, AvailableInv, NothingSaid,
           NEW l \in Leases, NEW t \in Tasks, NEW x, Goto(l, t, x),
           \A k \in Leases : "done" \in ctx'[k] => "done" \in ctx[k] \/ (k = l /\ PastHook(l)),
           \/ PastHook(l)
           \/ t = "before"
           \/ t = "lease" /\ x \in {"session", "serve", "cleanup", "waitDone"}
           \/ t = "end" /\ x \in {"gone", "waitDone"}
    PROVE  AvailableInv'
<1>1. SaysAvailable => SaysAvailable'
  BY Zenon DEF SaysAvailable, Latest, NothingSaid
<1>2. /\ PcKept(l)
      /\ pc'[l]["lease"] = IF t = "lease" THEN x ELSE pc[l]["lease"]
      /\ pc'[l]["end"] = IF t = "end" THEN x ELSE pc[l]["end"]
  BY GotoPlaces, Zenon
<1>3. ASSUME NEW k \in Leases, PastHook(k)' PROVE PastHook(k)
  <2>1. CASE k = l
    BY <1>2, <1>3, <2>1, Zenon DEF PastHook
  <2>2. CASE k # l
    <3>1. pc'[k] = pc[k]
      BY <1>2, <2>2, Zenon DEF PcKept
    <3> QED
      BY <1>3, <2>2, <3>1, Zenon DEF PastHook
  <2> QED
    BY <2>1, <2>2, Zenon
<1> QED
  BY <1>1, <1>3, SaidKept, Zenon DEF NothingSaid

(* While lease l serves and its afterLease hook has not started, the slot  *)
(* is its own and the hook is to come.                                     *)
LEMMA HookToCome ==
    ASSUME TypeOK, RuntimeInv, NEW l \in Leases,
           pc[l]["lease"] \in {"session", "start", "serve", "cleanup"},
           "started" \notin ctx[l] \/ "before" \notin ctx[l] \/ pc[l]["lease"] = "session"
    PROVE  slot = l /\ ~PastHook(l)
<1>1. slot = l
  BY InvParts, Zenon DEF SlotOf
<1>2. TasksFit(pc[l], ctx[l])
  BY InvParts, Zenon
<1> QED
  BY <1>1, <1>2, Zenon DEF TasksFit, Fits, PastHook, InAfterHook

(* The steps of handle_lease.                                              *)
LEMMA LeaseTaskSaid ==
    ASSUME TypeOK, RuntimeInv, AvailableInv, NEW l \in Leases, LeaseTask(l)
    PROVE  AvailableInv'
<1>0. "lease" \in Tasks /\ "end" \in Tasks /\ "lease" # "end"
  BY Zenon DEF Tasks
<1>1. CASE StartLease(l)
  <2>1. CASE "ended" \in ctx[l]
    BY <1>1, <2>1, SaidNow, Zenon DEF StartLease
  <2>2. CASE "ended" \notin ctx[l]
    <3>1. Goto(l, "lease", "session") /\ NothingSaid /\ UNCHANGED ctx
      BY <1>1, <2>2, Zenon DEF StartLease, NothingSaid, controllerVars
    <3> QED
      BY <1>0, <3>1, QuietSaid, Zenon
  <2> QED
    BY <2>1, <2>2, Zenon
<1>2. CASE CreateSession(l)
  <2>1. CASE "ended" \in ctx[l]
    BY <1>2, <2>1, SaidNow, Zenon DEF CreateSession
  <2>2. CASE "ended" \notin ctx[l]
    <3>1. /\ pc' = [pc EXCEPT ![l]["lease"] = "serve", ![l]["end"] = "wait"]
          /\ Set(l, {"ready"}) \/ Set(l, {"ready", "before"})
          /\ pc[l]["lease"] = "session" /\ UNCHANGED slot
      BY <1>2, <2>2, Zenon DEF CreateSession, loopVars
    <3>2. pc'[l]["lease"] = "serve" /\ pc'[l]["end"] = "wait"
      BY <3>1, TypeParts, Zenon DEF Tasks
    <3>3. "done" \in ctx'[l] => "done" \in ctx[l]
      <4>1. "done" \notin {"ready"} /\ "done" \notin {"ready", "before"}
        BY Zenon
      <4> QED
        BY <3>1, <4>1, DoneKept, Zenon
    <3>4. slot = l /\ ~PastHook(l)
      BY <3>1, HookToCome, Zenon
    <3>5. ~PastHook(l)'
      BY <3>2, <3>3, <3>4, Zenon DEF PastHook
    <3> QED
      BY <3>1, <3>4, <3>5, NotYetPast, Zenon
  <2> QED
    BY <2>1, <2>2, Zenon
<1>3. CASE LeaseEnds(l)
  <2>1. Goto(l, "lease", "cleanup") /\ NothingSaid /\ UNCHANGED ctx
    BY <1>3, Zenon DEF LeaseEnds, NothingSaid, controllerVars, loopVars
  <2> QED
    BY <1>0, <2>1, QuietSaid, Zenon
<1>4. CASE _cleanup_after_lease(l)
  <2>1. CASE Goto(l, "lease", "waitDone") /\ UNCHANGED <<ctx, report>>
    <3>1. NothingSaid
      BY <1>4, <2>1, Zenon DEF _cleanup_after_lease, NothingSaid, controllerVars, loopVars
    <3> QED
      BY <1>0, <2>1, <3>1, QuietSaid, Zenon
  <2>2. CASE ReportUnlessStopping
    BY <1>4, <2>2, SaidNow, Zenon DEF _cleanup_after_lease
  <2>3. CASE "started" \notin ctx[l] /\ Set(l, {"started"}) /\ StartAfterHook(l, "lease")
    <3>1. CASE config.after
      <4>1. Goto(l, "lease", "hook")
        BY <2>3, <3>1, Zenon DEF StartAfterHook
      <4>2. pc'[l]["lease"] = "hook" /\ pc'[l]["end"] = pc[l]["end"]
        BY <1>0, <4>1, GotoPlaces, Zenon
      <4>3. "done" \in ctx'[l] => "done" \in ctx[l]
        BY <2>3, TypeParts, Zenon DEF Set
      <4>4. slot = l /\ ~PastHook(l) /\ UNCHANGED slot
        BY <1>4, <2>3, HookToCome, Zenon DEF _cleanup_after_lease, loopVars
      <4>5. ~PastHook(l)'
        BY <4>2, <4>3, <4>4, Zenon DEF PastHook
      <4> QED
        BY <4>4, <4>5, NotYetPast, Zenon
    <3>2. CASE ~config.after
      BY <2>3, <3>2, SaidNow, Zenon DEF StartAfterHook, Report
    <3> QED
      BY <3>1, <3>2, Zenon
  <2> QED
    BY <1>4, <2>1, <2>2, <2>3, Zenon DEF _cleanup_after_lease
<1>5. CASE CloseSession(l)
  <2>1. /\ Goto(l, "lease", "gone") /\ NothingSaid /\ Set(l, {"before", "done"})
        /\ pc[l]["lease"] = "close"
    BY <1>5, Zenon DEF CloseSession, NothingSaid, controllerVars
  <2>2. PastHook(l)
    BY <2>1, Zenon DEF PastHook
  <2>3. \A k \in Leases : "done" \in ctx'[k] => "done" \in ctx[k] \/ (k = l /\ PastHook(l))
    BY <2>1, <2>2, TypeParts, Zenon DEF Set
  <2> QED
    BY <1>0, <2>1, <2>2, <2>3, QuietSaid, Zenon
<1> QED
  BY <1>1, <1>2, <1>3, <1>4, <1>5, Zenon DEF LeaseTask

(* EndSession and its task.                                                *)
LEMMA EndSessionSaid ==
    ASSUME TypeOK, RuntimeInv, AvailableInv, NEW l \in Leases,
           EndSession(l) \/ _handle_end_session(l)
    PROVE  AvailableInv'
<1>0. "lease" \in Tasks /\ "end" \in Tasks /\ "lease" # "end"
  BY Zenon DEF Tasks
<1>1. CASE EndSession(l)
  <2>1. NothingSaid /\ Set(l, {"endSession"}) /\ UNCHANGED pc
    BY <1>1, Zenon DEF EndSession, NothingSaid, controllerVars, loopVars
  <2>2. \A k \in Leases : "done" \in ctx'[k] => "done" \in ctx[k]
    BY <2>1, TypeParts, Zenon DEF Set
  <2>3. \A k \in Leases : PastHook(k)' => PastHook(k)
    BY <2>1, <2>2, Zenon DEF PastHook
  <2>4. SaysAvailable => SaysAvailable'
    BY <2>1, Zenon DEF SaysAvailable, Latest, NothingSaid
  <2> QED
    BY <2>1, <2>3, <2>4, SaidKept, Zenon DEF NothingSaid
<1>2. CASE _handle_end_session(l)
  <2>1. CASE (Goto(l, "end", "gone") \/ Goto(l, "end", "waitDone")) /\ UNCHANGED <<ctx, report>>
    <3>1. NothingSaid
      BY <1>2, <2>1, Zenon DEF _handle_end_session, NothingSaid, controllerVars, loopVars
    <3> QED
      BY <1>0, <2>1, <3>1, QuietSaid, Zenon
  <2>2. CASE Report("Available")
    BY <2>2, SaidNow, Zenon DEF Report
  <2>3. CASE "started" \notin ctx[l] /\ Set(l, {"started"}) /\ StartAfterHook(l, "end")
    <3>1. CASE config.after
      <4>1. Goto(l, "end", "hook")
        BY <2>3, <3>1, Zenon DEF StartAfterHook
      <4>2. pc'[l]["lease"] = pc[l]["lease"] /\ pc'[l]["end"] = "hook"
        BY <1>0, <4>1, GotoPlaces, Zenon
      <4>3. "done" \in ctx'[l] => "done" \in ctx[l]
        BY <2>3, TypeParts, Zenon DEF Set
      <4>4. pc[l]["lease"] \in {"serve", "cleanup"}
        <5>1. TasksFit(pc[l], ctx[l]) /\ pc[l]["end"] = "wait"
          BY <1>2, InvParts, Zenon DEF _handle_end_session
        <5> QED
          BY <2>3, <5>1, Zenon DEF TasksFit, Fits
      <4>5. slot = l /\ ~PastHook(l) /\ UNCHANGED slot
        BY <1>2, <2>3, <4>4, HookToCome, Zenon DEF _handle_end_session, loopVars
      <4>6. ~PastHook(l)'
        BY <4>2, <4>3, <4>5, Zenon DEF PastHook
      <4> QED
        BY <4>5, <4>6, NotYetPast, Zenon
    <3>2. CASE ~config.after
      BY <2>3, <3>2, SaidNow, Zenon DEF StartAfterHook, Report
    <3> QED
      BY <3>1, <3>2, Zenon
  <2> QED
    BY <1>2, <2>1, <2>2, <2>3, Zenon DEF _handle_end_session
<1> QED
  BY <1>1, <1>2, Zenon

(* The beforeLease hook.                                                   *)
LEMMA BeforeSaid ==
    ASSUME TypeOK, RuntimeInv, AvailableInv, Sound(config), NEW l \in Leases,
           WaitReady(l) \/ BeforeHook(l)
    PROVE  AvailableInv'
<1>0. "before" \in Tasks /\ "before" # "lease" /\ "before" # "end"
  BY Zenon DEF Tasks
<1>1. PICK x : Goto(l, "before", x)
  BY Zenon DEF WaitReady, BeforeHook
<1>2. pc'[l]["lease"] = pc[l]["lease"] /\ pc'[l]["end"] = pc[l]["end"]
  BY <1>0, <1>1, GotoPlaces, Zenon
<1>3. /\ UNCHANGED slot
      /\ UNCHANGED ctx \/ Set(l, {"before"}) \/ Set(l, {"skip", "before"})
  BY Zenon DEF WaitReady, BeforeHook, loopVars
<1>4. \A k \in Leases : "done" \in ctx'[k] => "done" \in ctx[k]
  <2>1. "done" \notin {"before"} /\ "done" \notin {"skip", "before"}
    BY Zenon
  <2> QED
    BY <1>3, <2>1, DoneKept, Zenon
<1>5. TasksFit(pc[l], ctx[l])
  BY InvParts, Zenon
<1>6. CASE "before" \notin ctx[l] /\ pc[l]["lease"] \in {"start", "session", "serve", "cleanup"}
  <2>1. slot = l /\ ~PastHook(l)
    BY <1>6, HookToCome, Zenon
  <2>2. ~PastHook(l)'
    BY <1>2, <1>4, <2>1, Zenon DEF PastHook
  <2> QED
    BY <1>3, <2>1, <2>2, NotYetPast, Zenon
<1>7. CASE WaitReady(l)
  <2>1. pc[l]["before"] = "wait" /\ config.before
    BY <1>5, <1>7, Zenon DEF WaitReady, TasksFit, Fits, Sound
  <2>2. CASE "ended" \notin ctx[l]
    BY <1>5, <1>6, <2>1, <2>2, Zenon DEF TasksFit, Fits
  <2>3. CASE "ended" \in ctx[l]
    <3>1. UNCHANGED report
      BY <1>7, <2>1, <2>3, Zenon DEF WaitReady
    <3>2. NothingSaid
      BY <1>7, <3>1, Zenon DEF WaitReady, NothingSaid, controllerVars, loopVars
    <3> QED
      BY <1>0, <1>1, <1>4, <3>2, QuietSaid, Zenon
  <2> QED
    BY <2>2, <2>3, Zenon
<1>8. CASE BeforeHook(l)
  BY <1>5, <1>6, <1>8, Zenon DEF BeforeHook, TasksFit, Fits
<1> QED
  BY <1>7, <1>8, Zenon

(* The afterLease hook, and the release after a hook.                      *)
LEMMA ReleaseSaid ==
    ASSUME TypeOK, RuntimeInv, AvailableInv, Sound(config), NEW l \in Leases, NEW t \in Tasks,
           AfterHook(l, t) \/ Release(l, t) \/ WaitDone(l, t)
    PROVE  AvailableInv'
<1>0. t \in {"before", "lease", "end"}
  BY Zenon DEF Tasks
<1>1. CASE AfterHook(l, t)
  <2>1. PICK result \in config.afterResults :
          /\ Report(CASE result = "ok" -> "Available"
                      [] result = "exit" -> "Offline"
                      [] OTHER -> "AfterLeaseHookFailed")
          /\ stopRequested' = (stopRequested \/ result = "exit")
    BY <1>1, Zenon DEF AfterHook
  <2>2. CASE result = "ok"
    BY <2>1, <2>2, SaidNow, Zenon DEF Report
  <2>3. CASE result = "exit"
    BY <2>1, <2>3, SaidNow, Zenon
  <2> QED
    BY <2>1, <2>2, <2>3, Zenon DEF Sound
<1>2. ASSUME NEW x, Goto(l, t, x), NothingSaid, UNCHANGED ctx \/ Set(l, Done(t)),
             pc[l][t] \in {"pause", "quit", "call", "return"}
      PROVE  AvailableInv'
  <2>1. t # "before" => PastHook(l)
    BY <1>0, <1>2, Zenon DEF PastHook
  <2>2. \A k \in Leases : "done" \in ctx'[k] => "done" \in ctx[k] \/ (k = l /\ PastHook(l))
    BY <1>2, <2>1, TypeParts, Zenon DEF Set, Done
  <2> QED
    BY <1>2, <2>1, <2>2, QuietSaid, Zenon
<1>3. CASE _request_lease_release(l, t)
  <2>1. NothingSaid /\ pc[l][t] \in {"pause", "quit"}
    BY <1>3, Zenon DEF _request_lease_release, NothingSaid, controllerVars, loopVars
  <2>2. CASE Set(l, Done(t)) /\ Goto(l, t, AfterRelease(t))
    BY <1>2, <2>1, <2>2, Zenon
  <2>3. CASE UNCHANGED ctx /\ Goto(l, t, "call")
    BY <1>2, <2>1, <2>3, Zenon
  <2> QED
    BY <1>3, <2>2, <2>3, Zenon DEF _request_lease_release
<1>4. CASE ReleaseCall(l, t)
  BY <1>2, <1>4, Zenon DEF ReleaseCall, NothingSaid, loopVars
<1>5. CASE ReleaseReturn(l, t)
  BY <1>5, SaidNow, Zenon DEF ReleaseReturn, Report
<1>6. CASE WaitDone(l, t)
  <2>1. Goto(l, t, AfterRelease(t)) /\ NothingSaid /\ UNCHANGED ctx /\ "done" \in ctx[l]
    BY <1>6, Zenon DEF WaitDone, NothingSaid, controllerVars, loopVars
  <2>2. PastHook(l)
    BY <2>1, Zenon DEF PastHook
  <2> QED
    BY <2>1, <2>2, QuietSaid, Zenon
<1> QED
  BY <1>1, <1>3, <1>4, <1>5, <1>6, Zenon DEF Release

(* The control-plane loop takes a lease only into a free slot, and frees   *)
(* the slot of a lease whose handle_lease is gone.                         *)
LEMMA LoopSaid ==
    ASSUME TypeOK, RuntimeInv, AvailableInv, HandleStatus \/ HandleFinished
    PROVE  AvailableInv'
<1>1. UNCHANGED <<seen, report>> /\ running /\ (stopRequested => stopRequested')
  <2>1. CASE HandleStatus
    <3>1. UNCHANGED <<seen, report>> /\ running /\ \E m : _apply_status(m)
      BY <2>1, Zenon DEF HandleStatus, controllerVars
    <3>2. stopRequested => stopRequested'
      BY <3>1 DEF _apply_status, _on_lease_released, Reassigned
    <3> QED
      BY <3>1, <3>2, Zenon
  <2>2. CASE HandleFinished
    BY <2>2, Zenon DEF HandleFinished, controllerVars
  <2> QED
    BY <2>1, <2>2, Zenon
<1>2. SaysAvailable => SaysAvailable'
  BY <1>1, Zenon DEF SaysAvailable, Latest
<1>3. CASE HandleFinished
  <2>1. slot \in Leases /\ pc[slot]["lease"] = "gone"
    <3>1. control # <<>> /\ Head(control).kind = "finished"
      BY <1>3, Zenon DEF HandleFinished
    <3> QED
      BY <3>1, InvParts, TypeParts, FinishedTail, Zenon
  <2>2. SaysAvailable'
    BY <1>1, <1>2, <2>1, Zenon DEF AvailableInv, PastHook
  <2> QED
    BY <2>2, Zenon DEF AvailableInv
<1>4. CASE HandleStatus
  <2>1. PICK m \in Leases \cup {NoLease} : _apply_status(m)
    <3>1. control \in Seq(Message) /\ control # <<>> /\ _apply_status(Head(control).lease)
      BY <1>4, TypeParts, Zenon DEF HandleStatus
    <3>2. Head(control) \in Message
      BY <3>1
    <3>3. Head(control).lease \in Leases \cup {NoLease}
      BY <3>2 DEF Message
    <3> QED
      BY <3>1, <3>3, Zenon
  <2>2. CASE m # NoLease /\ _on_lease_acquired(m)
    <3>1. m \in Leases
      BY <2>1, <2>2, Zenon
    <3>2. slot' = m /\ ctx'[m] = {} /\ pc'[m]["lease"] = "start" /\ pc'[m]["end"] = "none"
      BY <2>2, <3>1, TypeParts, Zenon DEF _on_lease_acquired, Tasks
    <3>3. ~PastHook(m)'
      BY <3>2, Zenon DEF PastHook
    <3> QED
      BY <3>1, <3>2, <3>3, NotYetPast, Zenon
  <2>3. CASE UNCHANGED <<slot, pc>> /\ (UNCHANGED ctx \/ (slot # NoLease /\ Set(slot, {"ended"})))
    <3>1. \A k \in Leases : "done" \in ctx'[k] => "done" \in ctx[k]
      <4>1. "done" \notin {"ended"}
        BY Zenon
      <4> QED
        BY <2>3, <4>1, DoneKept, Zenon
    <3>2. \A k \in Leases : PastHook(k)' => PastHook(k)
      BY <2>3, <3>1, Zenon DEF PastHook
    <3> QED
      BY <1>1, <1>2, <2>3, <3>2, SaidKept, Zenon
  <2> QED
    BY <2>1, <2>2, <2>3, Zenon DEF _apply_status, _on_lease_released, Reassigned
<1> QED
  BY <1>3, <1>4, Zenon

LEMMA NextSaid ==
    ASSUME TypeOK, RuntimeInv, AvailableInv, \A c \in Configs : Sound(c), [Next]_vars
    PROVE  AvailableInv'
<1>0. Sound(config)
  BY Zenon DEF TypeOK
<1>1. ASSUME NEW l \in Leases, TaskStep(l) PROVE AvailableInv'
  BY <1>0, <1>1, LeaseTaskSaid, EndSessionSaid, BeforeSaid, ReleaseSaid, Zenon DEF TaskStep
<1>2. ASSUME UNCHANGED <<slot, pc, ctx>>, running' => running, SaysAvailable => SaysAvailable'
      PROVE  AvailableInv'
  <2>1. \A k \in Leases : PastHook(k)' => PastHook(k)
    BY <1>2, Zenon DEF PastHook
  <2> QED
    BY <1>2, <2>1, SaidKept, Zenon
<1>3. CASE ReportStatus
  BY <1>2, <1>3, Zenon DEF ReportStatus, SaysAvailable, Latest, loopVars
<1>4. CASE _unregister_with_controller
  BY <1>4, Zenon DEF _unregister_with_controller, AvailableInv
<1>5. CASE StopOnLeaseExit
  BY <1>2, <1>5, Zenon DEF StopOnLeaseExit, SaysAvailable, Latest, loopVars, controllerVars
<1>6. CASE \/ \E l \in Leases : AssignLease(l)
           \/ EndLease \/ SendStatus \/ Reconnect \/ UNCHANGED vars
  <2>1. UNCHANGED <<slot, pc, ctx, running, stopRequested, report, seen>>
    BY <1>6, Zenon DEF AssignLease, EndLease, SendStatus, Reconnect, vars, loopVars, controllerVars
  <2> QED
    BY <1>2, <2>1, Zenon DEF SaysAvailable, Latest
<1> QED
  BY <1>1, <1>3, <1>4, <1>5, <1>6, LoopSaid, Zenon DEF Next, TaskStep

(* An exporter without a lease has told the controller that it is          *)
(* available, or is about to.                                              *)
IdleSaysAvailable == Idle => Latest = "Available"

(* Whatever task of the last lease reported last, and whichever way that   *)
(* lease came to its end, also before it was picked up: no report of a     *)
(* hook or of LEASE_READY comes after AVAILABLE while the slot is free.    *)
(* It needs a configuration that is Sound: the other ways a hook may fail  *)
(* leave the exporter out of service.                                      *)
THEOREM IdleIsReported ==
    ASSUME \A c \in Configs : Sound(c) PROVE Spec => []IdleSaysAvailable
<1>1. Init => AvailableInv
  BY Zenon DEF Init, AvailableInv, SaysAvailable, Latest, NoReport
<1>2. TypeOK /\ RuntimeInv /\ AvailableInv /\ [Next]_vars => AvailableInv'
  BY NextSaid, Zenon
<1>3. AvailableInv => IdleSaysAvailable
  BY Zenon DEF AvailableInv, IdleSaysAvailable, Idle, SaysAvailable
<1> QED
  BY <1>1, <1>2, <1>3, RuntimeInvariant, PTL DEF Spec

=============================================================================
