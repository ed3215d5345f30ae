---------------------------- MODULE MCComponents -----------------------------
(***************************************************************************)
(* Five components that do not interact with one another, in one run: the  *)
(* initial state says which of them runs, and the others stay as they are. *)
(* The set of reachable states is the disjoint union of theirs.            *)
(***************************************************************************)
EXTENDS Integers, Sequences

CONSTANTS Peers, MaxFrames,
          Execs, Shutters,
          Waiters, MaxDeadlines, MaxErrors,
          Leases, MaxEvents,
          MaxTime, Interval, Latency, Durations,
          MaxChanges, MaxFaults, None

(* A stream of the router has two peers.  The lengths of time are numbers  *)
(* of ticks, and none of them is None.                                     *)
ASSUME ComponentsAssumption ==
    /\ \E p, q \in Peers : p # q /\ Peers = {p, q}
    /\ None \notin Peers
    /\ MaxFrames \in Nat /\ MaxEvents \in Nat /\ MaxFaults \in Nat /\ MaxChanges \in Nat
    /\ MaxTime \in Nat /\ Interval \in Nat \ {0} /\ Latency \in Nat
    /\ Durations \subseteq 0 .. MaxTime
    /\ None \notin 0 .. MaxTime + Interval

VARIABLES
    part,
    r_conn, r_pending, r_pc, r_first, r_cancelled, r_pipes, r_sent, r_inbox, r_got,
    x_shutdown, x_children, x_socket, x_main, x_th, x_reader, x_client, x_child, x_termed, x_todo,
    m_now, m_implemented, m_current, m_version, m_running, m_lost, m_missed, m_event, m_stop,
    m_loop, m_reply, m_deadlines, m_errors, m_pc, m_seen,
    w_stored, w_clock, w_gone, w_events, w_live, w_exporter, w_watched, w_lastPb, w_told, w_pc,
    w_faults, w_changes,
    c_lease, c_own, c_name, c_release, c_pc, c_clock, c_wake, c_last, c_lease_ended, c_faults,
    c_changes

rVars == <<r_conn, r_pending, r_pc, r_first, r_cancelled, r_pipes, r_sent, r_inbox, r_got>>
xVars == <<x_shutdown, x_children, x_socket, x_main, x_th, x_reader, x_client, x_child, x_termed,
           x_todo>>
mVars == <<m_now, m_implemented, m_current, m_version, m_running, m_lost, m_missed, m_event, m_stop,
           m_loop, m_reply, m_deadlines, m_errors, m_pc, m_seen>>
wVars == <<w_stored, w_clock, w_gone, w_events, w_live, w_exporter, w_watched, w_lastPb, w_told,
           w_pc, w_faults, w_changes>>
cVars == <<c_lease, c_own, c_name, c_release, c_pc, c_clock, c_wake, c_last, c_lease_ended, c_faults,
           c_changes>>
allVars == <<part, rVars, xVars, mVars, wVars, cVars>>

(* The statuses of one lease with hooks.  One task waits, as the shell     *)
(* does, for the lease to be ready or to fail, the other for its end.      *)
OneLease == <<"BEFORE_LEASE_HOOK", "LEASE_READY", "AFTER_LEASE_HOOK", "AVAILABLE">>
ShellTargets == [w \in Waiters |-> IF w = "a" THEN {"LEASE_READY", "BEFORE_LEASE_HOOK_FAILED"}
                                              ELSE {"AVAILABLE"}]

Router == INSTANCE RouterStream WITH
    NoPeer <- None, conn <- r_conn, pending <- r_pending, pc <- r_pc, first <- r_first,
    cancelled <- r_cancelled, pipes <- r_pipes, sent <- r_sent, inbox <- r_inbox, got <- r_got

Exec == INSTANCE ExecServer WITH
    shutdown <- x_shutdown, children <- x_children, socket <- x_socket, main <- x_main,
    th <- x_th, reader <- x_reader, client <- x_client, child <- x_child, termed <- x_termed,
    todo <- x_todo

Monitor == INSTANCE StatusMonitor WITH
    AnyOf <- {"a"}, Targets <- ShellTargets, History <- OneLease,
    now <- m_now, implemented <- m_implemented, current <- m_current, version <- m_version,
    running <- m_running, lost <- m_lost, missed <- m_missed, event <- m_event, stop <- m_stop,
    loop <- m_loop, reply <- m_reply, deadlines <- m_deadlines, errors <- m_errors, pc <- m_pc,
    seen <- m_seen

Watch == INSTANCE StatusWatch WITH
    stored <- w_stored, clock <- w_clock, gone <- w_gone, events <- w_events, live <- w_live,
    exporter <- w_exporter, watched <- w_watched, lastPb <- w_lastPb, told <- w_told, pc <- w_pc,
    faults <- w_faults, changes <- w_changes

Client == INSTANCE ClientLease WITH
    lease <- c_lease, own <- c_own, name <- c_name, release <- c_release, pc <- c_pc,
    clock <- c_clock, wake <- c_wake, last <- c_last, lease_ended <- c_lease_ended,
    faults <- c_faults, changes <- c_changes

-----------------------------------------------------------------------------
(* A component that does not run is in one initial state.                  *)
Init ==
    /\ part \in {"router", "exec", "monitor", "watch", "client"}
    /\ Router!Init /\ Exec!Init /\ Monitor!Init /\ Watch!Init /\ Client!Init
    /\ part # "monitor" => m_implemented
    /\ part # "watch" => w_stored.lease = None
    /\ part # "client" => ~c_name

(* A step of one component leaves the others alone.                        *)
InRouter(A) == part = "router" /\ A /\ UNCHANGED <<part, xVars, mVars, wVars, cVars>>
InExec(A) == part = "exec" /\ A /\ UNCHANGED <<part, rVars, mVars, wVars, cVars>>
InMonitor(A) == part = "monitor" /\ A /\ UNCHANGED <<part, rVars, xVars, wVars, cVars>>
InWatch(A) == part = "watch" /\ A /\ UNCHANGED <<part, rVars, xVars, mVars, cVars>>
InClient(A) == part = "client" /\ A /\ UNCHANGED <<part, rVars, xVars, mVars, wVars>>

Next ==
    \/ InRouter(Router!Next) \/ InExec(Exec!Next) \/ InMonitor(Monitor!Next)
    \/ InWatch(Watch!Next) \/ InClient(Client!Next)

(* The fairness of the component that runs.  As the components exclude one *)
(* another, fairness of a disjunction over them is fairness of each.       *)
Fairness ==
    /\ WF_allVars(\/ InExec(Exec!Main) \/ InMonitor(Monitor!Poll)
                  \/ InWatch(Watch!StreamConnects \/ Watch!Tick))
    /\ WF_allVars(\/ InExec(\E c \in Execs : Exec!Reader(c))
                  \/ InWatch(Watch!WatchEvent))
    /\ WF_allVars(\/ InExec(\E c \in x_termed : Exec!ChildExits(c)))
    /\ \A i \in Peers \cup Execs \cup Shutters \cup Waiters :
        WF_allVars(\/ i \in Peers /\ InRouter(Router!Router(i))
                   \/ i \in Execs \cup Shutters /\ InExec(Exec!Handler(i))
                   \/ i \in Waiters /\ InMonitor(Monitor!Wake(i) \/ Monitor!Verify(i)))
    /\ SF_allVars(InMonitor(Monitor!PollReply))

Spec == Init /\ [][Next]_allVars /\ Fairness

-----------------------------------------------------------------------------
(* Properties: those of the components, each for the states in which its   *)
(* component runs.                                                         *)

(* Forward delivers every frame of a stream that no one cuts off           *)
(* (RouterStream).                                                         *)
CleanEnd == Router!CleanEnd

(* No call of the router is left behind (RouterStream).                    *)
AllReturn == Router!AllReturn

(* serve_with leaves no registered child that was not sent SIGTERM         *)
(* (ExecServer).                                                           *)
NoOrphan == Exec!NoOrphan

(* An acknowledged Shutdown ends serve_with (ExecServer).                  *)
ShutdownReturns == Exec!ShutdownReturns

(* A child ends with its client and is waited for (ExecServer).            *)
ChildIsReaped == Exec!ChildIsReaped

(* Tasks that wait for a status return (StatusMonitor).                    *)
WaitersReturn == Monitor!WaitersReturn

(* The exporter of a Status stream is told of its lease (StatusWatch).     *)
LeaseRefIsTold == Watch!LeaseRefIsTold

(* The client leaves no lease of its own behind (ClientLease).             *)
ReleasedOnExit == Client!ReleasedOnExit

(* The end of a lease is noticed within an interval (ClientLease).         *)
EndIsNoticed == Client!EndIsNoticed

=============================================================================
