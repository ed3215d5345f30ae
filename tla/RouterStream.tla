---------------------------- MODULE RouterStream ----------------------------
(***************************************************************************)
(* One stream of the router (router_service.go, router_support.go): the    *)
(* calls of Stream made with tokens for the same stream name.  The first   *)
(* to arrive leaves itself in s.pending and waits; the second takes it     *)
(* from there and forwards both directions until both have ended.          *)
(*                                                                         *)
(* Dial makes two tokens per stream, so there are two peers.  A frame is   *)
(* only its presence: what is lost, and who is told of the end, does not   *)
(* depend on its content.                                                  *)
(***************************************************************************)
EXTENDS Naturals

CONSTANTS
    Peers,       \* the exporter and the client
    MaxFrames,   \* bound: frames a peer sends
    NoPeer

VARIABLES
    conn,        \* the peer's connection: new, open, half closed by the peer, lost
    pending,     \* the entry of the name in s.pending
    pc,          \* the handler of each peer
    first,       \* the peer that a handler has found waiting
    cancelled,   \* handlers whose context the other one has cancelled
    pipes,       \* pipes[p]: how pipe(p, ...) stands: idle, run, nil or err
    sent,        \* frames that a peer has sent
    inbox,       \* frames the router has not read yet
    got          \* frames that were sent on to a peer

vars == <<conn, pending, pc, first, cancelled, pipes, sent, inbox, got>>

Other(p) == CHOOSE q \in Peers : q # p

(* The types of the variables.                                             *)
TypeOK ==
    /\ conn \in [Peers -> {"new", "open", "half", "lost"}]
    /\ pending \in Peers \cup {NoPeer}
    /\ pc \in [Peers -> {"none", "start", "waiting", "loaded", "forward", "returned"}]
    /\ first \in [Peers -> Peers \cup {NoPeer}]
    /\ cancelled \subseteq Peers
    /\ pipes \in [Peers -> {"idle", "run", "nil", "err"}]
    /\ sent \in [Peers -> 0 .. MaxFrames]
    /\ inbox \in [Peers -> 0 .. MaxFrames]
    /\ got \in [Peers -> 0 .. MaxFrames]

Init ==
    /\ conn = [p \in Peers |-> "new"]
    /\ pending = NoPeer
    /\ pc = [p \in Peers |-> "none"]
    /\ first = [p \in Peers |-> NoPeer]
    /\ cancelled = {}
    /\ pipes = [p \in Peers |-> "idle"]
    /\ sent = [p \in Peers |-> 0]
    /\ inbox = sent /\ got = sent

-----------------------------------------------------------------------------
(* The peers                                                               *)

Connect(p) ==
    /\ conn[p] = "new"
    /\ conn' = [conn EXCEPT ![p] = "open"]
    /\ pc' = [pc EXCEPT ![p] = "start"]
    /\ UNCHANGED <<pending, first, cancelled, pipes, sent, inbox, got>>

Send(p) ==
    /\ conn[p] = "open" /\ pc[p] # "returned" /\ sent[p] < MaxFrames
    /\ sent' = [sent EXCEPT ![p] = @ + 1]
    /\ inbox' = [inbox EXCEPT ![p] = @ + 1]
    /\ UNCHANGED <<conn, pending, pc, first, cancelled, pipes, got>>

CloseSend(p) ==
    /\ conn[p] = "open"
    /\ conn' = [conn EXCEPT ![p] = "half"]
    /\ UNCHANGED <<pending, pc, first, cancelled, pipes, sent, inbox, got>>

Lose(p) ==
    /\ conn[p] \in {"open", "half"}
    /\ conn' = [conn EXCEPT ![p] = "lost"]
    /\ UNCHANGED <<pending, pc, first, cancelled, pipes, sent, inbox, got>>

-----------------------------------------------------------------------------
(* Stream                                                                  *)

(* Nobody hears or can be heard over a call that is lost or has returned.  *)
Dead(p) == conn[p] = "lost" \/ pc[p] = "returned"

LoadOrStore(p) ==
    /\ pc[p] = "start"
    /\ IF pending = NoPeer
       THEN /\ pending' = p
            /\ pc' = [pc EXCEPT ![p] = "waiting"]
            /\ UNCHANGED first
       ELSE /\ first' = [first EXCEPT ![p] = pending]
            /\ pc' = [pc EXCEPT ![p] = "loaded"]
            /\ UNCHANGED pending
    /\ UNCHANGED <<conn, cancelled, pipes, sent, inbox, got>>

CompareAndDelete(p) == pending' = IF pending = p THEN NoPeer ELSE pending

(* The second peer removes the entry and starts the two pipes.             *)
Forward(p) ==
    /\ pc[p] = "loaded"
    /\ CompareAndDelete(first[p])
    /\ pipes' = [q \in Peers |-> "run"]
    /\ pc' = [pc EXCEPT ![p] = "forward"]
    /\ UNCHANGED <<conn, first, cancelled, sent, inbox, got>>

(* <-ctx.Done() of the first peer, and the deferred removal.               *)
FirstReturns(p) ==
    /\ pc[p] = "waiting"
    /\ p \in cancelled \/ conn[p] = "lost"
    /\ CompareAndDelete(p)
    /\ pc' = [pc EXCEPT ![p] = "returned"]
    /\ UNCHANGED <<conn, first, cancelled, pipes, sent, inbox, got>>

(* Mutant: the error of Send is not looked at.                             *)
RecvIgnoresError(p) ==
    /\ pipes[p] = "run" /\ inbox[p] > 0
    /\ inbox' = [inbox EXCEPT ![p] = @ - 1]
    /\ got' = IF Dead(Other(p)) THEN got ELSE [got EXCEPT ![Other(p)] = @ + 1]
    /\ UNCHANGED <<conn, pending, pc, first, cancelled, pipes, sent>>

(* One round of pipe(p, q).  What was sent before the peer closed its side *)
(* is read first; a lost connection may discard it.                        *)
Recv(p) ==
    /\ pipes[p] = "run" /\ inbox[p] > 0
    /\ inbox' = [inbox EXCEPT ![p] = @ - 1]
    /\ IF Dead(Other(p))
       THEN pipes' = [pipes EXCEPT ![p] = "err"] /\ UNCHANGED got
       ELSE got' = [got EXCEPT ![Other(p)] = @ + 1] /\ UNCHANGED pipes
    /\ UNCHANGED <<conn, pending, pc, first, cancelled, sent>>

RecvEnds(p) ==
    /\ pipes[p] = "run"
    /\ \/ conn[p] = "half" /\ inbox[p] = 0 /\ pipes' = [pipes EXCEPT ![p] = "nil"]
       \/ Dead(p) /\ pipes' = [pipes EXCEPT ![p] = "err"]
    /\ UNCHANGED <<conn, pending, pc, first, cancelled, sent, inbox, got>>

(* Mutant: Forward returns when the first pipe has ended.                  *)
ForwardReturnsOnFirst(p) ==
    /\ pc[p] = "forward"
    /\ \E q \in Peers : pipes[q] \in {"nil", "err"}
    /\ cancelled' = cancelled \cup {first[p]}
    /\ pc' = [pc EXCEPT ![p] = "returned"]
    /\ UNCHANGED <<conn, pending, first, pipes, sent, inbox, got>>

(* g.Wait(): both pipes have ended.  The deferred first.cancel() ends the  *)
(* first peer's call.                                                      *)
ForwardReturns(p) ==
    /\ pc[p] = "forward"
    /\ \A q \in Peers : pipes[q] \in {"nil", "err"}
    /\ cancelled' = cancelled \cup {first[p]}
    /\ pc' = [pc EXCEPT ![p] = "returned"]
    /\ UNCHANGED <<conn, pending, first, pipes, sent, inbox, got>>

Router(p) ==
    LoadOrStore(p) \/ Forward(p) \/ FirstReturns(p) \/ Recv(p) \/ RecvEnds(p) \/ ForwardReturns(p)

Next == \E p \in Peers : Router(p) \/ Connect(p) \/ Send(p) \/ CloseSend(p) \/ Lose(p)

Spec == Init /\ [][Next]_vars

(* Only the router is fair: a peer may never connect, send or end.         *)
Fairness == \A p \in Peers : WF_vars(Router(p))
FairSpec == Spec /\ Fairness

-----------------------------------------------------------------------------
(* Properties                                                              *)

Met == \E p \in Peers : first[p] # NoPeer

(* Forward keeps one direction going when the other has been closed: as    *)
(* long as no connection is lost, a call returns only after both peers     *)
(* have closed their side, and every frame has reached the other peer.     *)
CleanEnd ==
    (\A p \in Peers : conn[p] # "lost") /\ (\E p \in Peers : pc[p] = "returned")
    => \A p \in Peers : conn[p] = "half" /\ got[Other(p)] = sent[p]

(* No handler is left behind: when both connections are lost, or closed    *)
(* after the peers have met, both calls return and the entry is gone.  A   *)
(* peer whose partner is lost is cut off with its next frame, for which    *)
(* Send fails.  (Until it sends one nothing ends its call: g.Wait() waits  *)
(* for the Recv from it.)                                                  *)
AllReturn ==
    (\/ \A p \in Peers : conn[p] = "lost" \/ (conn[p] = "half" /\ Met)
     \/ Met /\ \E p \in Peers : conn[Other(p)] = "lost" /\ inbox[p] > 0)
    ~> (pending = NoPeer /\ \A p \in Peers : pc[p] = "returned")
=============================================================================
