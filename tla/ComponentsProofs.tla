-------------------------- MODULE ComponentsProofs ---------------------------
(***************************************************************************)
(* Proofs about the components of MCComponents, for every value of their   *)
(* constants.                                                              *)
(***************************************************************************)
EXTENDS MCComponents, TLAPS

-----------------------------------------------------------------------------
(* ExecServer: serve_with leaves no registered child behind.               *)

(* A child that has not been waited for has a handler that will do so,     *)
(* unless Started could not be sent; and the one that waits for a child    *)
(* to end has it signalled already, or the reader will signal it when the  *)
(* client goes.                                                            *)
ChildIsMinded ==
    \A c \in Execs : x_child[c] \in {"alive", "zombie"} =>
      /\ x_th[c] \in {"spawned", "rejected", "registered", "failed", "running", "terminating"}
      /\ x_th[c] = "running" => x_reader[c] \in {"reading", "killing"} \/ c \in x_termed
      /\ x_th[c] = "terminating" => c \in x_termed

(* Once the last snapshot is taken no child is registered any more, and    *)
(* those in it have been signalled or are still to be.  A child is looked  *)
(* after by serve_with or by its handler from the moment it is registered. *)
ExecInv ==
    /\ x_main \in {"leftover", "returned"} => x_shutdown
    /\ \A c \in Execs :
         /\ x_child[c] = "alive" =>
              x_th[c] \in {"spawned", "rejected"} \/ c \in x_children \cup x_termed
         /\ x_th[c] = "reaped" => x_child[c] = "gone"
         /\ c \in x_children => x_th[c] \in {"registered", "running", "reaped", "failed"}
         /\ x_main \in {"leftover", "returned"} /\ c \in x_children /\ x_child[c] = "alive"
              => c \in x_termed \cup x_todo["main"]
         /\ x_main = "returned" => x_todo["main"] = {}
    /\ ChildIsMinded

LEMMA ExecTypeNext == Exec!TypeOK /\ [Exec!Next]_(Exec!vars) => Exec!TypeOK'
<1> SUFFICES ASSUME Exec!TypeOK, [Exec!Next]_(Exec!vars) PROVE Exec!TypeOK'
  OBVIOUS
<1> USE DEF Exec!TypeOK, Exec!Conns
<1>1. CASE UNCHANGED Exec!vars
  BY <1>1, Zenon DEF Exec!vars
<1>2. CASE Exec!is_shutdown
  BY <1>2 DEF Exec!is_shutdown, Exec!Goto, Exec!Up
<1>3. CASE Exec!WouldBlock
  BY <1>3, Zenon DEF Exec!WouldBlock
<1>4. CASE Exec!Return
  BY <1>4, Zenon DEF Exec!Return
<1>5. ASSUME NEW c \in Exec!Conns, Exec!accept(c) PROVE Exec!TypeOK'
  BY <1>5, Zenon DEF Exec!accept, Exec!Goto, Exec!Up
<1>6. ASSUME NEW c \in Execs, Exec!KillLeftover(c) PROVE Exec!TypeOK'
  BY <1>6, Zenon DEF Exec!KillLeftover, Exec!Sigterm, Exec!Up
<1>7. ASSUME NEW c \in Shutters, Exec!Acknowledge(c) PROVE Exec!TypeOK'
  BY <1>7, Zenon DEF Exec!Acknowledge, Exec!Goto, Exec!Up
<1>8. ASSUME NEW c \in Shutters, Exec!RemoveSocket(c) PROVE Exec!TypeOK'
  BY <1>8, Zenon DEF Exec!RemoveSocket, Exec!Goto, Exec!Up
<1>9. ASSUME NEW c \in Shutters, Exec!begin_shutdown(c) PROVE Exec!TypeOK'
  BY <1>9, Zenon DEF Exec!begin_shutdown, Exec!Goto, Exec!Up
<1>10. ASSUME NEW c \in Shutters, Exec!ShutdownDone(c) PROVE Exec!TypeOK'
  BY <1>10, Zenon DEF Exec!ShutdownDone, Exec!Goto, Exec!Up
<1>11. ASSUME NEW c \in Shutters, NEW d \in Execs, Exec!KillChild(c, d) PROVE Exec!TypeOK'
  BY <1>11, Zenon DEF Exec!KillChild, Exec!Sigterm, Exec!Up
<1>12. ASSUME NEW c \in Execs, Exec!Refuse(c) PROVE Exec!TypeOK'
  BY <1>12, Zenon DEF Exec!Refuse, Exec!Goto, Exec!Up
<1>13. ASSUME NEW c \in Execs, Exec!Spawn(c) PROVE Exec!TypeOK'
  BY <1>13, Zenon DEF Exec!Spawn, Exec!Goto, Exec!Up
<1>14. ASSUME NEW c \in Execs, Exec!register_child(c) PROVE Exec!TypeOK'
  BY <1>14 DEF Exec!register_child, Exec!Goto, Exec!Up
<1>15. ASSUME NEW c \in Execs, Exec!SendStarted(c) PROVE Exec!TypeOK'
  BY <1>15, Zenon DEF Exec!SendStarted, Exec!Goto, Exec!Up
<1>16. ASSUME NEW c \in Execs, Exec!Wait(c) PROVE Exec!TypeOK'
  BY <1>16, Zenon DEF Exec!Wait, Exec!Goto, Exec!Up
<1>17. ASSUME NEW c \in Execs, Exec!unregister_child(c) PROVE Exec!TypeOK'
  BY <1>17, Zenon DEF Exec!unregister_child, Exec!Goto, Exec!Up
<1>18. ASSUME NEW c \in Exec!Conns, Exec!Connect(c) PROVE Exec!TypeOK'
  BY <1>18, Zenon DEF Exec!Connect, Exec!Goto, Exec!Up
<1>19. ASSUME NEW c \in Exec!Conns, Exec!Disconnect(c) PROVE Exec!TypeOK'
  BY <1>19, Zenon DEF Exec!Disconnect
<1>20. ASSUME NEW c \in Execs, Exec!ReaderEnds(c) PROVE Exec!TypeOK'
  BY <1>20, Zenon DEF Exec!ReaderEnds
<1>21. ASSUME NEW c \in Execs, Exec!ReaderKills(c) PROVE Exec!TypeOK'
  BY <1>21, Zenon DEF Exec!ReaderKills, Exec!Sigterm, Exec!Up
<1>22. ASSUME NEW c \in Execs, Exec!ChildExits(c) PROVE Exec!TypeOK'
  BY <1>22, Zenon DEF Exec!ChildExits
<1>23. ASSUME NEW c \in Execs, Exec!terminate_child(c) PROVE Exec!TypeOK'
  BY <1>23, Zenon DEF Exec!terminate_child, Exec!Goto, Exec!Sigterm, Exec!Up
<1> QED
  BY <1>1, <1>2, <1>3, <1>4, <1>5, <1>6, <1>7, <1>8, <1>9, <1>10, <1>11, <1>12,
     <1>13, <1>14, <1>15, <1>16, <1>17, <1>18, <1>19, <1>20, <1>21, <1>22, <1>23, Zenon
     DEF Exec!Next, Exec!Main, Exec!Handler, Exec!Reader

LEMMA ExecNext == Exec!TypeOK /\ ExecInv /\ [Exec!Next]_(Exec!vars) => ExecInv'
<1> SUFFICES ASSUME Exec!TypeOK, ExecInv, [Exec!Next]_(Exec!vars) PROVE ExecInv'
  OBVIOUS
<1> USE DEF Exec!TypeOK, Exec!Conns, ExecInv, ChildIsMinded
<1>1. CASE UNCHANGED Exec!vars
  BY <1>1, Zenon DEF Exec!vars
<1>2. CASE Exec!is_shutdown
  BY <1>2, Zenon DEF Exec!is_shutdown, Exec!Goto, Exec!Up
<1>3. CASE Exec!WouldBlock
  BY <1>3, Zenon DEF Exec!WouldBlock
<1>4. CASE Exec!Return
  BY <1>4, Zenon DEF Exec!Return
<1>5. ASSUME NEW c \in Exec!Conns, Exec!accept(c) PROVE ExecInv'
  BY <1>5, Zenon DEF Exec!accept, Exec!Goto, Exec!Up
<1>6. ASSUME NEW c \in Execs, Exec!KillLeftover(c) PROVE ExecInv'
  BY <1>6, Zenon DEF Exec!KillLeftover, Exec!Sigterm, Exec!Up
<1>7. ASSUME NEW c \in Shutters, Exec!Acknowledge(c) PROVE ExecInv'
  BY <1>7, Zenon DEF Exec!Acknowledge, Exec!Goto, Exec!Up
<1>8. ASSUME NEW c \in Shutters, Exec!RemoveSocket(c) PROVE ExecInv'
  BY <1>8, Zenon DEF Exec!RemoveSocket, Exec!Goto, Exec!Up
<1>9. ASSUME NEW c \in Shutters, Exec!begin_shutdown(c) PROVE ExecInv'
  BY <1>9, Zenon DEF Exec!begin_shutdown, Exec!Goto, Exec!Up
<1>10. ASSUME NEW c \in Shutters, Exec!ShutdownDone(c) PROVE ExecInv'
  BY <1>10, Zenon DEF Exec!ShutdownDone, Exec!Goto, Exec!Up
<1>11. ASSUME NEW c \in Shutters, NEW d \in Execs, Exec!KillChild(c, d) PROVE ExecInv'
  BY <1>11, Zenon DEF Exec!KillChild, Exec!Sigterm, Exec!Up
<1>12. ASSUME NEW c \in Execs, Exec!Refuse(c) PROVE ExecInv'
  BY <1>12, Zenon DEF Exec!Refuse, Exec!Goto, Exec!Up
<1>13. ASSUME NEW c \in Execs, Exec!Spawn(c) PROVE ExecInv'
  BY <1>13, Zenon DEF Exec!Spawn, Exec!Goto, Exec!Up
<1>14. ASSUME NEW c \in Execs, Exec!register_child(c) PROVE ExecInv'
  BY <1>14 DEF Exec!register_child, Exec!Goto, Exec!Up
<1>15. ASSUME NEW c \in Execs, Exec!SendStarted(c) PROVE ExecInv'
  BY <1>15 DEF Exec!SendStarted, Exec!Goto, Exec!Up
<1>16. ASSUME NEW c \in Execs, Exec!Wait(c) PROVE ExecInv'
  BY <1>16, Zenon DEF Exec!Wait, Exec!Goto, Exec!Up
<1>17. ASSUME NEW c \in Execs, Exec!unregister_child(c) PROVE ExecInv'
  BY <1>17, Zenon DEF Exec!unregister_child, Exec!Goto, Exec!Up
<1>18. ASSUME NEW c \in Exec!Conns, Exec!Connect(c) PROVE ExecInv'
  BY <1>18, Zenon DEF Exec!Connect, Exec!Goto, Exec!Up
<1>19. ASSUME NEW c \in Exec!Conns, Exec!Disconnect(c) PROVE ExecInv'
  BY <1>19, Zenon DEF Exec!Disconnect
<1>20. ASSUME NEW c \in Execs, Exec!ReaderEnds(c) PROVE ExecInv'
  BY <1>20, Zenon DEF Exec!ReaderEnds
<1>21. ASSUME NEW c \in Execs, Exec!ReaderKills(c) PROVE ExecInv'
  BY <1>21, Zenon DEF Exec!ReaderKills, Exec!Sigterm, Exec!Up
<1>22. ASSUME NEW c \in Execs, Exec!ChildExits(c) PROVE ExecInv'
  BY <1>22, Zenon DEF Exec!ChildExits
<1>23. ASSUME NEW c \in Execs, Exec!terminate_child(c) PROVE ExecInv'
  BY <1>23, Zenon DEF Exec!terminate_child, Exec!Goto, Exec!Sigterm, Exec!Up
<1> QED
  BY <1>1, <1>2, <1>3, <1>4, <1>5, <1>6, <1>7, <1>8, <1>9, <1>10, <1>11, <1>12,
     <1>13, <1>14, <1>15, <1>16, <1>17, <1>18, <1>19, <1>20, <1>21, <1>22, <1>23, Zenon
     DEF Exec!Next, Exec!Main, Exec!Handler, Exec!Reader

LEMMA ExecInit == Exec!Init => Exec!TypeOK /\ ExecInv
  BY Zenon DEF Exec!Init, Exec!TypeOK, Exec!Conns, ExecInv, ChildIsMinded

(* When serve_with has returned, every registered child that still runs    *)
(* was sent SIGTERM; one that was not is still between spawn and the kill  *)
(* of terminate_child.                                                     *)
THEOREM ServerLeavesNoOrphan == Exec!Spec => []NoOrphan
<1>1. ExecInv => NoOrphan
  BY Zenon DEF ExecInv, NoOrphan, Exec!NoOrphan
<1> QED BY <1>1, ExecInit, ExecTypeNext, ExecNext, PTL DEF Exec!Spec

(* No child is forgotten while the server runs, in whatever order client,  *)
(* child, Shutdown and the two threads of the call come to their end: what *)
(* ChildIsReaped needs besides fairness.                                   *)
THEOREM ServerMindsChildren == Exec!Spec => []ChildIsMinded
<1>1. ExecInv => ChildIsMinded
  BY Zenon DEF ExecInv
<1> QED BY <1>1, ExecInit, ExecTypeNext, ExecNext, PTL DEF Exec!Spec

-----------------------------------------------------------------------------
(* RouterStream: Forward delivers what it reads.                           *)

RouterClean == \A p \in Peers : r_conn[p] # "lost"
RouterOver == \E p \in Peers : r_pc[p] = "returned"

(* A call that waits to be found is in s.pending, or has been found by one *)
(* that will cancel it or has done so; an entry in s.pending is that of a  *)
(* call that waits; and one that forwards has both pipes at work or ended. *)
NobodyWaitsInVain ==
    \A p \in Peers :
      /\ r_pc[p] = "waiting" =>
           \/ r_pending = p \/ p \in r_cancelled
           \/ \E q \in Peers : r_first[q] = p /\ r_pc[q] \in {"loaded", "forward"}
      /\ r_pending = p => r_pc[p] = "waiting"
      /\ r_pc[p] = "forward" => \A q \in Peers : r_pipes[q] # "idle"

(* Two peers meet once.  The pipes start then, and while no connection is  *)
(* lost they end only with their peer's side closed and nothing left to    *)
(* read; the first call to return does so after both.                      *)
RouterMeets ==
    /\ \A p \in Peers :
         /\ r_conn[p] = "new" => r_pc[p] = "none"
         /\ r_pc[p] \in {"loaded", "forward"} => r_first[p] \in Peers
         /\ r_pc[p] = "loaded" => \A q \in Peers : /\ r_pipes[q] = "idle"
                                                   /\ q # p => r_pc[q] \in {"waiting", "returned"}
         /\ r_pipes[p] # "idle" => \A q \in Peers : r_pc[q] \in {"waiting", "forward", "returned"}
    /\ r_cancelled # {} => RouterOver
    /\ NobodyWaitsInVain
RouterDelivers ==
    \A p \in Peers :
      /\ r_got[Router!Other(p)] + r_inbox[p] <= r_sent[p]
      /\ RouterClean =>
           /\ r_got[Router!Other(p)] + r_inbox[p] = r_sent[p]
           /\ r_pipes[p] # "err"
           /\ r_pipes[p] = "nil" => r_conn[p] = "half" /\ r_inbox[p] = 0
           /\ RouterOver => r_pipes[p] = "nil"
RouterInv == Router!TypeOK /\ RouterMeets /\ RouterDelivers

LEMMA OtherPeer ==
    ASSUME NEW p \in Peers
    PROVE  /\ Router!Other(p) \in Peers /\ Router!Other(p) # p
           /\ \A q \in Peers : q # p => q = Router!Other(p)
           /\ Router!Other(Router!Other(p)) = p
<1>1. PICK a \in Peers, b \in Peers : a # b /\ Peers = {a, b}
  BY ComponentsAssumption, Zenon
<1>2. \A x \in Peers : Router!Other(x) \in Peers /\ Router!Other(x) # x
  BY <1>1, Zenon DEF Router!Other
<1> QED BY <1>1, <1>2, Zenon

LEMMA RouterTypeNext == RouterInv /\ [Router!Next]_(Router!vars) => Router!TypeOK'
<1> SUFFICES ASSUME RouterInv, [Router!Next]_(Router!vars) PROVE Router!TypeOK'
  OBVIOUS
<1> USE DEF RouterInv, Router!TypeOK
<1>1. CASE UNCHANGED Router!vars
  BY <1>1, Zenon DEF Router!vars
<1>2. ASSUME NEW p \in Peers, Router!LoadOrStore(p) PROVE Router!TypeOK'
  BY <1>2 DEF Router!LoadOrStore
<1>3. ASSUME NEW p \in Peers, Router!Forward(p) PROVE Router!TypeOK'
  BY <1>3, Zenon DEF Router!Forward, Router!CompareAndDelete
<1>4. ASSUME NEW p \in Peers, Router!FirstReturns(p) PROVE Router!TypeOK'
  BY <1>4, Zenon DEF Router!FirstReturns, Router!CompareAndDelete
<1>5. ASSUME NEW p \in Peers, Router!Recv(p) PROVE Router!TypeOK'
  <2>1. /\ Router!Other(p) \in Peers /\ r_got[Router!Other(p)] + r_inbox[p] <= r_sent[p]
        /\ r_inbox[p] \in Nat /\ r_inbox[p] > 0 /\ r_got[Router!Other(p)] \in Nat
        /\ r_sent[p] \in Nat /\ r_sent[p] <= MaxFrames /\ r_inbox[p] <= MaxFrames
    BY <1>5, OtherPeer, ComponentsAssumption DEF RouterDelivers, Router!Recv
  <2>2. r_inbox[p] - 1 \in 0 .. MaxFrames /\ r_got[Router!Other(p)] + 1 \in 0 .. MaxFrames
    BY <2>1, ComponentsAssumption
  <2> QED BY <1>5, <2>1, <2>2, Zenon DEF Router!Recv
<1>6. ASSUME NEW p \in Peers, Router!RecvEnds(p) PROVE Router!TypeOK'
  BY <1>6, Zenon DEF Router!RecvEnds
<1>7. ASSUME NEW p \in Peers, Router!ForwardReturns(p) PROVE Router!TypeOK'
  BY <1>7 DEF Router!ForwardReturns, RouterMeets
<1>8. ASSUME NEW p \in Peers, Router!Connect(p) PROVE Router!TypeOK'
  BY <1>8, Zenon DEF Router!Connect
<1>9. ASSUME NEW p \in Peers, Router!Send(p) PROVE Router!TypeOK'
  <2>1. /\ r_inbox[p] \in Nat /\ r_sent[p] \in Nat /\ r_got[Router!Other(p)] \in Nat
        /\ r_inbox[p] <= r_sent[p] /\ r_sent[p] < MaxFrames
    BY <1>9, OtherPeer, ComponentsAssumption DEF RouterDelivers, Router!Send
  <2>2. r_sent[p] + 1 \in 0 .. MaxFrames /\ r_inbox[p] + 1 \in 0 .. MaxFrames
    BY <2>1, ComponentsAssumption
  <2> QED BY <1>9, <2>2, Zenon DEF Router!Send
<1>10. ASSUME NEW p \in Peers, Router!CloseSend(p) \/ Router!Lose(p) PROVE Router!TypeOK'
  BY <1>10, Zenon DEF Router!CloseSend, Router!Lose
<1> QED
  BY <1>1, <1>2, <1>3, <1>4, <1>5, <1>6, <1>7, <1>8, <1>9, <1>10, Zenon DEF Router!Next, Router!Router

LEMMA RouterMeetsNext == RouterInv /\ [Router!Next]_(Router!vars) => RouterMeets'
<1> SUFFICES ASSUME RouterInv, [Router!Next]_(Router!vars) PROVE RouterMeets'
  OBVIOUS
<1> USE DEF RouterInv, Router!TypeOK, RouterMeets, RouterOver, NobodyWaitsInVain
<1>1. CASE UNCHANGED Router!vars
  BY <1>1 DEF Router!vars
<1>2. ASSUME NEW p \in Peers, Router!LoadOrStore(p) PROVE RouterMeets'
  BY <1>2, ComponentsAssumption DEF Router!LoadOrStore
<1>3. ASSUME NEW p \in Peers, Router!Forward(p) PROVE RouterMeets'
  BY <1>3, ComponentsAssumption DEF Router!Forward, Router!CompareAndDelete
<1>4. ASSUME NEW p \in Peers, Router!FirstReturns(p) PROVE RouterMeets'
  BY <1>4, ComponentsAssumption DEF Router!FirstReturns, Router!CompareAndDelete
<1>5. ASSUME NEW p \in Peers, Router!Recv(p) PROVE RouterMeets'
  BY <1>5 DEF Router!Recv
<1>6. ASSUME NEW p \in Peers, Router!RecvEnds(p) PROVE RouterMeets'
  BY <1>6, SMTT(30) DEF Router!RecvEnds
<1>7. ASSUME NEW p \in Peers, Router!ForwardReturns(p) PROVE RouterMeets'
  BY <1>7 DEF Router!ForwardReturns
<1>8. ASSUME NEW p \in Peers, Router!Connect(p) PROVE RouterMeets'
  BY <1>8 DEF Router!Connect
<1>9. ASSUME NEW p \in Peers, Router!Send(p) \/ Router!CloseSend(p) \/ Router!Lose(p)
      PROVE  RouterMeets'
  BY <1>9 DEF Router!Send, Router!CloseSend, Router!Lose
<1> QED
  BY <1>1, <1>2, <1>3, <1>4, <1>5, <1>6, <1>7, <1>8, <1>9, Zenon DEF Router!Next, Router!Router

(* What a step leaves of the two sides of a stream.                        *)
LEMMA RouterDeliversNext == RouterInv /\ [Router!Next]_(Router!vars) => RouterDelivers'
<1> SUFFICES ASSUME RouterInv, [Router!Next]_(Router!vars) PROVE RouterDelivers'
  OBVIOUS
<1> USE DEF RouterInv, RouterDelivers, RouterOver, RouterClean
<1>0. \A p \in Peers : /\ Router!Other(p) \in Peers
                       /\ r_got[Router!Other(p)] \in Int /\ r_inbox[p] \in Int /\ r_sent[p] \in Int
  BY OtherPeer, ComponentsAssumption DEF Router!TypeOK
<1>1. CASE UNCHANGED Router!vars
  BY <1>1, Zenon DEF Router!vars, Router!Other
<1>2. ASSUME NEW p \in Peers, Router!LoadOrStore(p) \/ Router!Connect(p) PROVE RouterDelivers'
  BY <1>2 DEF Router!LoadOrStore, Router!Connect, Router!TypeOK, Router!Other
<1>3. ASSUME NEW p \in Peers, Router!Forward(p) PROVE RouterDelivers'
  BY <1>3 DEF Router!Forward, Router!TypeOK, RouterMeets, Router!Other
<1>4. ASSUME NEW p \in Peers, Router!FirstReturns(p) PROVE RouterDelivers'
  BY <1>4 DEF Router!FirstReturns, Router!TypeOK, RouterMeets, Router!Other
<1>5. ASSUME NEW p \in Peers, Router!Recv(p) PROVE RouterDelivers'
  <2> DEFINE o == Router!Other(p)
  <2>1. o \in Peers /\ o # p /\ Router!Other(o) = p /\ \A q \in Peers : q = p \/ q = o
    BY OtherPeer, Zenon
  <2>2. /\ UNCHANGED <<r_conn, r_pc, r_sent>> /\ r_pipes[p] = "run" /\ r_pipes'[o] = r_pipes[o]
        /\ r_inbox[p] > 0 /\ r_inbox'[p] = r_inbox[p] - 1 /\ r_inbox'[o] = r_inbox[o]
        /\ r_got'[p] = r_got[p]
    BY <1>5, <2>1 DEF Router!Recv, Router!TypeOK
  <2>3. \/ Router!Dead(o) /\ r_got'[o] = r_got[o]
        \/ ~Router!Dead(o) /\ r_got'[o] = r_got[o] + 1 /\ r_pipes' = r_pipes
    BY <1>5, <2>1 DEF Router!Recv, Router!TypeOK
  <2>4. RouterClean => ~Router!Dead(o)
    BY <2>1, <2>2, Zenon DEF Router!Dead
  <2> HIDE DEF o
  <2>5. r_got[o] \in Int /\ r_inbox[p] \in Int /\ r_sent[p] \in Int /\ r_got[p] \in Int
        /\ r_inbox[o] \in Int /\ r_sent[o] \in Int
    BY <1>0, <2>1, OtherPeer, ComponentsAssumption, SMTT(30) DEF Router!TypeOK
  <2>6. /\ r_got'[o] + r_inbox'[p] <= r_sent'[p]
        /\ RouterClean => r_got'[o] + r_inbox'[p] = r_sent'[p] /\ r_pipes' = r_pipes
    <3>1. /\ r_got[o] + r_inbox[p] <= r_sent[p]
          /\ RouterClean => r_got[o] + r_inbox[p] = r_sent[p]
      BY Zenon DEF o
    <3> QED BY <2>2, <2>3, <2>4, <2>5, <3>1
  <2>7. /\ r_got'[p] + r_inbox'[o] <= r_sent'[o]
        /\ RouterClean => r_got'[p] + r_inbox'[o] = r_sent'[o]
    BY <2>1, <2>2, Zenon
  <2>8. RouterClean' => /\ RouterClean /\ ~RouterOver
                        /\ \A q \in Peers : /\ r_pipes'[q] # "err"
                                            /\ r_pipes'[q] = "nil" => r_conn'[q] = "half" /\ r_inbox'[q] = 0
    BY <2>1, <2>2, <2>6, Zenon
  <2>9. \A q \in Peers : /\ r_got'[Router!Other(q)] + r_inbox'[q] <= r_sent'[q]
                         /\ RouterClean => r_got'[Router!Other(q)] + r_inbox'[q] = r_sent'[q]
    BY <2>1, <2>6, <2>7, Zenon DEF o
  <2>10. RouterOver' => RouterOver
    BY <2>2, Zenon
  <2>11. \A q \in Peers : RouterClean' =>
           /\ r_got'[Router!Other(q)] + r_inbox'[q] = r_sent'[q]
           /\ r_pipes'[q] # "err"
           /\ r_pipes'[q] = "nil" => r_conn'[q] = "half" /\ r_inbox'[q] = 0
           /\ RouterOver' => r_pipes'[q] = "nil"
    BY <2>8, <2>9, <2>10, Zenon
  <2> QED BY <2>9, <2>11, Zenon DEF Router!Other
<1>6. ASSUME NEW p \in Peers, Router!RecvEnds(p) PROVE RouterDelivers'
  BY <1>6 DEF Router!RecvEnds, Router!TypeOK, Router!Dead, Router!Other
<1>7. ASSUME NEW p \in Peers, Router!ForwardReturns(p) PROVE RouterDelivers'
  BY <1>7 DEF Router!ForwardReturns, Router!TypeOK, Router!Other
<1>8. ASSUME NEW p \in Peers, Router!Send(p) PROVE RouterDelivers'
  <2>1. /\ UNCHANGED <<r_conn, r_pc, r_pipes, r_got>> /\ r_conn[p] = "open"
        /\ r_sent'[p] = r_sent[p] + 1 /\ r_inbox'[p] = r_inbox[p] + 1
        /\ \A q \in Peers \ {p} : r_sent'[q] = r_sent[q] /\ r_inbox'[q] = r_inbox[q]
    BY <1>8, Zenon DEF Router!Send, Router!TypeOK
  <2>2. \A q \in Peers : /\ r_got'[Router!Other(q)] + r_inbox'[q] <= r_sent'[q]
                         /\ RouterClean => r_got'[Router!Other(q)] + r_inbox'[q] = r_sent'[q]
    BY <1>0, <2>1
  <2> QED BY <2>1, <2>2, Zenon DEF Router!Other
<1>9. ASSUME NEW p \in Peers, Router!CloseSend(p) \/ Router!Lose(p) PROVE RouterDelivers'
  BY <1>9 DEF Router!CloseSend, Router!Lose, Router!TypeOK, Router!Other
<1> QED
  BY <1>1, <1>2, <1>3, <1>4, <1>5, <1>6, <1>7, <1>8, <1>9, Zenon DEF Router!Next, Router!Router

LEMMA RouterInvariant == Router!Spec => []RouterInv
<1>1. Router!Init => RouterInv
  BY OtherPeer, ComponentsAssumption
     DEF Router!Init, Router!TypeOK, RouterInv, RouterMeets, RouterDelivers, RouterOver, RouterClean,
         NobodyWaitsInVain
<1>2. RouterInv /\ [Router!Next]_(Router!vars) => RouterInv'
  BY RouterTypeNext, RouterMeetsNext, RouterDeliversNext, Zenon DEF RouterInv
<1> QED BY <1>1, <1>2, PTL DEF Router!Spec

(* As long as no connection is lost, a call of the router returns only     *)
(* after both peers have closed their side, and every frame has reached    *)
(* the other peer.                                                         *)
THEOREM RouterEndsCleanly == Router!Spec => []CleanEnd
<1>2. RouterInv => CleanEnd
  <2> SUFFICES ASSUME RouterInv, RouterClean, RouterOver, NEW p \in Peers
               PROVE  r_conn[p] = "half" /\ r_got[Router!Other(p)] = r_sent[p]
    BY Zenon DEF CleanEnd, Router!CleanEnd, RouterClean, RouterOver
  <2>1. /\ r_got[Router!Other(p)] + r_inbox[p] = r_sent[p] /\ r_inbox[p] = 0 /\ r_conn[p] = "half"
        /\ r_got[Router!Other(p)] \in Int
    BY OtherPeer, ComponentsAssumption DEF RouterInv, RouterDelivers, Router!TypeOK
  <2> QED BY <2>1
<1> QED BY <1>2, RouterInvariant, PTL

(* No call of Stream waits for a partner who has been there and will not   *)
(* come again, and no entry of s.pending outlives its call: what AllReturn *)
(* needs besides fairness.                                                 *)
THEOREM RouterPairsCalls == Router!Spec => []NobodyWaitsInVain
<1>1. RouterInv => NobodyWaitsInVain
  BY Zenon DEF RouterInv, RouterMeets
<1> QED BY <1>1, RouterInvariant, PTL

-----------------------------------------------------------------------------
(* ClientLease: leases are released, and their end is noticed.             *)

(* The monitor starts with the use of the lease, and until it has told of  *)
(* the end it wakes up soon: at most an interval from now, at most a tick  *)
(* after the end it last heard of, and, if no call has failed, at most an  *)
(* interval and a tick after the end of the lease, even when that has been *)
(* moved since.                                                            *)
ClientMonitors ==
    /\ c_pc \in {"start", "creating", "created", "acquiring"} => c_last = None /\ ~c_lease_ended
    /\ c_pc = "using" => c_lease.phase \in {"ready", "ended"}
    /\ c_pc = "using" /\ ~c_lease_ended =>
         /\ c_wake # None
         /\ c_wake <= c_clock + Interval /\ c_clock <= c_wake + Latency
         /\ c_last # None => /\ c_wake <= c_last + 1
                             /\ c_faults = 0 => c_wake <= c_lease.end + Interval + 1
ClientInv == Client!TypeOK /\ ClientMonitors /\ ReleasedOnExit

LEMMA ClientSleep ==
    ASSUME Client!TypeOK, NEW t \in Int, Client!Sleep(t)
    PROVE  c_wake' = c_clock + 1 \/ (t >= 1 /\ c_wake' = c_clock + t)
BY DEF Client!TypeOK, Client!Sleep

LEMMA ClientSleepRemain ==
    ASSUME Client!TypeOK, NEW t \in Nat, Client!SleepRemain(t)
    PROVE  /\ c_wake' \in Nat /\ c_wake' # None /\ c_wake' \in 0 .. MaxTime + Interval
           /\ c_wake' > c_clock /\ c_wake' <= c_clock + Interval
           /\ c_wake' <= c_clock + t \/ (t = 0 /\ c_wake' = c_clock + 1)
<1>1. PICK m \in Int : m = Client!Soonest(t, Interval) /\ Client!Sleep(m)
  BY ComponentsAssumption DEF Client!SleepRemain, Client!Soonest
<1>2. m <= t /\ m <= Interval /\ (m = t \/ m = Interval)
  BY <1>1, ComponentsAssumption DEF Client!Soonest
<1>3. c_wake' = c_clock + 1 \/ (m >= 1 /\ c_wake' = c_clock + m)
  BY <1>1, ClientSleep, Zenon
<1>4. c_clock \in Nat /\ c_clock <= MaxTime
  BY ComponentsAssumption DEF Client!TypeOK
<1>5. /\ c_wake' \in Nat /\ c_wake' > c_clock /\ c_wake' <= c_clock + Interval
      /\ c_wake' <= c_clock + t \/ (t = 0 /\ c_wake' = c_clock + 1)
      /\ c_wake' \in 0 .. MaxTime + Interval
  BY <1>1, <1>2, <1>3, <1>4, ComponentsAssumption
<1> QED BY <1>5, ComponentsAssumption, Zenon

LEMMA LaterWake ==
    ASSUME NEW t \in 0 .. MaxTime, NEW w \in 0 .. MaxTime + Interval, w > t
    PROVE  /\ w # None /\ t <= w + Latency
           /\ \A e \in 0 .. MaxTime : w <= e + 1 => w <= e + Interval + 1
<1>1. t \in Nat /\ w \in Nat /\ Interval \in Nat /\ Latency \in Nat /\ w # None
  BY ComponentsAssumption
<1> QED BY <1>1

LEMMA ClientNext == ClientInv /\ [Client!Next]_(Client!vars) => ClientInv'
<1> SUFFICES ASSUME ClientInv, [Client!Next]_(Client!vars) PROVE ClientInv'
  OBVIOUS
<1> USE DEF ClientInv, Client!TypeOK, ClientMonitors, ReleasedOnExit, Client!ReleasedOnExit,
            Client!Active, Client!Lease, Client!Phases, Client!counts, Client!monitor
<1>0. MaxTime \in Nat /\ Interval \in Nat /\ Latency \in Nat /\ None \notin 0 .. MaxTime + Interval
  BY ComponentsAssumption, Zenon
<1>1. CASE UNCHANGED Client!vars
  BY <1>1 DEF Client!vars
<1>2. CASE Client!request_async
  <2>1. /\ c_pc = "start" /\ c_wake = None
        /\ UNCHANGED <<c_release, c_clock, c_wake, c_last, c_lease_ended, c_faults, c_changes>>
    BY <1>2, Zenon DEF Client!request_async
  <2>2. CASE UNCHANGED <<c_lease, c_own, c_name>>
    <3>1. c_pc' \in {"creating", "acquiring"} \/ (c_pc' = IF c_release /\ c_name THEN "leaving" ELSE "done")
      BY <1>2, <2>2, Zenon DEF Client!request_async, Client!Goto, Client!Leave
    <3> QED BY <2>1, <2>2, <3>1
  <2>3. CASE /\ c_name' = FALSE /\ c_own' = "yes" /\ c_lease' = [phase |-> "none", end |-> 0]
             /\ c_pc' = "creating"
    <3>1. c_lease' \in Client!Lease
      BY <2>3, ComponentsAssumption
    <3> QED BY <2>1, <2>3, <3>1, Zenon
  <2> QED BY <1>2, <2>2, <2>3, Zenon DEF Client!request_async, Client!Goto
<1>3. CASE Client!CreateLease
  BY <1>3, SMTT(30) DEF Client!CreateLease, Client!Goto
<1>4. CASE Client!_create
  BY <1>4, Zenon DEF Client!_create, Client!Goto
<1>5. CASE Client!_acquire
  BY <1>5, ComponentsAssumption, SMTT(30) DEF Client!_acquire, Client!Goto, Client!Leave
<1>6. CASE Client!GiveUp \/ Client!AcquisitionTimesOut
  BY <1>6 DEF Client!GiveUp, Client!AcquisitionTimesOut, Client!Goto, Client!Leave
<1>7. CASE Client!MonitorGets
  <2>1. /\ c_pc = "using" /\ c_wake # None /\ c_last' = c_lease.end
        /\ UNCHANGED <<c_lease, c_own, c_name, c_release, c_pc, c_clock, c_faults, c_changes>>
    BY <1>7, Zenon DEF Client!MonitorGets, Client!Due
  <2>2. c_lease.end \in 0 .. MaxTime /\ c_clock \in 0 .. MaxTime
    OBVIOUS
  <2>3. CASE c_lease_ended' = TRUE /\ c_wake' = None
    BY <2>1, <2>2, <2>3, Zenon
  <2>4. CASE c_lease.end >= c_clock /\ Client!SleepRemain(c_lease.end - c_clock) /\ UNCHANGED c_lease_ended
    <3>1. c_lease.end - c_clock \in Nat
      BY <2>2, <2>4, ComponentsAssumption
    <3>2. /\ c_wake' # None /\ c_wake' \in 0 .. MaxTime + Interval
          /\ c_wake' > c_clock /\ c_wake' <= c_clock + Interval /\ c_wake' <= c_lease.end + 1
      BY <2>2, <2>4, <3>1, ClientSleepRemain, ComponentsAssumption
    <3>3. Client!TypeOK' /\ ReleasedOnExit'
      BY <2>1, <2>2, <2>4, <3>2, Zenon
    <3>4. c_clock <= c_wake' + Latency /\ c_wake' <= c_lease.end + Interval + 1
      BY <2>2, <3>2, LaterWake, Zenon
    <3>5. ClientMonitors'
      BY <2>1, <2>4, <3>2, <3>4, Zenon
    <3> QED BY <3>3, <3>5, Zenon
  <2>5. ~(c_lease.end < c_clock) => c_lease.end >= c_clock
    BY <1>0, <2>2, SMTT(30)
  <2> QED BY <1>7, <2>3, <2>4, <2>5, Zenon DEF Client!MonitorGets, Client!_notify_lease_ending
<1>8. CASE Client!MonitorFails
  <2>1. /\ c_pc = "using" /\ c_wake # None
        /\ UNCHANGED <<c_lease, c_own, c_name, c_release, c_pc, c_clock, c_last, c_changes>>
    BY <1>8, Zenon DEF Client!MonitorFails, Client!Due
  <2>2. c_clock \in 0 .. MaxTime /\ c_faults' \in 0 .. MaxFaults /\ c_faults' # 0
    BY <1>8, ComponentsAssumption, SMTT(30) DEF Client!MonitorFails, Client!Fault
  <2>3. CASE c_lease_ended' = TRUE /\ c_wake' = None
    BY <2>1, <2>2, <2>3, Zenon
  <2>4. CASE c_last = None /\ Client!Sleep(Interval) /\ UNCHANGED c_lease_ended
    <3>1. c_wake' = c_clock + 1 \/ c_wake' = c_clock + Interval
      BY <2>4, ClientSleep, ComponentsAssumption
    <3>2. c_wake' \in 0 .. MaxTime + Interval /\ c_wake' > c_clock /\ c_wake' <= c_clock + Interval
      BY <2>2, <3>1, ComponentsAssumption
    <3>3. Client!TypeOK' /\ ReleasedOnExit'
      BY <2>1, <2>2, <2>4, <3>2, Zenon
    <3>4. c_clock <= c_wake' + Latency /\ c_wake' # None
      BY <2>2, <3>2, LaterWake, Zenon
    <3>5. ClientMonitors'
      BY <2>1, <2>2, <2>4, <3>2, <3>4, SMTT(30)
    <3> QED BY <3>3, <3>5, Zenon
  <2>5. CASE /\ c_last # None /\ ~(c_last <= c_clock) /\ Client!SleepRemain(c_last - c_clock)
             /\ UNCHANGED c_lease_ended
    <3>1. c_last \in 0 .. MaxTime /\ c_last - c_clock \in Nat
      BY <2>2, <2>5, ComponentsAssumption
    <3>2. /\ c_wake' # None /\ c_wake' \in 0 .. MaxTime + Interval
          /\ c_wake' > c_clock /\ c_wake' <= c_clock + Interval /\ c_wake' <= c_last + 1
      BY <2>2, <2>5, <3>1, ClientSleepRemain, ComponentsAssumption
    <3>3. Client!TypeOK' /\ ReleasedOnExit'
      BY <2>1, <2>2, <2>5, <3>2, Zenon
    <3>4. c_clock <= c_wake' + Latency
      BY <2>2, <3>2, LaterWake, SMTT(30)
    <3>5. ClientMonitors'
      BY <2>1, <2>2, <2>5, <3>2, <3>4, Zenon
    <3> QED BY <3>3, <3>5, Zenon
  <2> QED BY <1>8, <2>3, <2>4, <2>5, Zenon DEF Client!MonitorFails, Client!_notify_lease_ending
<1>9. CASE Client!UseEnds
  BY <1>9, Zenon DEF Client!UseEnds, Client!Goto, Client!Leave
<1>10. CASE Client!Cleanup
  BY <1>10 DEF Client!Cleanup, Client!CleanupGets, Client!CleanupDeletes, Client!Goto
<1>11. ASSUME NEW p \in {"ready", "unsatisfiable", "invalid"}, NEW d \in Durations,
              Client!LeaseSettles(p, d)
       PROVE  ClientInv'
  BY <1>11, ComponentsAssumption DEF Client!LeaseSettles, Client!Soonest
<1>12. ASSUME NEW d \in Durations, Client!LeaseChanges(d) PROVE ClientInv'
  BY <1>12, ComponentsAssumption DEF Client!LeaseChanges, Client!Change
<1>13. CASE Client!LeaseEnds
  BY <1>13, ComponentsAssumption DEF Client!LeaseEnds, Client!Change, Client!Soonest
<1>14. CASE Client!Tick
  BY <1>14, ComponentsAssumption DEF Client!Tick
<1> QED
  BY <1>1, <1>2, <1>3, <1>4, <1>5, <1>6, <1>7, <1>8, <1>9, <1>10, <1>11, <1>12, <1>13, <1>14, Zenon
     DEF Client!Next, Client!Request

LEMMA ClientInit == Client!Init => ClientInv
<1> SUFFICES ASSUME Client!Init PROVE ClientInv
  OBVIOUS
<1>1. /\ 0 \in 0 .. MaxTime /\ 0 \in 0 .. MaxFaults /\ 0 \in 0 .. MaxChanges
      /\ Durations \subseteq 0 .. MaxTime
  BY ComponentsAssumption
<1>2. c_lease \in Client!Lease
  <2>1. CASE c_name
    BY <1>1, <2>1, Zenon DEF Client!Init, Client!Lease, Client!Phases
  <2>2. CASE ~c_name
    BY <1>1, <2>2, SMTT(30) DEF Client!Init, Client!Lease, Client!Phases
  <2> QED BY <2>1, <2>2, Zenon
<1>3. c_own \in {"yes", "selector", "client"}
  BY Zenon DEF Client!Init
<1>4. Client!TypeOK
  <2>1. c_name \in BOOLEAN /\ c_release \in BOOLEAN
    BY Zenon DEF Client!Init
  <2> QED BY <1>1, <1>2, <1>3, <2>1, Zenon DEF Client!Init, Client!TypeOK
<1>5. ClientMonitors /\ ReleasedOnExit
  BY Zenon DEF Client!Init, ClientMonitors, ReleasedOnExit, Client!ReleasedOnExit
<1> QED BY <1>4, <1>5, Zenon DEF ClientInv

(* A lease that the client made and learned the name of is not left        *)
(* behind, however the client came to leave, unless its cleanup failed.    *)
THEOREM ClientReleasesLease == Client!Spec => []ReleasedOnExit
<1>1. ClientInv => ReleasedOnExit
  BY Zenon DEF ClientInv
<1> QED BY <1>1, ClientInit, ClientNext, PTL DEF Client!Spec

(* The user is told that the end the monitor last heard of has passed one  *)
(* call after it at the latest; if no call fails, the end of the lease is  *)
(* noticed within an interval, the time of a call and a tick.              *)
THEOREM ClientNoticesEnd == Client!Spec => []EndIsNoticed
<1>1. ClientInv => EndIsNoticed
  BY ComponentsAssumption
     DEF ClientInv, Client!TypeOK, Client!Lease, ClientMonitors, EndIsNoticed, Client!EndIsNoticed
<1> QED BY <1>1, ClientInit, ClientNext, PTL DEF Client!Spec

-----------------------------------------------------------------------------
(* StatusMonitor: nobody sleeps through a change.                          *)

(* A task that waits has an event to wake it; or the monitor was stopped,  *)
(* which wakes nobody; or the status is not one it waits for and the poll  *)
(* loop, which would tell of another one, runs.                            *)
WaiterIsUpToDate ==
    \A w \in Waiters : m_pc[w] = "waiting" =>
      \/ m_seen[w] < m_event
      \/ m_stop
      \/ /\ m_running /\ m_loop \in {"call", "sleep"}
         /\ m_current \notin ShellTargets[w]

(* The loop runs while running is set, and a connection is found lost only *)
(* when it has given up.                                                   *)
MonitorInv ==
    /\ m_event \in Nat /\ m_seen \in [Waiters -> Nat]
    /\ DOMAIN m_pc = Waiters
    /\ m_running \in BOOLEAN
    /\ m_running => m_loop \in {"call", "sleep"} /\ ~m_lost /\ ~m_stop
    /\ m_loop = "off" => ~m_lost /\ ~m_stop
    /\ \A w \in Waiters :
         /\ m_pc[w] \in {"verify", "waiting"} => m_loop # "off"
         /\ m_pc[w] = "verify" => ~m_running
         /\ m_pc[w] = "waiting" => m_seen[w] <= m_event
    /\ WaiterIsUpToDate

(* A step that sets the event wakes all who wait.                          *)
LEMMA MonitorTells ==
    ASSUME MonitorInv, m_event' = m_event + 1, UNCHANGED <<m_pc, m_seen>>
    PROVE  /\ m_event' \in Nat /\ m_seen' \in [Waiters -> Nat] /\ DOMAIN m_pc' = Waiters
           /\ \A w \in Waiters : m_pc'[w] = "waiting" => m_seen'[w] < m_event'
BY DEF MonitorInv

(* A step of one waiter.                                                   *)
LEMMA MonitorWaits ==
    ASSUME MonitorInv, NEW w \in Waiters, NEW cur, NEW isLost,
           Monitor!WaitLoop(w, cur, isLost), m_loop # "off",
           UNCHANGED <<m_event, m_running, m_stop, m_loop>>,
           m_running => cur = m_current /\ UNCHANGED m_current,
           m_lost' => m_lost
    PROVE  MonitorInv'
<1>1. /\ m_seen' \in [Waiters -> Nat] /\ DOMAIN m_pc' = Waiters
      /\ \A v \in Waiters \ {w} : m_pc'[v] = m_pc[v] /\ m_seen'[v] = m_seen[v]
  BY DEF MonitorInv, Monitor!WaitLoop
<1>2. \/ /\ m_running /\ ~isLost /\ ~(cur \in ShellTargets[w])
         /\ m_pc'[w] = "waiting" /\ m_seen'[w] = m_event
      \/ m_pc'[w] \in {"reached", "not"}
  BY DEF MonitorInv, Monitor!WaitLoop, Monitor!Reached
<1>3. \A v \in Waiters \ {w} : m_pc'[v] = "waiting" =>
        /\ m_seen'[v] <= m_event'
        /\ \/ m_seen'[v] < m_event' \/ m_stop'
           \/ m_running' /\ m_loop' \in {"call", "sleep"} /\ m_current' \notin ShellTargets[v]
  BY <1>1, Zenon DEF MonitorInv, WaiterIsUpToDate
<1>4. m_pc'[w] = "waiting" =>
        /\ m_seen'[w] <= m_event'
        /\ m_running' /\ m_loop' \in {"call", "sleep"} /\ m_current' \notin ShellTargets[w]
  BY <1>2 DEF MonitorInv
<1>5. WaiterIsUpToDate'
  BY <1>3, <1>4, Zenon DEF WaiterIsUpToDate, ShellTargets
<1>6. \A v \in Waiters : m_pc'[v] = "verify" => ~m_running'
  BY <1>1, <1>2, Zenon DEF MonitorInv
<1> QED BY <1>1, <1>3, <1>4, <1>5, <1>6, Zenon DEF MonitorInv

LEMMA MonitorEnters ==
    ASSUME MonitorInv, NEW w \in Waiters, NEW cur, NEW isLost,
           Monitor!Enter(w, cur, isLost), m_loop # "off",
           UNCHANGED <<m_event, m_running, m_stop, m_loop>>,
           m_running => cur = m_current /\ UNCHANGED m_current,
           m_lost' => m_lost
    PROVE  MonitorInv'
<1>1. CASE Monitor!WaitLoop(w, cur, isLost)
  BY <1>1, MonitorWaits, Zenon
<1>2. CASE m_pc' = [m_pc EXCEPT ![w] = "reached"] /\ UNCHANGED m_seen
  <2>1. /\ DOMAIN m_pc' = Waiters /\ m_pc'[w] = "reached"
        /\ \A v \in Waiters \ {w} : m_pc'[v] = m_pc[v]
    BY <1>2, Zenon DEF MonitorInv
  <2>2. WaiterIsUpToDate'
    BY <1>2, <2>1, Zenon DEF MonitorInv, WaiterIsUpToDate, ShellTargets
  <2> QED BY <1>2, <2>1, <2>2, Zenon DEF MonitorInv
<1> QED BY <1>1, <1>2, Zenon DEF Monitor!Enter

LEMMA MonitorNext == MonitorInv /\ [Monitor!Next]_(Monitor!vars) => MonitorInv'
<1> SUFFICES ASSUME MonitorInv, [Monitor!Next]_(Monitor!vars) PROVE MonitorInv'
  OBVIOUS
<1> USE DEF Monitor!fields
<1>1. ASSUME UNCHANGED <<m_current, m_running, m_lost, m_event, m_stop, m_loop, m_pc, m_seen>>
      PROVE  MonitorInv'
  BY <1>1, Zenon DEF MonitorInv, WaiterIsUpToDate, ShellTargets
<1>2. CASE Monitor!update_status \/ Monitor!GetStatus \/ UNCHANGED Monitor!vars
  BY <1>1, <1>2, Zenon DEF Monitor!update_status, Monitor!GetStatus, Monitor!vars
<1>3. CASE Monitor!start
  BY <1>3, Zenon DEF Monitor!start, MonitorInv, WaiterIsUpToDate
<1>4. CASE Monitor!PollReply
  <2>1. /\ UNCHANGED <<m_running, m_stop, m_pc, m_seen>> /\ m_lost' = FALSE
        /\ m_loop = "call" /\ m_loop' = "sleep"
        /\ m_event' = m_event + 1 \/ UNCHANGED <<m_event, m_current>>
    BY <1>4, Zenon DEF Monitor!PollReply, Monitor!Change
  <2>2. CASE m_event' = m_event + 1
    <3>1. WaiterIsUpToDate' /\ \A w \in Waiters : m_pc'[w] = "waiting" => m_seen'[w] <= m_event'
      BY <2>1, <2>2, MonitorTells DEF WaiterIsUpToDate
    <3> QED BY <2>1, <2>2, <3>1, MonitorTells, Zenon DEF MonitorInv
  <2>3. CASE UNCHANGED <<m_event, m_current>>
    BY <2>1, <2>3, Zenon DEF MonitorInv, WaiterIsUpToDate, ShellTargets
  <2> QED BY <2>1, <2>2, <2>3, Zenon
<1>5. CASE Monitor!_signal_unsupported
  <2>1. /\ UNCHANGED <<m_lost, m_stop, m_pc, m_seen>> /\ m_running' = FALSE
        /\ m_loop' = "ended" /\ m_event' = m_event + 1
    BY <1>5, Zenon DEF Monitor!_signal_unsupported, Monitor!Change
  <2>2. WaiterIsUpToDate' /\ \A w \in Waiters : m_pc'[w] = "waiting" => m_seen'[w] <= m_event'
    BY <2>1, MonitorTells DEF WaiterIsUpToDate
  <2> QED BY <2>1, <2>2, MonitorTells, Zenon DEF MonitorInv
<1>6. CASE Monitor!PollError
  BY <1>6, Zenon DEF Monitor!PollError, MonitorInv, WaiterIsUpToDate, ShellTargets
<1>7. CASE Monitor!PollDeadline
  <2>1. /\ UNCHANGED <<m_current, m_stop, m_pc, m_seen>> /\ m_loop = "call"
        /\ \/ /\ m_lost' = TRUE /\ m_running' = FALSE /\ m_loop' = "ended"
              /\ m_event' = m_event + 1
           \/ /\ m_loop' = (IF m_running THEN "call" ELSE "ended")
              /\ UNCHANGED <<m_lost, m_running, m_event>>
    BY <1>7, Zenon DEF Monitor!PollDeadline, Monitor!Change
  <2>2. CASE m_event' = m_event + 1 /\ m_running' = FALSE /\ m_loop' = "ended"
    <3>1. WaiterIsUpToDate' /\ \A w \in Waiters : m_pc'[w] = "waiting" => m_seen'[w] <= m_event'
      BY <2>1, <2>2, MonitorTells DEF WaiterIsUpToDate
    <3> QED BY <2>1, <2>2, <3>1, MonitorTells, Zenon DEF MonitorInv
  <2>3. CASE /\ m_loop' = (IF m_running THEN "call" ELSE "ended")
             /\ UNCHANGED <<m_lost, m_running, m_event>>
    BY <2>1, <2>3, Zenon DEF MonitorInv, WaiterIsUpToDate, ShellTargets
  <2> QED BY <2>1, <2>2, <2>3, Zenon
<1>8. CASE Monitor!PollSleep
  BY <1>8, Zenon DEF Monitor!PollSleep, MonitorInv, WaiterIsUpToDate, ShellTargets
<1>9. CASE Monitor!Stop
  BY <1>9, Zenon DEF Monitor!Stop, MonitorInv, WaiterIsUpToDate, ShellTargets
<1>10. ASSUME NEW w \in Waiters, m_pc' = [m_pc EXCEPT ![w] = "verify"], ~m_running, m_loop # "off",
              UNCHANGED <<m_current, m_running, m_lost, m_event, m_stop, m_loop, m_seen>>
       PROVE  MonitorInv'
  <2>1. /\ DOMAIN m_pc' = Waiters /\ m_pc'[w] = "verify"
        /\ \A v \in Waiters \ {w} : m_pc'[v] = m_pc[v]
    BY <1>10, Zenon DEF MonitorInv
  <2>2. WaiterIsUpToDate'
    BY <1>10, <2>1, Zenon DEF MonitorInv, WaiterIsUpToDate, ShellTargets
  <2> QED BY <1>10, <2>1, <2>2, Zenon DEF MonitorInv
<1>11. ASSUME NEW w \in Waiters, NEW x \in {"not", "timeout"}, m_pc' = [m_pc EXCEPT ![w] = x],
              UNCHANGED <<m_current, m_running, m_lost, m_event, m_stop, m_loop, m_seen>>
       PROVE  MonitorInv'
  <2>1. /\ DOMAIN m_pc' = Waiters /\ m_pc'[w] = x
        /\ \A v \in Waiters \ {w} : m_pc'[v] = m_pc[v]
    BY <1>11, Zenon DEF MonitorInv
  <2>2. WaiterIsUpToDate'
    BY <1>11, <2>1, Zenon DEF MonitorInv, WaiterIsUpToDate, ShellTargets
  <2> QED BY <1>11, <2>1, <2>2, Zenon DEF MonitorInv
<1>12. ASSUME NEW w \in Waiters, Monitor!BeginWait(w) PROVE MonitorInv'
  <2>1. /\ m_loop # "off"
        /\ UNCHANGED <<m_current, m_running, m_lost, m_event, m_stop, m_loop>>
        /\ \/ m_lost /\ m_pc' = [m_pc EXCEPT ![w] = "verify"] /\ UNCHANGED m_seen
           \/ ~m_lost /\ Monitor!Enter(w, m_current, FALSE)
    BY <1>12, Zenon DEF Monitor!BeginWait
  <2>2. CASE m_lost
    BY <1>10, <2>1, <2>2, Zenon DEF MonitorInv
  <2>3. CASE ~m_lost /\ Monitor!Enter(w, m_current, FALSE)
    BY <2>1, <2>3, MonitorEnters, Zenon
  <2> QED BY <2>1, <2>2, <2>3, Zenon
<1>13. ASSUME NEW w \in Waiters, Monitor!Verified(w) PROVE MonitorInv'
  <2>1. /\ m_pc[w] = "verify" /\ ~m_lost' /\ Monitor!Enter(w, Monitor!StatusOf(m_now), FALSE)
        /\ UNCHANGED <<m_running, m_event, m_stop, m_loop>>
    BY <1>13, Zenon DEF Monitor!Verified
  <2>2. ~m_running /\ m_loop # "off"
    BY <2>1, Zenon DEF MonitorInv
  <2> QED BY <2>1, <2>2, MonitorEnters, Zenon
<1>14. ASSUME NEW w \in Waiters, Monitor!NotVerified(w) PROVE MonitorInv'
  <2>1. /\ m_pc[w] = "verify"
        /\ UNCHANGED <<m_current, m_running, m_lost, m_event, m_stop, m_loop>>
        /\ \/ m_pc' = [m_pc EXCEPT ![w] = "not"] /\ UNCHANGED m_seen
           \/ Monitor!Enter(w, m_current, m_lost)
    BY <1>14, Zenon DEF Monitor!NotVerified
  <2>2. ~m_running /\ m_loop # "off"
    BY <2>1, Zenon DEF MonitorInv
  <2> QED BY <1>11, <2>1, <2>2, MonitorEnters, Zenon
<1>15. ASSUME NEW w \in Waiters, Monitor!Wake(w) PROVE MonitorInv'
  <2>1. /\ m_pc[w] = "waiting" /\ Monitor!WaitLoop(w, m_current, m_lost)
        /\ UNCHANGED <<m_current, m_running, m_lost, m_event, m_stop, m_loop>>
    BY <1>15, Zenon DEF Monitor!Wake
  <2>2. m_loop # "off"
    BY <2>1, Zenon DEF MonitorInv
  <2> QED BY <2>1, <2>2, MonitorWaits, Zenon
<1>16. ASSUME NEW w \in Waiters, Monitor!TimeOut(w) PROVE MonitorInv'
  BY <1>11, <1>16, Zenon DEF Monitor!TimeOut
<1> QED
  BY <1>2, <1>3, <1>4, <1>5, <1>6, <1>7, <1>8, <1>9, <1>12, <1>13, <1>14, <1>15, <1>16, Zenon
     DEF Monitor!Next, Monitor!Poll, Monitor!Verify

(* No wake-up is lost: the event is set and replaced in one step, and a    *)
(* waiter that has captured the new one has looked at a status that has    *)
(* not changed since.  This is what WaitersReturn needs besides fairness.  *)
THEOREM MonitorLosesNoWakeUp == Monitor!Spec => []WaiterIsUpToDate
<1>1. Monitor!Init => MonitorInv
  <2>1. 0 \in Nat
    OBVIOUS
  <2> QED BY <2>1, Zenon DEF Monitor!Init, MonitorInv, WaiterIsUpToDate
<1>2. MonitorInv => WaiterIsUpToDate
  BY Zenon DEF MonitorInv
<1> QED BY <1>1, <1>2, MonitorNext, PTL DEF Monitor!Spec

-----------------------------------------------------------------------------
(* StatusWatch: a watch that works tells of the lease on the object.       *)

(* When the watch has delivered what it had, the exporter has been told of *)
(* the lease that is stored.                                               *)
ToldWhenDelivered ==
    w_live /\ w_events = <<>> /\ w_pc = "run" => w_told = <<w_stored.lease>>

(* The last event on its way is the object as it is stored, and what was   *)
(* told last is what the next response is compared with.                   *)
WatchInv ==
    /\ w_events \in Seq(Watch!Object) /\ w_stored \in Watch!Object
    /\ w_clock \in 0 .. Watch!Times - 1
    /\ w_lastPb = w_told
    /\ w_live /\ w_events # <<>> => w_events[Len(w_events)] = w_stored
    /\ w_live /\ w_pc = "connect" => w_events # <<>>
    /\ ToldWhenDelivered

LEMMA WatchStores ==
    ASSUME WatchInv, NEW o \in Watch!Object, Watch!Store(o), UNCHANGED <<w_live, w_lastPb, w_told>>,
           w_clock' \in 0 .. Watch!Times - 1
    PROVE  WatchInv'
<1>1. w_stored' = o /\ w_events' = IF w_live THEN Append(w_events, o) ELSE w_events
  BY Zenon DEF Watch!Store
<1>2. /\ Append(w_events, o) \in Seq(Watch!Object) /\ Append(w_events, o) # <<>>
      /\ Append(w_events, o)[Len(Append(w_events, o))] = o
  BY DEF WatchInv
<1>3. /\ w_events' \in Seq(Watch!Object)
      /\ w_live' => w_events' # <<>> /\ w_events'[Len(w_events')] = w_stored'
  BY <1>1, <1>2, Zenon DEF WatchInv
<1> QED BY <1>1, <1>3, Zenon DEF WatchInv, ToldWhenDelivered

LEMMA WatchOnline ==
    ASSUME WatchInv, Watch!online, UNCHANGED <<w_live, w_lastPb, w_told>>,
           UNCHANGED w_pc \/ (w_pc = "connect" /\ w_pc' = "run")
    PROVE  WatchInv'
<1>1. w_clock' \in 0 .. Watch!Times - 1
  BY ComponentsAssumption DEF Watch!online, WatchInv, Watch!Times
<1>2. ASSUME Watch!Store([w_stored EXCEPT !.seen = w_clock']) PROVE WatchInv'
  <2>1. [w_stored EXCEPT !.seen = w_clock'] \in Watch!Object
    BY <1>1, Zenon DEF WatchInv, Watch!Object
  <2> QED BY <1>1, <1>2, <2>1, WatchStores, Zenon
<1>3. CASE UNCHANGED <<w_stored, w_events>>
  BY <1>1, <1>3, Zenon DEF WatchInv, ToldWhenDelivered
<1> QED BY <1>2, <1>3, Zenon DEF Watch!online

LEMMA WatchNext == WatchInv /\ [Watch!Next]_(Watch!vars) => WatchInv'
<1> SUFFICES ASSUME WatchInv, [Watch!Next]_(Watch!vars) PROVE WatchInv'
  OBVIOUS
<1>1. CASE Watch!StreamConnects
  BY <1>1, WatchOnline, Zenon DEF Watch!StreamConnects
<1>2. CASE Watch!Tick
  <2>1. CASE Watch!Stopped
    BY <1>2, <2>1, Zenon DEF Watch!Tick, Watch!End, WatchInv, ToldWhenDelivered
  <2>2. CASE ~Watch!Stopped
    BY <1>2, <2>2, WatchOnline, Zenon DEF Watch!Tick
  <2> QED BY <2>1, <2>2, Zenon
<1>3. CASE Watch!WatchEvent
  <2>1. /\ w_events # <<>> /\ w_live /\ w_pc = "run" /\ w_events' = Tail(w_events)
        /\ UNCHANGED <<w_stored, w_clock, w_live>>
        /\ \/ UNCHANGED w_pc /\ w_lastPb' = <<Head(w_events).lease>>
              /\ w_told' = <<Head(w_events).lease>>
           \/ w_pc' = "ended" /\ UNCHANGED <<w_lastPb, w_told>>
    BY <1>3, Zenon DEF Watch!WatchEvent, Watch!SameAsLast, Watch!End, WatchInv
  <2>2. /\ Tail(w_events) \in Seq(Watch!Object)
        /\ Tail(w_events) # <<>> => Tail(w_events)[Len(Tail(w_events))] = w_events[Len(w_events)]
        /\ Tail(w_events) = <<>> => Head(w_events) = w_events[Len(w_events)]
    <3>1. w_events \in Seq(Watch!Object) /\ w_events # <<>>
      BY <2>1, Zenon DEF WatchInv
    <3>2. /\ Len(w_events) \in Nat \ {0} /\ Tail(w_events) \in Seq(Watch!Object)
          /\ Len(Tail(w_events)) = Len(w_events) - 1 /\ Head(w_events) = w_events[1]
          /\ \A i \in 1 .. Len(Tail(w_events)) : Tail(w_events)[i] = w_events[i + 1]
      BY <3>1
    <3>3. ASSUME NEW q \in Seq(Watch!Object) PROVE q = <<>> <=> Len(q) = 0
      BY <3>3
    <3>4. Tail(w_events) = <<>> <=> Len(Tail(w_events)) = 0
      BY <3>2, <3>3, Zenon
    <3> QED BY <3>2, <3>4
  <2>3. w_events[Len(w_events)] = w_stored
    BY <2>1, Zenon DEF WatchInv
  <2> QED BY <2>1, <2>2, <2>3, Zenon DEF WatchInv, ToldWhenDelivered
<1>4. CASE Watch!StreamEnds
  BY <1>4, Zenon DEF Watch!StreamEnds, Watch!End, WatchInv, ToldWhenDelivered
<1>5. CASE Watch!WatchStops
  <2>1. <<>> \in Seq(Watch!Object)
    OBVIOUS
  <2> QED BY <1>5, <2>1, Zenon DEF Watch!WatchStops, WatchInv, ToldWhenDelivered
<1>6. CASE Watch!ExporterDeleted
  <2>1. [w_stored EXCEPT !.exists = FALSE] \in Watch!Object
    BY Zenon DEF WatchInv, Watch!Object
  <2> QED BY <1>6, <2>1, WatchStores, Zenon DEF Watch!ExporterDeleted, WatchInv
<1>7. ASSUME NEW l \in Leases \cup {None}, Watch!LeaseRefChanges(l) PROVE WatchInv'
  <2>1. [w_stored EXCEPT !.lease = l] \in Watch!Object
    BY Zenon DEF WatchInv, Watch!Object
  <2> QED BY <1>7, <2>1, WatchStores, Zenon DEF Watch!LeaseRefChanges, WatchInv
<1>8. ASSUME NEW l \in Leases, Watch!LeaseDeleted(l) PROVE WatchInv'
  BY <1>8, Zenon DEF Watch!LeaseDeleted, WatchInv, ToldWhenDelivered
<1>9. CASE UNCHANGED Watch!vars
  BY <1>9, Zenon DEF Watch!vars, WatchInv, ToldWhenDelivered
<1> QED BY <1>1, <1>2, <1>3, <1>4, <1>5, <1>6, <1>7, <1>8, <1>9, Zenon DEF Watch!Next

(* Whatever leases come and go while events are on their way: a stream     *)
(* whose watch works and has delivered everything has told the exporter of *)
(* the lease on its object, and the suppression of equal responses never   *)
(* leaves it with an older one.                                            *)
THEOREM WatchTellsLease == Watch!Spec => []ToldWhenDelivered
<1>1. Watch!Init => WatchInv
  <2> SUFFICES ASSUME Watch!Init PROVE WatchInv
    OBVIOUS
  <2>1. 0 \in 0 .. Watch!Times - 1
    BY ComponentsAssumption DEF Watch!Times
  <2>2. w_stored \in Watch!Object
    <3>1. PICK l \in Leases \cup {None} : w_stored = [exists |-> TRUE, seen |-> 0, lease |-> l]
      BY Zenon DEF Watch!Init
    <3> QED BY <2>1, <3>1 DEF Watch!Object
  <2>3. /\ <<w_stored>> \in Seq(Watch!Object) /\ <<w_stored>> # <<>>
        /\ <<w_stored>>[Len(<<w_stored>>)] = w_stored
    BY <2>2
  <2> QED BY <2>1, <2>2, <2>3, Zenon DEF Watch!Init, WatchInv, ToldWhenDelivered
<1>2. WatchInv => ToldWhenDelivered
  BY Zenon DEF WatchInv
<1> QED BY <1>1, <1>2, WatchNext, PTL DEF Watch!Spec

=============================================================================
