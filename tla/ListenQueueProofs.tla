-------------------------- MODULE ListenQueueProofs --------------------------
(* Proofs about ListenQueue, for any sets of Listen and Dial calls.        *)
EXTENDS ListenQueue, TLAPS

(* A Listen call names its two locks alike.                                *)
LEMMA ListenLocks ==
    ASSUME NEW g
    PROVE  <<g, "listen">> \in Locks <=> <<g, "swap">> \in Locks
  BY Zenon DEF Locks

(* Whose the calls of acquireLeaseLock are.                                *)
LEMMA WhoCalls ==
    ASSUME TypeOK, NEW g \in Goroutines
    PROVE  /\ g \in Listeners => call[g] \in {"listen", "swap"}
           /\ g \notin Listeners => call[g] = "send" /\ g \in Dialers
           /\ call[g] = "send" => g \in Dialers
           /\ call[g] \in Calls
<1>1. <<g, call[g]>> \in Locks
  BY Zenon DEF TypeOK
<1>2. \/ g \in Listeners /\ call[g] \in {"listen", "swap"}
      \/ g \in Dialers /\ call[g] = "send"
  BY <1>1, Zenon DEF Locks
<1> QED
  BY <1>2, CallsAssumption, Zenon DEF Goroutines, Calls

LEMMA Members ==
    Listeners \subseteq Goroutines /\ Dialers \subseteq Goroutines /\ Listeners \cap Dialers = {}
  BY CallsAssumption, Zenon DEF Goroutines

(* A step of goroutine g from one position to another.                     *)
At(g, from, to) ==
    pc[g] = from /\ \A h \in Goroutines : pc'[h] = IF h = g THEN to ELSE pc[h]

LEMMA GotoAt ==
    ASSUME TypeOK, NEW g \in Goroutines, NEW from, NEW to, Goto(g, from, to)
    PROVE  At(g, from, to)
  BY Zenon DEF TypeOK, Goto, At

(* Counting up or down keeps a function of counters one of integers.       *)
LEMMA CountInt ==
    ASSUME NEW S, NEW f \in [S -> Int], NEW x
    PROVE  /\ [f EXCEPT ![x] = @ + 1] \in [S -> Int]
           /\ [f EXCEPT ![x] = @ - 1] \in [S -> Int]
           /\ [f EXCEPT ![x] = 1] \in [S -> Int]
<1> DEFINE up == [f EXCEPT ![x] = @ + 1]
           down == [f EXCEPT ![x] = @ - 1]
           one == [f EXCEPT ![x] = 1]
<1>1. /\ up = [k \in S |-> IF k = x THEN f[x] + 1 ELSE f[k]]
      /\ down = [k \in S |-> IF k = x THEN f[x] - 1 ELSE f[k]]
      /\ one = [k \in S |-> IF k = x THEN 1 ELSE f[k]]
  BY Zenon
<1>2. \A k \in S : up[k] \in Int /\ down[k] \in Int /\ one[k] \in Int
  BY <1>1
<1> HIDE DEF up, down, one
<1> QED
  BY <1>1, <1>2, Zenon DEF up, down, one

(* What acquireLeaseLock returns leaves the caller well typed.             *)
LEMMA AcquiredType ==
    ASSUME TypeOK, NEW g \in Goroutines, NEW from, NEW k \in Locks \cup {NoLock},
           Acquired(g, from, k)
    PROVE  /\ pc' \in [Goroutines -> PCs]
           /\ mu' \in [Goroutines -> [Calls -> Locks \cup {NoLock}]]
           /\ call' \in [Goroutines -> Calls]
           /\ \A h \in Goroutines : <<h, call'[h]>> \in Locks
<1>1. mu' \in [Goroutines -> [Calls -> Locks \cup {NoLock}]]
  BY Zenon DEF TypeOK, Acquired
<1>2. pc' \in [Goroutines -> PCs]
  BY ZenonT(60) DEF TypeOK, Acquired, Goto, PCs
<1>3. call' \in [Goroutines -> Calls]
  BY DEF TypeOK, Acquired, Calls
<1>4. \A h \in Goroutines : <<h, call'[h]>> \in Locks
  BY ListenLocks, Zenon DEF TypeOK, Acquired
<1> QED
  BY <1>1, <1>2, <1>3, <1>4, Zenon

(* A token taken from a channel leaves a channel of tokens.                *)
LEMMA DeliverType ==
    ASSUME TypeOK, NEW l \in Listeners, NEW from \in PCs, Deliver(l, from)
    PROVE  /\ ch' \in [Listeners -> Seq(Dialers)]
           /\ \A m \in Listeners : Len(ch'[m]) <= BufferCap
           /\ delivered' \subseteq Dialers
           /\ pc' \in [Goroutines -> PCs]
           /\ result' \in [Goroutines -> Results]
<1>0. l \in Goroutines
  BY Zenon DEF Goroutines
<1>1. ch[l] \in Seq(Dialers) /\ ch[l] # <<>>
  BY Zenon DEF TypeOK, Deliver
<1>2. Head(ch[l]) \in Dialers /\ Tail(ch[l]) \in Seq(Dialers)
        /\ Len(Tail(ch[l])) = Len(ch[l]) - 1
  BY <1>1
<1>3. ch' = [ch EXCEPT ![l] = Tail(ch[l])]
  BY Zenon DEF Deliver
<1>4. ch' \in [Listeners -> Seq(Dialers)]
  BY <1>2, <1>3, Zenon DEF TypeOK
<1>5. ASSUME NEW m \in Listeners PROVE Len(ch'[m]) <= BufferCap
  <2>1. Len(ch[l]) \in Nat /\ Len(ch[l]) <= BufferCap /\ Len(ch[m]) <= BufferCap
    BY <1>1 DEF TypeOK
  <2>2. ch'[m] = IF m = l THEN Tail(ch[l]) ELSE ch[m]
    BY <1>3, Zenon DEF TypeOK
  <2> QED
    BY <1>2, <2>1, <2>2, BufferCapAssumption
<1>6. delivered' \subseteq Dialers
  BY <1>2, Zenon DEF TypeOK, Deliver
<1>7. pc' \in [Goroutines -> PCs] /\ result' \in [Goroutines -> Results]
  <2>1. pc' = [pc EXCEPT ![l] = from] \/ pc' = [pc EXCEPT ![l] = "lock"]
    BY Zenon DEF Deliver, Leave, Goto
  <2>2. result' = result \/ result' = [result EXCEPT ![l] = "sendFailed"]
    BY Zenon DEF Deliver, Leave
  <2>3. "lock" \in PCs /\ "sendFailed" \in Results
    BY Zenon DEF PCs, Results
  <2> QED
    BY <1>0, <2>1, <2>2, <2>3, ZenonT(60) DEF TypeOK
<1> QED
  BY <1>4, <1>5, <1>6, <1>7, Zenon

(* The type of the state is preserved by every step.                       *)
THEOREM TypeCorrect == Spec => []TypeOK
<1>1. Init => TypeOK
  BY CallsAssumption, BufferCapAssumption
  DEF Init, TypeOK, Locks, Goroutines, Calls, PCs, Results
<1>2. TypeOK /\ [Next]_vars => TypeOK'
  <2> SUFFICES ASSUME TypeOK, [Next]_vars PROVE TypeOK'
    OBVIOUS
  <2>0. Listeners \subseteq Goroutines /\ Dialers \subseteq Goroutines
    BY Zenon DEF Goroutines
  <2>1. ASSUME NEW g \in Goroutines, Start(g) PROVE TypeOK'
    BY <2>1, Zenon
    DEF TypeOK, Start, Goto, locks, queues, Calls, PCs, Results
  <2>2. ASSUME NEW g \in Goroutines, LoadOrStore(g) PROVE TypeOK'
    <3>1. CASE leaseLocks = NoLock
      <4>1. <<g, call[g]>> \in Locks
        BY Zenon DEF TypeOK
      <4>2. refs' \in [Locks -> Int]
        <5>1. refs' = [refs EXCEPT ![<<g, call[g]>>] = 1]
          BY <2>2, <3>1, Zenon DEF LoadOrStore
        <5>2. refs \in [Locks -> Int]
          BY Zenon DEF TypeOK
        <5> QED
          BY <5>1, <5>2, CountInt, Zenon
      <4> QED
        BY <2>2, <3>1, <4>1, <4>2, AcquiredType, Zenon DEF TypeOK, LoadOrStore, queues
    <3>2. CASE leaseLocks # NoLock
      BY <2>2, <3>2, ZenonT(60) DEF TypeOK, LoadOrStore, Goto, queues, PCs
    <3> QED
      BY <3>1, <3>2, Zenon
  <2>3. ASSUME NEW g \in Goroutines, AddRef(g) PROVE TypeOK'
    <3>1. refs' \in [Locks -> Int]
      BY <2>3, CountInt, Zenon DEF TypeOK, AddRef
    <3>2. CASE Goto(g, "addRef", "backOut") /\ UNCHANGED <<call, mu>>
      BY <2>3, <3>1, <3>2, Zenon DEF TypeOK, AddRef, Goto, queues, PCs
    <3>3. CASE Acquired(g, "addRef", ll[g])
      BY <2>3, <3>1, <3>3, AcquiredType, Zenon DEF TypeOK, AddRef, queues
    <3> QED
      BY <2>3, <3>2, <3>3, Zenon DEF AddRef
  <2>4. ASSUME NEW g \in Goroutines, BackOut(g) PROVE TypeOK'
    <3>1. refs' \in [Locks -> Int]
      BY <2>4, CountInt, Zenon DEF TypeOK, BackOut
    <3> QED
      BY <2>4, <3>1, Zenon DEF TypeOK, BackOut, Goto, queues, PCs
  <2>5. ASSUME NEW g \in Goroutines, Lock(g) PROVE TypeOK'
    BY <2>5, Zenon
    DEF TypeOK, Lock, Goto, locks, queues, Calls, PCs, Results
  <2>6. ASSUME NEW g \in Goroutines, Unlock(g) PROVE TypeOK'
    BY <2>6, Zenon
    DEF TypeOK, Unlock, Goto, locks, queues, Calls, PCs, Results
  <2>7. ASSUME NEW g \in Goroutines, LoadLock(g) PROVE TypeOK'
    BY <2>7, ListenLocks, ZenonT(60)
    DEF TypeOK, LoadLock, Goto, Released, locks, queues, Calls, PCs
  <2>8. ASSUME NEW g \in Goroutines, DecRef(g) PROVE TypeOK'
    <3>1. refs' \in [Locks -> Int]
      BY <2>8, CountInt, Zenon DEF TypeOK, DecRef
    <3>2. CASE Goto(g, "decRef", "deleteLock") /\ UNCHANGED call
      BY <2>8, <3>1, <3>2, Zenon DEF TypeOK, DecRef, Goto, queues, PCs
    <3>3. CASE Released(g, "decRef")
      BY <2>8, <3>1, <3>3, ListenLocks, Zenon DEF TypeOK, DecRef, Released, Goto, queues, PCs, Calls
    <3> QED
      BY <2>8, <3>2, <3>3, Zenon DEF DecRef
  <2>9. ASSUME NEW g \in Goroutines, DeleteLock(g) PROVE TypeOK'
    BY <2>9, ListenLocks, Zenon
    DEF TypeOK, DeleteLock, Goto, Released, locks, queues, Calls, PCs
  <2>10. ASSUME NEW d \in Dialers, Load(d) PROVE TypeOK'
    <3>1. q' \in [Goroutines -> Listeners \cup {NoQueue}]
      BY <2>0, <2>10, Zenon DEF TypeOK, Load
    <3>2. pc' \in [Goroutines -> PCs] /\ result' \in [Goroutines -> Results]
      BY <2>0, <2>10, Zenon DEF TypeOK, Load, Goto, PCs, Results
    <3> QED
      BY <2>10, <3>1, <3>2, Zenon DEF TypeOK, Load, locks, queues
  <2>11. ASSUME NEW d \in Dialers, CheckDone(d) PROVE TypeOK'
    BY <2>0, <2>11, ZenonT(60)
    DEF TypeOK, CheckDone, Goto, locks, queues, Calls, PCs, Results
  <2>12. ASSUME NEW d \in Dialers, Send(d) PROVE TypeOK'
    <3>1. pc' \in [Goroutines -> PCs] /\ result' \in [Goroutines -> Results]
      BY <2>0, <2>12, Zenon DEF TypeOK, Send, Goto, PCs, Results
    <3>2. \/ ch' = ch
          \/ ch' = [ch EXCEPT ![q[d]] = Append(ch[q[d]], d)] /\ Len(ch[q[d]]) < BufferCap
      BY <2>12, Zenon DEF Send
    <3>3. ASSUME NEW l \in Listeners
          PROVE  ch'[l] \in Seq(Dialers) /\ Len(ch'[l]) <= BufferCap
      <4>1. ch[l] \in Seq(Dialers) /\ Len(ch[l]) <= BufferCap /\ Len(ch[l]) \in Nat
        BY DEF TypeOK
      <4>2. Append(ch[l], d) \in Seq(Dialers) /\ Len(Append(ch[l], d)) = Len(ch[l]) + 1
        BY <4>1
      <4>3. ch'[l] = ch[l] \/ (ch'[l] = Append(ch[l], d) /\ Len(ch[l]) < BufferCap)
        BY <3>2, Zenon DEF TypeOK
      <4>4. CASE ch'[l] = ch[l]
        BY <4>1, <4>4, Zenon
      <4>5. CASE ch'[l] = Append(ch[l], d) /\ Len(ch[l]) < BufferCap
        <5>1. Len(ch[l]) + 1 <= BufferCap
          BY <4>1, <4>5, BufferCapAssumption
        <5> QED
          BY <4>2, <4>5, <5>1, Zenon
      <4> QED
        BY <4>3, <4>4, <4>5, Zenon
    <3>4. ch' \in [Listeners -> Seq(Dialers)]
      BY <3>2, <3>3, Zenon DEF TypeOK
    <3> QED
      BY <2>12, <3>1, <3>3, <3>4, Zenon DEF TypeOK, Send, locks
  <2>13. ASSUME NEW l \in Listeners, Swap(l) PROVE TypeOK'
    BY <2>0, <2>13, Zenon
    DEF TypeOK, Swap, Goto, locks, queues, Calls, PCs, Results
  <2>14. ASSUME NEW l \in Listeners, CloseOld(l) PROVE TypeOK'
    BY <2>0, <2>14, Zenon
    DEF TypeOK, CloseOld, Goto, locks, queues, Calls, PCs, Results
  <2>15. ASSUME NEW l \in Listeners, Select(l) PROVE TypeOK'
    <3>1. CASE Deliver(l, "select")
      BY <2>15, <3>1, DeliverType, Zenon DEF TypeOK, Select, locks, PCs
    <3>2. CASE ~Deliver(l, "select")
      BY <2>0, <2>15, <3>2, Zenon DEF TypeOK, Select, Leave, Goto, locks, PCs, Results
    <3> QED
      BY <3>1, <3>2, Zenon
  <2>16. ASSUME NEW l \in Listeners, Drain(l) PROVE TypeOK'
    <3>1. CASE Deliver(l, "drain")
      BY <2>16, <3>1, DeliverType, Zenon DEF TypeOK, Drain, locks, PCs
    <3>2. CASE ~Deliver(l, "drain")
      BY <2>0, <2>16, <3>2, ZenonT(60) DEF TypeOK, Drain, Leave, Goto, locks, PCs, Results
    <3> QED
      BY <3>1, <3>2, Zenon
  <2>17. ASSUME NEW l \in Listeners, CloseDone(l) PROVE TypeOK'
    BY <2>0, <2>17, Zenon
    DEF TypeOK, CloseDone, Goto, locks, queues, Calls, PCs, Results
  <2>18. ASSUME NEW l \in Listeners, DeleteQueue(l) PROVE TypeOK'
    BY <2>0, <2>18, Zenon
    DEF TypeOK, DeleteQueue, Goto, locks, queues, Calls, PCs, Results
  <2>19. ASSUME NEW l \in Listeners, Cancel(l) PROVE TypeOK'
    BY <2>0, <2>19, Zenon
    DEF TypeOK, Cancel, locks, queues, Calls, PCs, Results
  <2>20. CASE UNCHANGED vars
    BY <2>20, Zenon DEF TypeOK, vars
  <2> QED
    BY <2>1, <2>2, <2>3, <2>4, <2>5, <2>6, <2>7, <2>8, <2>9, <2>10, <2>11, <2>12,
       <2>13, <2>14, <2>15, <2>16, <2>17, <2>18, <2>19, <2>20, Zenon
    DEF Next, LockStep, DialStep, ListenStep
<1> QED
  BY <1>1, <1>2, PTL DEF Spec

-----------------------------------------------------------------------------
(* Where ll is in use, and where the call of acquireLeaseLock may still    *)
(* store a lock of its own.                                                *)
UsesLL == {"addRef", "backOut", "decRef", "deleteLock"}
Acquiring == {"idle", "loadOrStore", "addRef", "backOut"}

LLIsLock == \A g \in Goroutines : pc[g] \in UsesLL => ll[g] \in Locks

(* A lock that its goroutine may still store is neither in the map nor     *)
(* known to anyone: every lock is stored once.                             *)
Unstored(g) == IF pc[g] \notin Acquiring THEN {}
               ELSE IF call[g] = "listen" THEN {<<g, "listen">>, <<g, "swap">>}
               ELSE {<<g, call[g]>>}
StoredOnce == \A g \in Goroutines : \A k \in Unstored(g) :
                leaseLocks # k /\ \A h \in Goroutines : ll[h] # k

BeingDeleted == \E g \in Goroutines : pc[g] = "deleteLock" /\ ll[g] = leaseLocks

(* An acquirer that saw a count of zero on the current entry saw it        *)
(* because a goroutine past its decrement is about to delete the entry.    *)
BackOutIsJustified ==
    \A g \in Goroutines : pc[g] = "backOut" /\ ll[g] = leaseLocks => BeingDeleted

LockInv == LLIsLock /\ StoredOnce /\ BackOutIsJustified /\ DeadEntryIsBeingDeleted

(* A step of one goroutine that touches no lock and stays away from the    *)
(* code of acquire and release keeps the invariant.                        *)
LEMMA LockFrame ==
    ASSUME TypeOK, LockInv, NEW g \in Goroutines, NEW to,
           UNCHANGED <<leaseLocks, refs, ll>>,
           pc' = [pc EXCEPT ![g] = to],
           pc[g] \notin UsesLL, to \notin UsesLL \cup Acquiring,
           \A h \in Goroutines \ {g} : call'[h] = call[h]
    PROVE  LockInv'
<1>1. \A h \in Goroutines : pc'[h] = IF h = g THEN to ELSE pc[h]
  BY Zenon DEF TypeOK
<1>2. LLIsLock'
  BY <1>1, Zenon DEF LockInv, LLIsLock
<1>3. StoredOnce'
  BY <1>1 DEF LockInv, StoredOnce, Unstored
<1>4. BeingDeleted => BeingDeleted'
  BY <1>1, Zenon DEF BeingDeleted, UsesLL
<1>5. BackOutIsJustified'
  BY <1>1, <1>4, Zenon DEF LockInv, BackOutIsJustified, UsesLL
<1>6. DeadEntryIsBeingDeleted'
  BY <1>4, Zenon DEF LockInv, DeadEntryIsBeingDeleted, BeingDeleted
<1> QED
  BY <1>2, <1>3, <1>5, <1>6, Zenon DEF LockInv

LEMMA LockInvHolds == Spec => []LockInv
<1>1. Init => LockInv
  <2> SUFFICES ASSUME Init PROVE LockInv
    OBVIOUS
  <2>1. /\ leaseLocks = NoLock
        /\ \A g \in Goroutines : pc[g] = "idle" /\ ll[g] = NoLock
        /\ \A g \in Goroutines : <<g, call[g]>> \in Locks
    BY Zenon DEF Init, Locks, Goroutines
  <2>2. \A g \in Goroutines : Unstored(g) \subseteq Locks
    BY <2>1, ListenLocks, Zenon DEF Unstored
  <2> QED
    BY <2>1, <2>2, NoLockAssumption, Zenon
    DEF LockInv, LLIsLock, StoredOnce, BackOutIsJustified,
        DeadEntryIsBeingDeleted, UsesLL
<1>2. TypeOK /\ TypeOK' /\ LockInv /\ [Next]_vars => LockInv'
  <2> SUFFICES ASSUME TypeOK, TypeOK', LockInv, [Next]_vars PROVE LockInv'
    OBVIOUS
  <2>0. Listeners \subseteq Goroutines /\ Dialers \subseteq Goroutines
    BY Zenon DEF Goroutines
  <2>1. ASSUME NEW g \in Goroutines, Start(g) PROVE LockInv'
    <3>1. \A h \in Goroutines : pc'[h] = IF h = g THEN "loadOrStore" ELSE pc[h]
      BY <2>1, Zenon DEF TypeOK, Start, Goto
    <3>2. pc[g] = "idle" /\ UNCHANGED <<leaseLocks, refs, ll, call>>
      BY <2>1, Zenon DEF Start, Goto, locks
    <3>3. LLIsLock'
      BY <3>1, <3>2, Zenon DEF LockInv, LLIsLock, UsesLL
    <3>4. StoredOnce'
      BY <3>1, <3>2, Zenon DEF LockInv, StoredOnce, Unstored, Acquiring
    <3>5. BeingDeleted => BeingDeleted'
      BY <3>1, <3>2, Zenon DEF BeingDeleted
    <3> QED
      BY <3>1, <3>2, <3>3, <3>4, <3>5, Zenon
      DEF LockInv, BackOutIsJustified, DeadEntryIsBeingDeleted, BeingDeleted
  <2>2. ASSUME NEW g \in Goroutines, LoadOrStore(g) PROVE LockInv'
    <3>0. pc[g] = "loadOrStore" /\ \A h \in Goroutines \ {g} : pc'[h] = pc[h]
      BY <2>2 DEF TypeOK, LoadOrStore, Acquired, Goto
    <3>1. CASE leaseLocks = NoLock
      <4> DEFINE k == <<g, call[g]>>
      <4>1. leaseLocks' = k /\ ll' = ll /\ k \in Locks /\ refs'[k] = 1
        BY <2>2, <3>1, Zenon DEF TypeOK, LoadOrStore
      <4>2. k \in Unstored(g)
        BY <3>0, Zenon DEF Unstored, Acquiring
      <4>3. \A h \in Goroutines : ll[h] # k
        BY <4>2, Zenon DEF LockInv, StoredOnce
      <4>4. /\ pc'[g] \in {"loadOrStore", "lock"}
            /\ pc'[g] = "loadOrStore" => call[g] = "listen" /\ call'[g] = "swap"
            /\ \A h \in Goroutines \ {g} : call'[h] = call[h]
        BY <2>2, <3>1 DEF TypeOK, LoadOrStore, Acquired, Goto
      <4>5. LLIsLock'
        BY <3>0, <4>1, <4>4, Zenon DEF LockInv, LLIsLock, UsesLL
      <4>6. ASSUME NEW h \in Goroutines, NEW j \in Unstored(h)'
            PROVE  j # k /\ \A i \in Goroutines : ll[i] # j
        <5>1. CASE h # g
          BY <3>0, <4>4, <4>6, <5>1 DEF LockInv, StoredOnce, Unstored
        <5>2. CASE h = g
          BY <3>0, <4>4, <4>6, <5>2 DEF LockInv, StoredOnce, Unstored, Acquiring
        <5> QED
          BY <5>1, <5>2, Zenon
      <4>7. StoredOnce'
        BY <4>1, <4>6, Zenon DEF StoredOnce
      <4> QED
        BY <4>1, <4>3, <4>5, <4>7
        DEF LockInv, BackOutIsJustified, DeadEntryIsBeingDeleted
    <3>2. CASE leaseLocks # NoLock
      <4>1. /\ UNCHANGED <<leaseLocks, refs, call>>
            /\ \A h \in Goroutines : ll'[h] = IF h = g THEN leaseLocks ELSE ll[h]
            /\ pc'[g] = "addRef" /\ leaseLocks \in Locks
        BY <2>2, <3>2, Zenon DEF TypeOK, LoadOrStore, Goto
      <4>2. LLIsLock'
        BY <3>0, <4>1, Zenon DEF LockInv, LLIsLock
      <4>3. StoredOnce'
        BY <3>0, <4>1 DEF LockInv, StoredOnce, Unstored, Acquiring
      <4>4. BeingDeleted => BeingDeleted'
        BY <3>0, <4>1, Zenon DEF BeingDeleted
      <4> QED
        BY <3>0, <4>1, <4>2, <4>3, <4>4, Zenon
        DEF LockInv, BackOutIsJustified, DeadEntryIsBeingDeleted, BeingDeleted
    <3> QED
      BY <3>1, <3>2, Zenon
  <2>3. ASSUME NEW g \in Goroutines, AddRef(g) PROVE LockInv'
    <3>0. /\ pc[g] = "addRef" /\ ll[g] \in Locks
          /\ \A h \in Goroutines \ {g} : pc'[h] = pc[h] /\ call'[h] = call[h]
          /\ UNCHANGED <<leaseLocks, ll>>
          /\ pc'[g] \in {"backOut", "loadOrStore", "lock"}
      BY <2>3 DEF TypeOK, AddRef, Acquired, Goto, LockInv, LLIsLock, UsesLL
    <3>1. /\ \A k \in Locks : refs[k] \in Int /\ refs'[k] = IF k = ll[g] THEN refs[k] + 1 ELSE refs[k]
      BY <2>3, Zenon DEF TypeOK, AddRef
    <3>2. pc'[g] = "backOut" => call'[g] = call[g] /\ refs'[ll[g]] <= 1
      BY <2>3, Zenon DEF TypeOK, AddRef, Acquired, Goto
    <3>3. pc'[g] = "loadOrStore" => call[g] = "listen" /\ call'[g] = "swap"
      BY <2>3, Zenon DEF TypeOK, AddRef, Acquired, Goto
    <3>4. LLIsLock'
      BY <3>0, Zenon DEF LockInv, LLIsLock, UsesLL
    <3>5. StoredOnce'
      <4> SUFFICES ASSUME NEW h \in Goroutines, NEW j \in Unstored(h)'
                   PROVE  j \in Unstored(h)
        BY <3>0, Zenon DEF LockInv, StoredOnce
      <4> QED
        BY <3>0, <3>2, <3>3, Zenon DEF Unstored, Acquiring
    <3>6. BeingDeleted => BeingDeleted'
      BY <3>0, Zenon DEF BeingDeleted
    <3>7. BackOutIsJustified'
      <4> SUFFICES ASSUME pc'[g] = "backOut", ll[g] = leaseLocks PROVE BeingDeleted'
        BY <3>0, <3>6, Zenon DEF LockInv, BackOutIsJustified
      <4>1. refs[leaseLocks] <= 0
        BY <3>0, <3>1, <3>2
      <4>2. leaseLocks # NoLock
        BY <3>0, NoLockAssumption, Zenon
      <4> QED
        BY <3>6, <4>1, <4>2, Zenon DEF LockInv, DeadEntryIsBeingDeleted, BeingDeleted
    <3>8. DeadEntryIsBeingDeleted'
      <4> SUFFICES ASSUME leaseLocks # NoLock, refs'[leaseLocks] <= 0 PROVE BeingDeleted'
        BY <3>0, Zenon DEF DeadEntryIsBeingDeleted, BeingDeleted
      <4>1. leaseLocks \in Locks
        BY Zenon DEF TypeOK
      <4>2. refs[leaseLocks] <= 0
        BY <3>1, <4>1
      <4> QED
        BY <3>6, <4>2, Zenon DEF LockInv, DeadEntryIsBeingDeleted, BeingDeleted
    <3> QED
      BY <3>4, <3>5, <3>7, <3>8, Zenon DEF LockInv
  <2>4. ASSUME NEW g \in Goroutines, BackOut(g) PROVE LockInv'
    <3>0. /\ pc[g] = "backOut" /\ ll[g] \in Locks
          /\ \A h \in Goroutines : pc'[h] = IF h = g THEN "loadOrStore" ELSE pc[h]
          /\ UNCHANGED <<leaseLocks, ll, call>>
      BY <2>4, Zenon DEF TypeOK, BackOut, Goto, LockInv, LLIsLock, UsesLL
    <3>1. /\ \A k \in Locks : refs[k] \in Int /\ refs'[k] = IF k = ll[g] THEN refs[k] - 1 ELSE refs[k]
      BY <2>4, Zenon DEF TypeOK, BackOut
    <3>2. LLIsLock'
      BY <3>0, Zenon DEF LockInv, LLIsLock, UsesLL
    <3>3. StoredOnce'
      BY <3>0, Zenon DEF LockInv, StoredOnce, Unstored, Acquiring
    <3>4. BeingDeleted => BeingDeleted'
      BY <3>0, Zenon DEF BeingDeleted
    <3>5. BackOutIsJustified'
      BY <3>0, <3>4, Zenon DEF LockInv, BackOutIsJustified
    <3>6. DeadEntryIsBeingDeleted'
      <4> SUFFICES ASSUME leaseLocks # NoLock, refs'[leaseLocks] <= 0 PROVE BeingDeleted
        BY <3>0, <3>4, Zenon DEF DeadEntryIsBeingDeleted, BeingDeleted
      <4>1. CASE ll[g] = leaseLocks
        BY <3>0, <4>1, Zenon DEF LockInv, BackOutIsJustified
      <4>2. CASE ll[g] # leaseLocks
        <5>1. leaseLocks \in Locks
          BY Zenon DEF TypeOK
        <5> QED
          BY <3>1, <4>2, <5>1, Zenon DEF LockInv, DeadEntryIsBeingDeleted, BeingDeleted
      <4> QED
        BY <4>1, <4>2, Zenon
    <3> QED
      BY <3>2, <3>3, <3>5, <3>6, Zenon DEF LockInv
  <2>5. ASSUME NEW g \in Goroutines, LoadLock(g) PROVE LockInv'
    <3>1. CASE leaseLocks = NoLock
      <4>1. PICK to \in {"select", "returned"} : pc' = [pc EXCEPT ![g] = to]
        BY <2>5, <3>1, Zenon DEF LoadLock, Released, Goto
      <4>2. /\ pc[g] = "loadLock"
            /\ \A h \in Goroutines \ {g} : call'[h] = call[h]
            /\ UNCHANGED <<leaseLocks, refs, ll>>
        BY <2>5, <3>1, Zenon DEF TypeOK, LoadLock, Released, Goto, locks
      <4> QED
        BY <4>1, <4>2, LockFrame, Zenon DEF UsesLL, Acquiring
    <3>2. CASE leaseLocks # NoLock
      <4>1. /\ pc[g] = "loadLock" /\ leaseLocks \in Locks
            /\ \A h \in Goroutines : pc'[h] = IF h = g THEN "decRef" ELSE pc[h]
            /\ \A h \in Goroutines : ll'[h] = IF h = g THEN leaseLocks ELSE ll[h]
            /\ UNCHANGED <<leaseLocks, refs, call>>
        BY <2>5, <3>2, Zenon DEF TypeOK, LoadLock, Goto, locks
      <4>2. LLIsLock'
        BY <4>1, Zenon DEF LockInv, LLIsLock
      <4>3. StoredOnce'
        BY <4>1 DEF LockInv, StoredOnce, Unstored, Acquiring
      <4>4. BeingDeleted => BeingDeleted'
        BY <4>1, Zenon DEF BeingDeleted
      <4> QED
        BY <4>1, <4>2, <4>3, <4>4, Zenon
        DEF LockInv, BackOutIsJustified, DeadEntryIsBeingDeleted, BeingDeleted
    <3> QED
      BY <3>1, <3>2, Zenon
  <2>6. ASSUME NEW g \in Goroutines, DecRef(g) PROVE LockInv'
    <3>0. /\ pc[g] = "decRef" /\ ll[g] \in Locks
          /\ \A h \in Goroutines \ {g} : pc'[h] = pc[h] /\ call'[h] = call[h]
          /\ UNCHANGED <<leaseLocks, ll>>
          /\ pc'[g] \in {"deleteLock", "select", "returned"}
      BY <2>6 DEF TypeOK, DecRef, Released, Goto, LockInv, LLIsLock, UsesLL
    <3>1. /\ \A k \in Locks : refs[k] \in Int /\ refs'[k] = IF k = ll[g] THEN refs[k] - 1 ELSE refs[k]
      BY <2>6, Zenon DEF TypeOK, DecRef
    <3>2. refs'[ll[g]] = 0 => pc'[g] = "deleteLock"
      BY <2>6, Zenon DEF TypeOK, DecRef, Released, Goto
    <3>3. LLIsLock'
      BY <3>0, Zenon DEF LockInv, LLIsLock, UsesLL
    <3>4. StoredOnce'
      BY <3>0, Zenon DEF LockInv, StoredOnce, Unstored, Acquiring
    <3>5. BeingDeleted => BeingDeleted'
      BY <3>0, Zenon DEF BeingDeleted
    <3>6. BackOutIsJustified'
      BY <3>0, <3>5, Zenon DEF LockInv, BackOutIsJustified
    <3>7. DeadEntryIsBeingDeleted'
      <4> SUFFICES ASSUME leaseLocks # NoLock, refs'[leaseLocks] <= 0 PROVE BeingDeleted'
        BY <3>0, Zenon DEF DeadEntryIsBeingDeleted, BeingDeleted
      <4>0. leaseLocks \in Locks
        BY Zenon DEF TypeOK
      <4>1. CASE refs[leaseLocks] <= 0
        BY <3>5, <4>1, Zenon DEF LockInv, DeadEntryIsBeingDeleted, BeingDeleted
      <4>2. CASE refs[leaseLocks] > 0
        <5>1. ll[g] = leaseLocks /\ refs'[leaseLocks] = 0
          BY <3>1, <4>0, <4>2
        <5> QED
          BY <3>0, <3>2, <5>1, Zenon DEF BeingDeleted
      <4> QED
        BY <3>1, <4>0, <4>1, <4>2
    <3> QED
      BY <3>3, <3>4, <3>6, <3>7, Zenon DEF LockInv
  <2>7. ASSUME NEW g \in Goroutines, DeleteLock(g) PROVE LockInv'
    <3>0. /\ pc[g] = "deleteLock" /\ ll[g] \in Locks
          /\ \A h \in Goroutines \ {g} : pc'[h] = pc[h] /\ call'[h] = call[h]
          /\ UNCHANGED <<refs, ll>>
          /\ pc'[g] \in {"select", "returned"}
          /\ leaseLocks' = IF leaseLocks = ll[g] THEN NoLock ELSE leaseLocks
      BY <2>7 DEF TypeOK, DeleteLock, Released, Goto, LockInv, LLIsLock, UsesLL
    <3>1. LLIsLock'
      BY <3>0, Zenon DEF LockInv, LLIsLock, UsesLL
    <3>2. StoredOnce'
      <4> SUFFICES ASSUME NEW h \in Goroutines, NEW k \in Unstored(h)'
                   PROVE  k \in Unstored(h) /\ k # NoLock
        BY <3>0, Zenon DEF LockInv, StoredOnce
      <4>1. k \in Unstored(h)
        BY <3>0, Zenon DEF Unstored, Acquiring
      <4>2. Unstored(h) \subseteq Locks
        <5>1. <<h, call[h]>> \in Locks
          BY Zenon DEF TypeOK
        <5> QED
          BY <5>1, ListenLocks, Zenon DEF Unstored
      <4> QED
        BY <4>1, <4>2, NoLockAssumption, Zenon
    <3>3. CASE leaseLocks = ll[g]
      BY <3>0, <3>1, <3>2, <3>3, NoLockAssumption, Zenon
      DEF LockInv, LLIsLock, UsesLL, BackOutIsJustified, DeadEntryIsBeingDeleted
    <3>4. CASE leaseLocks # ll[g]
      <4>1. BeingDeleted => BeingDeleted'
        BY <3>0, <3>4, Zenon DEF BeingDeleted
      <4> QED
        BY <3>0, <3>1, <3>2, <3>4, <4>1, Zenon
        DEF LockInv, BackOutIsJustified, DeadEntryIsBeingDeleted, BeingDeleted
    <3> QED
      BY <3>3, <3>4, Zenon
  <2>8. ASSUME NEW g \in Goroutines, Lock(g) PROVE LockInv'
    <3>1. PICK to \in {"load", "swap", "closeDone"} : pc' = [pc EXCEPT ![g] = to]
      BY <2>8, Zenon DEF Lock, Goto, TypeOK, Calls
    <3>2. pc[g] = "lock" /\ UNCHANGED <<leaseLocks, refs, ll, call>>
      BY <2>8, Zenon DEF Lock, Goto, locks
    <3> QED
      BY <2>0, <3>1, <3>2, LockFrame, Zenon DEF UsesLL, Acquiring
  <2>9. ASSUME NEW g \in Goroutines, Unlock(g) PROVE LockInv'
    <3>1. PICK to \in {"deleteQueue", "loadLock"} : pc' = [pc EXCEPT ![g] = to]
      BY <2>9, Zenon DEF Unlock, Goto
    <3>2. pc[g] = "unlock" /\ UNCHANGED <<leaseLocks, refs, ll, call>>
      BY <2>9, Zenon DEF Unlock, Goto, locks
    <3> QED
      BY <2>0, <3>1, <3>2, LockFrame, Zenon DEF UsesLL, Acquiring
  <2>10. ASSUME NEW d \in Dialers, Load(d) PROVE LockInv'
    <3>1. PICK to \in {"unlock", "checkDone"} : pc' = [pc EXCEPT ![d] = to]
      BY <2>10, Zenon DEF Load, Goto
    <3>2. pc[d] = "load" /\ UNCHANGED <<leaseLocks, refs, ll, call>>
      BY <2>10, Zenon DEF Load, Goto, locks
    <3> QED
      BY <2>0, <3>1, <3>2, LockFrame, Zenon DEF UsesLL, Acquiring
  <2>11. ASSUME NEW d \in Dialers, CheckDone(d) PROVE LockInv'
    <3>1. PICK to \in {"unlock", "send"} : pc' = [pc EXCEPT ![d] = to]
      BY <2>11, Zenon DEF CheckDone, Goto
    <3>2. pc[d] = "checkDone" /\ UNCHANGED <<leaseLocks, refs, ll, call>>
      BY <2>11, Zenon DEF CheckDone, Goto, locks
    <3> QED
      BY <2>0, <3>1, <3>2, LockFrame, Zenon DEF UsesLL, Acquiring
  <2>12. ASSUME NEW d \in Dialers, Send(d) PROVE LockInv'
    <3>1. PICK to \in {"unlock"} : pc' = [pc EXCEPT ![d] = to]
      BY <2>12, Zenon DEF Send, Goto
    <3>2. pc[d] = "send" /\ UNCHANGED <<leaseLocks, refs, ll, call>>
      BY <2>12, Zenon DEF Send, Goto, locks
    <3> QED
      BY <2>0, <3>1, <3>2, LockFrame, Zenon DEF UsesLL, Acquiring
  <2>13. ASSUME NEW l \in Listeners, Swap(l) PROVE LockInv'
    <3>1. PICK to \in {"unlock", "closeOld"} : pc' = [pc EXCEPT ![l] = to]
      BY <2>13, Zenon DEF Swap, Goto
    <3>2. pc[l] = "swap" /\ UNCHANGED <<leaseLocks, refs, ll, call>>
      BY <2>13, Zenon DEF Swap, Goto, locks
    <3> QED
      BY <2>0, <3>1, <3>2, LockFrame, Zenon DEF UsesLL, Acquiring
  <2>14. ASSUME NEW l \in Listeners, CloseOld(l) PROVE LockInv'
    <3>1. PICK to \in {"unlock"} : pc' = [pc EXCEPT ![l] = to]
      BY <2>14, Zenon DEF CloseOld, Goto
    <3>2. pc[l] = "closeOld" /\ UNCHANGED <<leaseLocks, refs, ll, call>>
      BY <2>14, Zenon DEF CloseOld, Goto, locks
    <3> QED
      BY <2>0, <3>1, <3>2, LockFrame, Zenon DEF UsesLL, Acquiring
  <2>15. ASSUME NEW l \in Listeners, Select(l) PROVE LockInv'
    <3>1. PICK to \in {"select", "drain", "lock"} : pc' = [pc EXCEPT ![l] = to]
      BY <2>15, Zenon DEF Select, Goto, Leave, Deliver
    <3>2. pc[l] = "select" /\ UNCHANGED <<leaseLocks, refs, ll, call>>
      BY <2>15, Zenon DEF Select, Goto, Leave, Deliver, locks
    <3> QED
      BY <2>0, <3>1, <3>2, LockFrame, Zenon DEF UsesLL, Acquiring
  <2>16. ASSUME NEW l \in Listeners, Drain(l) PROVE LockInv'
    <3>1. PICK to \in {"drain", "lock"} : pc' = [pc EXCEPT ![l] = to]
      BY <2>16, Zenon DEF Drain, Goto, Leave, Deliver
    <3>2. pc[l] = "drain" /\ UNCHANGED <<leaseLocks, refs, ll, call>>
      BY <2>16, Zenon DEF Drain, Goto, Leave, Deliver, locks
    <3> QED
      BY <2>0, <3>1, <3>2, LockFrame, Zenon DEF UsesLL, Acquiring
  <2>17. ASSUME NEW l \in Listeners, CloseDone(l) PROVE LockInv'
    <3>1. PICK to \in {"unlock"} : pc' = [pc EXCEPT ![l] = to]
      BY <2>17, Zenon DEF CloseDone, Goto
    <3>2. pc[l] = "closeDone" /\ UNCHANGED <<leaseLocks, refs, ll, call>>
      BY <2>17, Zenon DEF CloseDone, Goto, locks
    <3> QED
      BY <2>0, <3>1, <3>2, LockFrame, Zenon DEF UsesLL, Acquiring
  <2>18. ASSUME NEW l \in Listeners, DeleteQueue(l) PROVE LockInv'
    <3>1. PICK to \in {"loadLock"} : pc' = [pc EXCEPT ![l] = to]
      BY <2>18, Zenon DEF DeleteQueue, Goto
    <3>2. pc[l] = "deleteQueue" /\ UNCHANGED <<leaseLocks, refs, ll, call>>
      BY <2>18, Zenon DEF DeleteQueue, Goto, locks
    <3> QED
      BY <2>0, <3>1, <3>2, LockFrame, Zenon DEF UsesLL, Acquiring
  <2>19. ASSUME NEW l \in Listeners, Cancel(l) PROVE LockInv'
    BY <2>19, Zenon
    DEF Cancel, locks, LockInv, LLIsLock, StoredOnce, Unstored, BackOutIsJustified,
        BeingDeleted, DeadEntryIsBeingDeleted
  <2>20. CASE UNCHANGED vars
    BY <2>20, Zenon
    DEF vars, LockInv, LLIsLock, StoredOnce, Unstored, BackOutIsJustified,
        BeingDeleted, DeadEntryIsBeingDeleted
  <2> QED
    BY <2>1, <2>2, <2>3, <2>4, <2>5, <2>6, <2>7, <2>8, <2>9, <2>10, <2>11, <2>12,
       <2>13, <2>14, <2>15, <2>16, <2>17, <2>18, <2>19, <2>20, Zenon
    DEF Next, LockStep, DialStep, ListenStep
<1> QED
  BY <1>1, <1>2, TypeCorrect, PTL DEF Spec

(* The retry loop of acquireLeaseLock only ever waits for a goroutine that *)
(* is about to delete the entry, for any number of concurrent Listen and   *)
(* Dial calls.                                                             *)
THEOREM RetryIsTransient == Spec => []DeadEntryIsBeingDeleted
<1>1. LockInv => DeadEntryIsBeingDeleted
  BY Zenon DEF LockInv
<1> QED
  BY <1>1, LockInvHolds, PTL

-----------------------------------------------------------------------------
(* A mutex that is locked is locked by a goroutine that is between its     *)
(* mu.Lock() and its mu.Unlock(), of this very mutex: no step there waits  *)
(* for anyone, so that whoever waits for the mutex waits for a step that   *)
(* can be taken.                                                           *)
LockedIsCritical ==
    \A k \in Locks : holder[k] # NoLock =>
      Critical(holder[k]) /\ mu[holder[k]][call[holder[k]]] = k

(* A caller has the mutex of each acquireLeaseLock it has returned from,   *)
(* and in its critical section it is the one who has locked it.            *)
HasMutex(g) ==
    /\ pc[g] \in Unreleased => mu[g][call[g]] \in Locks
    /\ call[g] = "swap" => mu[g]["listen"] \in Locks
    /\ Critical(g) => holder[mu[g][call[g]]] = g
MutexInv == LockedIsCritical /\ \A g \in Goroutines : HasMutex(g)

InCritical == {"load", "checkDone", "send", "swap", "closeOld", "closeDone", "unlock"}

(* A step that neither locks nor unlocks.                                  *)
LEMMA MutexFrame ==
    ASSUME TypeOK, MutexInv, NEW g \in Goroutines, NEW from, NEW to, At(g, from, to),
           UNCHANGED holder,
           \A h \in Goroutines \ {g} : mu'[h] = mu[h] /\ call'[h] = call[h],
           from \in InCritical <=> to \in InCritical,
           from \in InCritical => mu'[g] = mu[g] /\ call'[g] = call[g],
           to \in Unreleased => mu'[g][call'[g]] \in Locks,
           call'[g] = "swap" => mu'[g]["listen"] \in Locks
    PROVE  MutexInv'
<1>1. \A h \in Goroutines : Critical(h)' <=> Critical(h)
  BY Zenon DEF At, Critical, InCritical
<1>2. \A h \in Goroutines : Critical(h) => mu'[h] = mu[h] /\ call'[h] = call[h]
  BY Zenon DEF At, Critical, InCritical
<1>3. \A k \in Locks : holder[k] # NoLock => holder[k] \in Goroutines
  BY Zenon DEF TypeOK
<1>4. LockedIsCritical'
  BY <1>1, <1>2, <1>3 DEF MutexInv, LockedIsCritical
<1>5. \A h \in Goroutines \ {g} : HasMutex(h)'
  BY <1>1, Zenon DEF At, MutexInv, HasMutex
<1>6. HasMutex(g)'
  BY <1>1, <1>2, Zenon DEF At, MutexInv, HasMutex
<1> QED
  BY <1>4, <1>5, <1>6, Zenon DEF MutexInv

(* acquireLeaseLock returns a lock to its caller.                          *)
LEMMA AcquiredKeepsMutex ==
    ASSUME TypeOK, MutexInv, NEW g \in Goroutines, NEW from, NEW k \in Locks,
           from \notin InCritical, Acquired(g, from, k), UNCHANGED holder
    PROVE  MutexInv'
<1>1. call[g] \in Calls
  BY WhoCalls, Zenon
<1>2. /\ \A h \in Goroutines \ {g} : mu'[h] = mu[h]
      /\ \A c \in Calls : mu'[g][c] = IF c = call[g] THEN k ELSE mu[g][c]
  BY <1>1, Zenon DEF TypeOK, Acquired
<1>3. CASE call[g] = "listen"
  <2>1. /\ At(g, from, "loadOrStore") /\ call'[g] = "swap"
        /\ \A h \in Goroutines \ {g} : call'[h] = call[h]
    BY <1>3, GotoAt, Zenon DEF TypeOK, Acquired
  <2>2. mu'[g]["listen"] = k
    BY <1>2, <1>3, Zenon DEF Calls
  <2>3. "loadOrStore" \notin InCritical /\ "loadOrStore" \notin Unreleased
    BY Zenon DEF InCritical, Unreleased
  <2> QED
    BY <1>2, <2>1, <2>2, <2>3, MutexFrame, Zenon
<1>4. CASE call[g] # "listen"
  <2>1. At(g, from, "lock") /\ call' = call
    BY <1>4, GotoAt, Zenon DEF Acquired
  <2>2. mu'[g][call[g]] = k /\ (call[g] = "swap" => mu'[g]["listen"] \in Locks)
    BY <1>1, <1>2, <1>4, Zenon DEF Calls, MutexInv, HasMutex
  <2>3. "lock" \notin InCritical
    BY Zenon DEF InCritical
  <2> QED
    BY <1>2, <2>1, <2>2, <2>3, MutexFrame, Zenon
<1> QED
  BY <1>3, <1>4, Zenon

(* releaseLeaseLock returns.                                               *)
LEMMA ReleasedKeepsMutex ==
    ASSUME TypeOK, MutexInv, NEW g \in Goroutines, NEW from,
           from \notin InCritical, Released(g, from), UNCHANGED <<holder, mu>>
    PROVE  MutexInv'
<1>1. CASE call[g] = "swap"
  <2>1. /\ At(g, from, "select") /\ call'[g] = "listen"
        /\ \A h \in Goroutines \ {g} : call'[h] = call[h]
    BY <1>1, GotoAt, Zenon DEF TypeOK, Released
  <2>2. mu[g]["listen"] \in Locks /\ "select" \notin InCritical
    BY <1>1, Zenon DEF MutexInv, HasMutex, InCritical
  <2> QED
    BY <2>1, <2>2, MutexFrame, Zenon
<1>2. CASE call[g] # "swap"
  <2>1. At(g, from, "returned") /\ call' = call
    BY <1>2, GotoAt, Zenon DEF Released
  <2>2. "returned" \notin InCritical /\ "returned" \notin Unreleased
    BY Zenon DEF InCritical, Unreleased
  <2> QED
    BY <1>2, <2>1, <2>2, MutexFrame, Zenon
<1> QED
  BY <1>1, <1>2, Zenon

(* A step that stays on its side of the acquire, the lock and the unlock.  *)
LEMMA MoveKeepsMutex ==
    ASSUME TypeOK, MutexInv, NEW g \in Goroutines, NEW from, NEW to, Goto(g, from, to),
           from \in InCritical <=> to \in InCritical,
           to \in Unreleased => from \in Unreleased,
           UNCHANGED <<holder, mu, call>>
    PROVE  MutexInv'
<1>1. At(g, from, to)
  BY GotoAt, Zenon
<1>2. HasMutex(g) /\ pc[g] = from
  BY <1>1, Zenon DEF MutexInv, At
<1> QED
  BY <1>1, <1>2, MutexFrame, Zenon DEF HasMutex

(* mu.Lock() of a mutex that is free.                                      *)
LEMMA LockKeepsMutex ==
    ASSUME TypeOK, MutexInv, NEW g \in Goroutines, Lock(g)
    PROVE  MutexInv'
<1> DEFINE m == mu[g][call[g]]
<1>1. /\ m \in Locks /\ holder[m] = NoLock /\ UNCHANGED <<mu, call>>
      /\ \A k \in Locks : holder'[k] = IF k = m THEN g ELSE holder[k]
  <2>1. pc[g] = "lock" /\ "lock" \in Unreleased
    BY Zenon DEF Lock, Unreleased
  <2> QED
    BY <2>1, Zenon DEF MutexInv, HasMutex, Lock, TypeOK
<1>2. PICK to \in InCritical : At(g, "lock", to)
  <2>1. call[g] \in {"send", "swap", "listen"}
    BY WhoCalls, Zenon DEF Calls
  <2> QED
    BY <2>1, GotoAt, Zenon DEF Lock, InCritical
<1>3. \A h \in Goroutines : Critical(h) => mu[h][call[h]] # m
  BY <1>1, CallsAssumption, Zenon DEF MutexInv, HasMutex, Goroutines
<1>4. Critical(g)' /\ \A h \in Goroutines \ {g} : Critical(h)' <=> Critical(h)
  BY <1>2, Zenon DEF At, Critical, InCritical
<1>5. LockedIsCritical'
  <2>0. ~Critical(g)
    BY <1>2, Zenon DEF Critical, At
  <2>1. \A k \in Locks : holder[k] # NoLock => holder[k] \in Goroutines \ {g}
    BY <2>0, Zenon DEF TypeOK, MutexInv, LockedIsCritical
  <2> QED
    BY <1>1, <1>4, <2>1, Zenon DEF MutexInv, LockedIsCritical
<1>6. \A h \in Goroutines \ {g} : HasMutex(h)'
  <2>1. \A h \in Goroutines : pc[h] \in Unreleased => mu[h][call[h]] \in Locks
    BY Zenon DEF MutexInv, HasMutex
  <2>2. \A h \in Goroutines : Critical(h) => pc[h] \in Unreleased
    BY Zenon DEF Critical, Unreleased
  <2> QED
    BY <1>1, <1>2, <1>3, <1>4, <2>1, <2>2, Zenon DEF MutexInv, HasMutex, At
<1>7. HasMutex(g)'
  BY <1>1, Zenon DEF MutexInv, HasMutex
<1> QED
  BY <1>5, <1>6, <1>7, Zenon DEF MutexInv

(* mu.Unlock() of the mutex the goroutine has locked.                      *)
LEMMA UnlockKeepsMutex ==
    ASSUME TypeOK, MutexInv, NEW g \in Goroutines, Unlock(g)
    PROVE  MutexInv'
<1> DEFINE m == mu[g][call[g]]
<1>1. /\ m \in Locks /\ holder[m] = g /\ UNCHANGED <<mu, call>>
      /\ \A k \in Locks : holder'[k] = IF k = m THEN NoLock ELSE holder[k]
  <2>1. pc[g] = "unlock" /\ "unlock" \in Unreleased /\ Critical(g)
    BY Zenon DEF Unlock, Goto, Unreleased, Critical
  <2> QED
    BY <2>1, Zenon DEF MutexInv, HasMutex, Unlock, TypeOK
<1>2. PICK to \in {"deleteQueue", "loadLock"} : At(g, "unlock", to)
  BY GotoAt, Zenon DEF Unlock
<1>3. ~Critical(g)' /\ \A h \in Goroutines \ {g} : Critical(h)' <=> Critical(h)
  BY <1>2, Zenon DEF At, Critical
<1>4. LockedIsCritical'
  <2>1. \A k \in Locks \ {m} : holder[k] # NoLock => holder[k] \in Goroutines \ {g}
    BY Zenon DEF TypeOK, MutexInv, LockedIsCritical
  <2> QED
    BY <1>1, <1>3, <2>1, Zenon DEF MutexInv, LockedIsCritical
<1>5. \A h \in Goroutines \ {g} : HasMutex(h)'
  <2>1. \A h \in Goroutines \ {g} : Critical(h) => mu[h][call[h]] # m /\ mu[h][call[h]] \in Locks
    BY <1>1, Zenon DEF MutexInv, HasMutex, Critical, Unreleased
  <2> QED
    BY <1>1, <1>2, <1>3, <2>1, Zenon DEF MutexInv, HasMutex, At
<1>6. HasMutex(g)'
  BY <1>1, <1>3, Zenon DEF MutexInv, HasMutex
<1> QED
  BY <1>4, <1>5, <1>6, Zenon DEF MutexInv

(* The other steps of acquire and release.                                 *)
LEMMA LockStepKeepsMutex ==
    ASSUME TypeOK, LLIsLock, MutexInv, NEW g \in Goroutines, Start(g) \/ LockStep(g)
    PROVE  MutexInv'
<1>0. \A p \in Acquiring \cup UsesLL \cup {"loadLock", "returned"} : p \notin InCritical
  BY Zenon DEF Acquiring, UsesLL, InCritical
<1>1. CASE Start(g) \/ BackOut(g)
  <2>1. PICK from \in {"idle", "backOut"} : Goto(g, from, "loadOrStore")
    BY <1>1, Zenon DEF Start, BackOut
  <2>2. UNCHANGED <<holder, mu, call>>
    BY <1>1, Zenon DEF Start, BackOut, locks
  <2> QED
    BY <2>1, <2>2, MoveKeepsMutex, Zenon DEF InCritical, Unreleased
<1>2. CASE LoadOrStore(g)
  <2>1. CASE leaseLocks = NoLock
    <3>1. <<g, call[g]>> \in Locks
      BY Zenon DEF TypeOK
    <3>2. Acquired(g, "loadOrStore", <<g, call[g]>>) /\ UNCHANGED holder
      BY <1>2, <2>1, Zenon DEF LoadOrStore
    <3> QED
      BY <1>0, <3>1, <3>2, AcquiredKeepsMutex, Zenon DEF Acquiring
  <2>2. CASE leaseLocks # NoLock
    <3>1. Goto(g, "loadOrStore", "addRef") /\ UNCHANGED <<holder, mu, call>>
      BY <1>2, <2>2, Zenon DEF LoadOrStore
    <3> QED
      BY <3>1, MoveKeepsMutex, Zenon DEF InCritical, Unreleased
  <2> QED
    BY <2>1, <2>2, Zenon
<1>3. CASE AddRef(g)
  <2>1. ll[g] \in Locks /\ UNCHANGED holder
    BY <1>3, Zenon DEF AddRef, LLIsLock, UsesLL
  <2>2. CASE Goto(g, "addRef", "backOut") /\ UNCHANGED <<call, mu>>
    BY <2>1, <2>2, MoveKeepsMutex, Zenon DEF InCritical, Unreleased
  <2>3. CASE Acquired(g, "addRef", ll[g])
    BY <1>0, <2>1, <2>3, AcquiredKeepsMutex, Zenon DEF Acquiring
  <2> QED
    BY <1>3, <2>2, <2>3, Zenon DEF AddRef
<1>4. CASE LoadLock(g) \/ DecRef(g) \/ DeleteLock(g)
  <2>1. UNCHANGED <<holder, mu>>
    BY <1>4, Zenon DEF LoadLock, DecRef, DeleteLock, locks
  <2>2. CASE \E from \in {"loadLock", "decRef", "deleteLock"} : Released(g, from)
    BY <1>0, <2>1, <2>2, ReleasedKeepsMutex, Zenon DEF UsesLL
  <2>3. CASE Goto(g, "loadLock", "decRef") /\ UNCHANGED call
    BY <2>1, <2>3, MoveKeepsMutex, Zenon DEF InCritical, Unreleased
  <2>4. CASE Goto(g, "decRef", "deleteLock") /\ UNCHANGED call
    BY <2>1, <2>4, MoveKeepsMutex, Zenon DEF InCritical, Unreleased
  <2> QED
    BY <1>4, <2>2, <2>3, <2>4, Zenon DEF LoadLock, DecRef, DeleteLock
<1> QED
  BY <1>1, <1>2, <1>3, <1>4, LockKeepsMutex, UnlockKeepsMutex, Zenon DEF LockStep

(* What is done with the mutex locked, and the loop of Listen.             *)
LEMMA BodyKeepsMutex ==
    ASSUME TypeOK, MutexInv, NEW g \in Goroutines, DialStep(g) \/ ListenStep(g)
    PROVE  MutexInv'
<1>1. UNCHANGED <<holder, mu, call>>
  BY Zenon DEF DialStep, Load, CheckDone, Send, ListenStep, Swap, CloseOld, Select, Drain,
               CloseDone, DeleteQueue, locks
<1>2. CASE DialStep(g) \/ Swap(g) \/ CloseOld(g) \/ CloseDone(g)
  <2>1. \E from, to \in InCritical : Goto(g, from, to)
    BY <1>2, Zenon DEF DialStep, Load, CheckDone, Send, Swap, CloseOld, CloseDone, InCritical
  <2>2. InCritical \subseteq Unreleased
    BY Zenon DEF InCritical, Unreleased
  <2> QED
    BY <1>1, <2>1, <2>2, MoveKeepsMutex, Zenon
<1>3. CASE Select(g) \/ Drain(g) \/ DeleteQueue(g)
  <2> DEFINE Loop == {"select", "drain", "lock", "deleteQueue", "loadLock"}
  <2>1. \E from, to \in Loop : Goto(g, from, to)
    BY <1>3, Zenon DEF Select, Drain, DeleteQueue, Deliver, Leave
  <2>2. Loop \subseteq Unreleased /\ \A p \in Loop : p \notin InCritical
    BY Zenon DEF InCritical, Unreleased
  <2> HIDE DEF Loop
  <2> QED
    BY <1>1, <2>1, <2>2, MoveKeepsMutex, Zenon
<1> QED
  BY <1>2, <1>3, Zenon DEF ListenStep

(* No call is stuck at a mutex that its holder will not unlock: however    *)
(* many Listen and Dial calls race, and also when they use different       *)
(* mutexes for the lease, a mutex that is locked is locked by a goroutine  *)
(* in the critical section it guards, in which no step waits.  With        *)
(* RetryIsTransient this covers both places where acquiring may wait       *)
(* (controller_service.go:116, 154, 179, 630).                             *)
THEOREM MutexHolderIsCritical == Spec => []LockedIsCritical
<1>1. Init => MutexInv
  <2> SUFFICES ASSUME Init PROVE MutexInv
    OBVIOUS
  <2>1. /\ \A k \in Locks : holder[k] = NoLock
        /\ \A g \in Goroutines : pc[g] = "idle" /\ call[g] # "swap"
    BY Zenon DEF Init
  <2> QED
    BY <2>1, Zenon DEF MutexInv, LockedIsCritical, HasMutex, Critical, Unreleased
<1>2. TypeOK /\ LockInv /\ MutexInv /\ [Next]_vars => MutexInv'
  <2> SUFFICES ASSUME TypeOK, LockInv, MutexInv, [Next]_vars PROVE MutexInv'
    OBVIOUS
  <2>1. LLIsLock
    BY Zenon DEF LockInv
  <2>2. CASE UNCHANGED vars \/ \E l \in Listeners : Cancel(l)
    BY <2>2, Zenon
    DEF vars, Cancel, locks, MutexInv, LockedIsCritical, HasMutex, Critical
  <2> QED
    BY <2>1, <2>2, LockStepKeepsMutex, BodyKeepsMutex, Members, Zenon DEF Next
<1>3. MutexInv => LockedIsCritical
  BY Zenon DEF MutexInv
<1> QED
  BY <1>1, <1>2, <1>3, LockInvHolds, TypeCorrect, PTL DEF Spec

-----------------------------------------------------------------------------
(* Listener l has been told, or is about to be, that it was superseded.    *)
Told(l) == done[l] \/ \E m \in Listeners : pc[m] = "closeOld" /\ q[m] = l

(* Listener l has put its queue into the map, and not yet taken it out.    *)
SwappedIn(l) ==
    \/ pc[l] \in {"closeOld", "unlock", "select", "drain", "closeDone", "deleteQueue"}
    \/ call[l] = "swap" /\ pc[l] \in {"loadLock", "decRef", "deleteLock"}
    \/ call[l] = "listen" /\ pc[l] = "lock"

(* A Listen call in its loop whose queue is not the lease's any more has   *)
(* its done channel closed, or the call that replaced it is about to close *)
(* it.                                                                     *)
SupersededIsTold ==
    \A l \in Listeners : pc[l] = "select" /\ listenQueues # l => Told(l)

ToldInv == \A l \in Listeners :
    /\ SwappedIn(l) /\ listenQueues # l => Told(l)
    /\ pc[l] = "deleteQueue" => call[l] = "listen"

(* A step that leaves the map alone and closes no queue.                   *)
LEMMA ToldFrame ==
    ASSUME TypeOK, ToldInv, UNCHANGED <<listenQueues, done>>,
           \A m \in Listeners : pc[m] = "closeOld" => pc'[m] = "closeOld" /\ q'[m] = q[m],
           \A l \in Listeners : SwappedIn(l)' => SwappedIn(l),
           \A l \in Listeners : pc'[l] = "deleteQueue" => call'[l] = "listen"
    PROVE  ToldInv'
<1>1. \A l \in Listeners : Told(l) => Told(l)'
  BY Zenon DEF Told
<1> QED
  BY <1>1, Zenon DEF ToldInv

LEMMA ToldLockStep ==
    ASSUME TypeOK, ToldInv, NEW g \in Goroutines, Start(g) \/ LockStep(g)
    PROVE  ToldInv'
<1>1. UNCHANGED <<listenQueues, done, q>>
  BY Zenon DEF Start, LockStep, LoadOrStore, AddRef, BackOut, Lock, Unlock, LoadLock,
               DecRef, DeleteLock, queues
<1>2. PICK to : pc' = [pc EXCEPT ![g] = to]
  BY Zenon DEF Start, LockStep, LoadOrStore, AddRef, BackOut, Lock, Unlock, LoadLock,
               DecRef, DeleteLock, Acquired, Released, Goto
<1>3. \A h \in Goroutines : pc'[h] = IF h = g THEN to ELSE pc[h]
  BY <1>2, Zenon DEF TypeOK
<1>4. \A h \in Goroutines \ {g} : call'[h] = call[h]
  BY Zenon DEF TypeOK, Start, LockStep, LoadOrStore, AddRef, BackOut, Lock, Unlock, LoadLock,
               DecRef, DeleteLock, Acquired, Released, Goto
<1>5. pc[g] # "closeOld"
  BY Zenon DEF Start, LockStep, LoadOrStore, AddRef, BackOut, Lock, Unlock, LoadLock,
               DecRef, DeleteLock, Acquired, Released, Goto
<1>6. g \in Listeners => (SwappedIn(g)' => SwappedIn(g)) /\ (pc'[g] = "deleteQueue" => call'[g] = "listen")
  <2> SUFFICES ASSUME g \in Listeners
               PROVE  (SwappedIn(g)' => SwappedIn(g)) /\ (pc'[g] = "deleteQueue" => call'[g] = "listen")
    OBVIOUS
  <2>0. call[g] \in {"listen", "swap"} /\ call \in [Goroutines -> Calls]
    BY WhoCalls, Zenon DEF TypeOK
  <2>1. CASE Start(g) \/ BackOut(g) \/ LoadOrStore(g) \/ AddRef(g)
    <3>1. pc'[g] \in {"loadOrStore", "addRef", "backOut"} \/ (pc'[g] = "lock" /\ call'[g] = call[g] /\ call[g] # "listen")
      BY <2>1, Zenon DEF TypeOK, Start, BackOut, LoadOrStore, AddRef, Acquired, Goto
    <3> QED
      BY <3>1, Zenon DEF SwappedIn
  <2>2. CASE Lock(g)
    <3>1. call' = call /\ pc[g] = "lock" /\ pc'[g] = IF call[g] = "swap" THEN "swap" ELSE "closeDone"
      BY <2>0, <2>2, Zenon DEF TypeOK, Lock, Goto
    <3> QED
      BY <2>0, <3>1, Zenon DEF SwappedIn
  <2>3. CASE Unlock(g)
    BY <2>3, Zenon DEF TypeOK, Unlock, Goto, SwappedIn
  <2>4. CASE LoadLock(g) \/ DecRef(g) \/ DeleteLock(g)
    <3>1. pc[g] \in {"loadLock", "decRef", "deleteLock"}
      BY <2>4, Zenon DEF LoadLock, DecRef, DeleteLock, Released, Goto
    <3>2. \/ pc'[g] \in {"decRef", "deleteLock"} /\ call' = call
          \/ pc'[g] = "select" /\ call[g] = "swap"
          \/ pc'[g] = "returned"
      BY <2>4, Zenon DEF TypeOK, LoadLock, DecRef, DeleteLock, Released, Goto
    <3> QED
      BY <3>1, <3>2, Zenon DEF SwappedIn
  <2> QED
    BY <2>1, <2>2, <2>3, <2>4, Zenon DEF LockStep
<1>7. \A l \in Listeners : (SwappedIn(l)' => SwappedIn(l)) /\ (pc'[l] = "deleteQueue" => call'[l] = "listen")
  BY <1>3, <1>4, <1>6, Members, Zenon DEF SwappedIn, ToldInv
<1>8. \A m \in Listeners : pc[m] = "closeOld" => pc'[m] = "closeOld" /\ q'[m] = q[m]
  BY <1>1, <1>3, <1>5, Members, Zenon
<1> QED
  BY <1>1, <1>7, <1>8, ToldFrame, Zenon

LEMMA ToldDialStep ==
    ASSUME TypeOK, ToldInv, NEW d \in Dialers, DialStep(d)
    PROVE  ToldInv'
<1>1. UNCHANGED <<listenQueues, done, call>>
  BY Zenon DEF DialStep, Load, CheckDone, Send, queues
<1>0. \A l \in Listeners : l \in Goroutines /\ l # d
  BY Members, Zenon
<1>2. \A l \in Listeners : pc'[l] = pc[l] /\ q'[l] = q[l]
  <2>1. (\E to : pc' = [pc EXCEPT ![d] = to]) /\ (q' = q \/ q' = [q EXCEPT ![d] = listenQueues])
    BY Zenon DEF DialStep, Load, CheckDone, Send, Goto
  <2> QED
    BY <1>0, <2>1, Zenon DEF TypeOK
<1>3. \A l \in Listeners : SwappedIn(l)' <=> SwappedIn(l)
  BY <1>1, <1>2, Zenon DEF SwappedIn
<1> QED
  BY <1>1, <1>2, <1>3, ToldFrame, Zenon DEF ToldInv

(* Swap leaves its caller with the queue it has to close.                  *)
LEMMA ToldSwap ==
    ASSUME TypeOK, ToldInv, NEW l \in Listeners, Swap(l)
    PROVE  ToldInv'
<1>1. /\ UNCHANGED <<done, call>> /\ listenQueues' = l /\ pc[l] = "swap"
      /\ \A m \in Listeners \ {l} : pc'[m] = pc[m] /\ q'[m] = q[m]
      /\ pc'[l] = IF listenQueues = NoQueue THEN "unlock" ELSE "closeOld"
      /\ q'[l] = listenQueues
  BY Members, Zenon DEF TypeOK, Swap, Goto
<1>2. ASSUME NEW m \in Listeners \ {l}, SwappedIn(m) PROVE Told(m)'
  <2>1. CASE listenQueues = m
    <3>1. pc'[l] = "closeOld" /\ q'[l] = m
      BY <1>1, <2>1, CallsAssumption, Zenon
    <3> QED
      BY <3>1, Zenon DEF Told
  <2>2. CASE listenQueues # m
    <3>1. Told(m)
      BY <1>2, <2>2, Zenon DEF ToldInv
    <3> QED
      BY <1>1, <3>1, Zenon DEF Told
  <2> QED
    BY <2>1, <2>2, Zenon
<1>3. \A m \in Listeners \ {l} : SwappedIn(m)' <=> SwappedIn(m)
  BY <1>1, Zenon DEF SwappedIn
<1> QED
  BY <1>1, <1>2, <1>3, Zenon DEF ToldInv

LEMMA ToldListenStep ==
    ASSUME TypeOK, ToldInv, NEW l \in Listeners, ListenStep(l) \/ Cancel(l)
    PROVE  ToldInv'
<1>1. CASE CloseOld(l)
  <2>1. /\ UNCHANGED <<listenQueues, call, q>> /\ pc[l] = "closeOld" /\ pc'[l] = "unlock"
        /\ \A m \in Listeners \ {l} : pc'[m] = pc[m]
        /\ \A m \in Listeners : done[m] \/ q[l] = m => done'[m]
    BY <1>1, Members, Zenon DEF TypeOK, CloseOld, Goto
  <2>2. \A m \in Listeners : Told(m) => Told(m)'
    BY <2>1, Zenon DEF Told
  <2>3. \A m \in Listeners : SwappedIn(m)' => SwappedIn(m)
    BY <2>1, Zenon DEF SwappedIn
  <2> QED
    BY <2>1, <2>2, <2>3, Zenon DEF ToldInv
<1>2. CASE CloseDone(l)
  <2>1. /\ UNCHANGED <<listenQueues, call, q>> /\ pc[l] = "closeDone" /\ pc'[l] = "unlock"
        /\ \A m \in Listeners \ {l} : pc'[m] = pc[m]
        /\ \A m \in Listeners : done[m] => done'[m]
    BY <1>2, Members, Zenon DEF TypeOK, CloseDone, Goto
  <2>2. \A m \in Listeners : Told(m) => Told(m)'
    BY <2>1, Zenon DEF Told
  <2>3. \A m \in Listeners : SwappedIn(m)' => SwappedIn(m)
    BY <2>1, Zenon DEF SwappedIn
  <2> QED
    BY <2>1, <2>2, <2>3, Zenon DEF ToldInv
<1>3. CASE DeleteQueue(l)
  <2>1. /\ UNCHANGED <<done, call, q>> /\ pc[l] = "deleteQueue" /\ pc'[l] = "loadLock"
        /\ \A m \in Listeners \ {l} : pc'[m] = pc[m]
        /\ listenQueues' = IF listenQueues = l THEN NoQueue ELSE listenQueues
    BY <1>3, Members, Zenon DEF TypeOK, DeleteQueue, Goto
  <2>2. call[l] = "listen"
    BY <2>1, Zenon DEF ToldInv
  <2>3. \A m \in Listeners : Told(m) => Told(m)'
    BY <2>1, Zenon DEF Told
  <2>4. ~SwappedIn(l)' /\ \A m \in Listeners \ {l} : SwappedIn(m)' => SwappedIn(m)
    BY <2>1, <2>2, Zenon DEF SwappedIn
  <2> QED
    BY <2>1, <2>3, <2>4, Zenon DEF ToldInv
<1>4. CASE Select(l) \/ Drain(l)
  <2>1. /\ UNCHANGED <<listenQueues, done, call, q>>
        /\ \A m \in Listeners \ {l} : pc'[m] = pc[m]
        /\ pc[l] \in {"select", "drain"} /\ pc'[l] \in {"select", "drain", "lock"}
    BY <1>4, Members, Zenon DEF TypeOK, Select, Drain, Deliver, Leave, Goto
  <2>2. \A m \in Listeners : SwappedIn(m)' => SwappedIn(m)
    BY <2>1, Zenon DEF SwappedIn
  <2> QED
    BY <2>1, <2>2, ToldFrame, Zenon DEF ToldInv
<1>5. CASE Cancel(l)
  <2>1. UNCHANGED <<listenQueues, done, call, q, pc>>
    BY <1>5, Zenon DEF Cancel, queues
  <2> QED
    BY <2>1, Zenon DEF ToldInv, Told, SwappedIn
<1> QED
  BY <1>1, <1>2, <1>3, <1>4, <1>5, ToldSwap, Zenon DEF ListenStep

(* A superseded Listen call is never left in its loop unaware: in every    *)
(* interleaving of Listen and Dial calls its done channel is closed, or    *)
(* the goroutine that replaced it is about to close it                     *)
(* (controller_service.go:157).                                            *)
THEOREM SupersededLearns == Spec => []SupersededIsTold
<1>1. Init => ToldInv
  <2>1. Init => \A l \in Listeners : pc[l] = "idle"
    BY Zenon DEF Init, Goroutines
  <2> QED
    BY <2>1, Zenon DEF ToldInv, SwappedIn
<1>2. TypeOK /\ ToldInv /\ [Next]_vars => ToldInv'
  <2> SUFFICES ASSUME TypeOK, ToldInv, [Next]_vars PROVE ToldInv'
    OBVIOUS
  <2>1. CASE UNCHANGED vars
    BY <2>1, Zenon DEF vars, ToldInv, Told, SwappedIn
  <2> QED
    BY <2>1, ToldLockStep, ToldDialStep, ToldListenStep, Zenon DEF Next
<1>3. ToldInv => SupersededIsTold
  BY Zenon DEF ToldInv, SwappedIn, SupersededIsTold
<1> QED
  BY <1>1, <1>2, <1>3, TypeCorrect, PTL DEF Spec

-----------------------------------------------------------------------------
(* The token of d is in the channel of listener l.                         *)
Queued(l, d) == \E i \in 1..Len(ch[l]) : ch[l][i] = d

(* A token that sendToListener has accepted is in the channel it was sent  *)
(* to until it is delivered, or the stream it was meant for ends.          *)
AcceptedIsKept ==
    \A d \in Dialers :
      result[d] = "ok" => d \in delivered \/ q[d] \in cancelled \/ Queued(q[d], d)

(* What is in a channel was accepted for it, has not been delivered and is *)
(* there once: no token reaches the exporter twice, or on two streams.     *)
QueuedOnce ==
    \A l \in Listeners : \A i \in 1..Len(ch[l]) :
      /\ result[ch[l][i]] = "ok" /\ q[ch[l][i]] = l /\ ch[l][i] \notin delivered
      /\ \A j \in 1..Len(ch[l]) : ch[l][j] = ch[l][i] => j = i

(* Only a Dial call that is past its send was accepted or delivered, and   *)
(* from its load on it has a queue.                                        *)
Sent == {"unlock", "loadLock", "decRef", "deleteLock", "returned"}
Sends(d) == /\ result[d] = "ok" => pc[d] \in Sent
            /\ result[d] = "ok" \/ pc[d] \in {"checkDone", "send"} => q[d] \in Listeners
TokenInv ==
    /\ \A d \in Dialers : Sends(d)
    /\ \A d \in delivered : result[d] = "ok"
    /\ AcceptedIsKept
    /\ QueuedOnce

(* A step that moves no token and decides nothing about one.               *)
LEMMA TokenFrame ==
    ASSUME TypeOK, TokenInv, UNCHANGED <<ch, delivered>>, cancelled \subseteq cancelled',
           \A d \in Dialers : \/ result'[d] = result[d] /\ q'[d] = q[d]
                              \/ result[d] # "ok" /\ result'[d] # "ok",
           \A d \in Dialers : Sends(d)'
    PROVE  TokenInv'
<1>1. \A l \in Listeners : \A i \in 1..Len(ch[l]) : ch[l][i] \in Dialers
  BY DEF TypeOK
<1>2. delivered \subseteq Dialers
  BY Zenon DEF TypeOK
<1>3. QueuedOnce'
  <2>1. ASSUME NEW l \in Listeners, NEW i \in 1..Len(ch[l])
        PROVE  /\ result'[ch[l][i]] = "ok" /\ q'[ch[l][i]] = l /\ ch[l][i] \notin delivered
               /\ \A j \in 1..Len(ch[l]) : ch[l][j] = ch[l][i] => j = i
    BY <1>1, <2>1, Zenon DEF TokenInv, QueuedOnce
  <2> QED
    BY <2>1, Zenon DEF QueuedOnce
<1>4. AcceptedIsKept'
  BY Zenon DEF TokenInv, AcceptedIsKept, Queued
<1>6. \A d \in delivered' : result'[d] = "ok"
  BY <1>2, Zenon DEF TokenInv
<1> QED
  BY <1>3, <1>4, <1>6, Zenon DEF TokenInv

(* Steps of acquire and release, for the caller's own position.            *)
LEMMA TokenLockStep ==
    ASSUME TypeOK, TokenInv, NEW g \in Goroutines, Start(g) \/ LockStep(g)
    PROVE  TokenInv'
<1>1. UNCHANGED <<ch, delivered, cancelled, result, q>>
  BY Zenon DEF Start, LockStep, LoadOrStore, AddRef, BackOut, Lock, Unlock, LoadLock,
               DecRef, DeleteLock, queues
<1>2. g \in Dialers => call[g] = "send"
  <2>1. <<g, call[g]>> \in Locks
    BY Zenon DEF TypeOK
  <2> QED
    BY <2>1, CallsAssumption, Zenon DEF Locks
<1>3. PICK to \in PCs : pc' = [pc EXCEPT ![g] = to]
                        /\ (g \in Dialers /\ pc[g] \in Sent => to \in Sent)
                        /\ to \notin {"checkDone", "send"}
  BY <1>2, ZenonT(40)
  DEF Start, LockStep, LoadOrStore, AddRef, BackOut, Lock, Unlock, LoadLock,
      DecRef, DeleteLock, Acquired, Released, Goto, PCs, Sent, TypeOK, Calls
<1>4. \A d \in Dialers : Sends(d)'
  BY <1>1, <1>3, Zenon DEF TypeOK, Goroutines, TokenInv, Sends
<1> QED
  BY <1>1, <1>4, TokenFrame, Zenon

(* sendToListener appends the token to the channel, or gives up on it.     *)
LEMMA TokenDialStep ==
    ASSUME TypeOK, TokenInv, NEW d \in Dialers, DialStep(d)
    PROVE  TokenInv'
<1>0. d \in Goroutines /\ Dialers \subseteq Goroutines
  BY Zenon DEF Goroutines
<1>1. result[d] # "ok" /\ \A e \in Dialers \ {d} : pc'[e] = pc[e] /\ result'[e] = result[e] /\ q'[e] = q[e]
  <2>1. pc[d] \notin Sent
    BY Zenon DEF DialStep, Load, CheckDone, Send, Goto, Sent
  <2> QED
    BY <1>0, <2>1, Zenon DEF TokenInv, Sends, TypeOK, DialStep, Load, CheckDone, Send, Goto
<1>2. UNCHANGED <<delivered, cancelled>>
  BY Zenon DEF DialStep, Load, CheckDone, Send
<1>3. CASE ch' = ch /\ result'[d] # "ok" /\ Sends(d)'
  <2>1. \A e \in Dialers \ {d} : Sends(e)'
    BY <1>1, Zenon DEF TokenInv, Sends
  <2> QED
    BY <1>1, <1>2, <1>3, <2>1, TokenFrame, Zenon
<1>4. CASE /\ ch' = [ch EXCEPT ![q[d]] = Append(ch[q[d]], d)]
           /\ result'[d] = "ok" /\ pc'[d] = "unlock" /\ q' = q /\ q[d] \in Listeners
  <2> DEFINE l == q[d]
  <2>1. ch[l] \in Seq(Dialers) /\ \A m \in Listeners : ch[m] \in Seq(Dialers)
    BY <1>4, Zenon DEF TypeOK
  <2>2. /\ Len(ch'[l]) = Len(ch[l]) + 1 /\ ch'[l][Len(ch[l]) + 1] = d
        /\ \A i \in 1..Len(ch[l]) : ch'[l][i] = ch[l][i]
        /\ Len(ch[l]) \in Nat
    <3>1. ch'[l] = Append(ch[l], d)
      BY <1>4, Zenon DEF TypeOK
    <3> QED
      BY <2>1, <3>1
  <2>3. \A m \in Listeners \ {l} : ch'[m] = ch[m]
    BY <1>4, Zenon DEF TypeOK
  <2>4. \A m \in Listeners : \A i \in 1..Len(ch[m]) : ch[m][i] \in Dialers \ {d}
    <3>1. \A m \in Listeners : \A i \in 1..Len(ch[m]) : ch[m][i] \in Dialers
      BY <2>1
    <3>2. \A m \in Listeners : \A i \in 1..Len(ch[m]) : result[ch[m][i]] = "ok"
      BY Zenon DEF TokenInv, QueuedOnce
    <3> QED
      BY <1>1, <3>1, <3>2
  <2>0. QueuedOnce
    BY Zenon DEF TokenInv
  <2>5. delivered \subseteq Dialers \ {d}
    BY <1>1, Zenon DEF TokenInv, TypeOK
  <2>6. \A i \in 1..Len(ch'[l]) : i \in 1..Len(ch[l]) \/ i = Len(ch[l]) + 1
    BY <2>2
  <2>7. Len(ch[l]) + 1 \in 1..Len(ch'[l]) /\ \A i \in 1..Len(ch[l]) : i \in 1..Len(ch'[l])
    BY <2>2
  <2>8. ASSUME NEW m \in Listeners, NEW i \in 1..Len(ch'[m])
        PROVE  /\ result'[ch'[m][i]] = "ok" /\ q'[ch'[m][i]] = m /\ ch'[m][i] \notin delivered'
               /\ \A j \in 1..Len(ch'[m]) : ch'[m][j] = ch'[m][i] => j = i
    <3>1. CASE m # l
      <4>1. i \in 1..Len(ch[m]) /\ ch'[m] = ch[m]
        BY <2>3, <2>8, <3>1, Zenon
      <4>2. ch[m][i] \in Dialers \ {d}
        BY <2>4, <4>1, Zenon
      <4> QED
        BY <1>1, <1>2, <2>0, <4>1, <4>2 DEF QueuedOnce
    <3>2. CASE m = l /\ i = Len(ch[l]) + 1
      <4>1. ch'[m][i] = d /\ d \notin delivered'
        BY <1>2, <2>2, <2>5, <3>2, Zenon
      <4>2. \A j \in 1..Len(ch'[m]) : ch'[m][j] = d => j = i
        BY <2>2, <2>4, <2>6, <1>4, <3>2, Zenon
      <4> QED
        BY <1>4, <3>2, <4>1, <4>2, Zenon
    <3>3. CASE m = l /\ i \in 1..Len(ch[l])
      <4>1. ch'[m][i] = ch[l][i] /\ ch[l][i] \in Dialers \ {d}
        BY <2>2, <2>4, <1>4, <3>3, Zenon
      <4>2. \A j \in 1..Len(ch'[m]) : ch'[m][j] = ch[l][i] => j = i
        BY <2>0, <2>2, <2>6, <1>4, <3>3, <4>1 DEF QueuedOnce
      <4> QED
        BY <1>1, <1>2, <1>4, <2>0, <3>3, <4>1, <4>2 DEF QueuedOnce
    <3> QED
      BY <2>6, <2>8, <3>1, <3>2, <3>3, Zenon
  <2>9. QueuedOnce'
    BY <2>8, Zenon DEF QueuedOnce
  <2>10. ASSUME NEW e \in Dialers, result'[e] = "ok"
         PROVE  e \in delivered' \/ q'[e] \in cancelled' \/ Queued(q[e], e)'
    <3>1. CASE e = d
      BY <1>4, <2>2, <2>7, <3>1, Zenon DEF Queued
    <3>2. CASE e # d /\ Queued(q[e], e)
      <4>1. PICK i \in 1..Len(ch[q[e]]) : ch[q[e]][i] = e
        BY <3>2, Zenon DEF Queued
      <4>2. CASE q[e] = l
        BY <1>4, <2>2, <2>7, <4>1, <4>2, Zenon DEF Queued
      <4>3. CASE q[e] # l
        <5>1. ch'[q[e]] = ch[q[e]]
          BY <1>1, <2>3, <2>10, <3>2, <4>3, Zenon DEF TokenInv, Sends
        <5> QED
          BY <1>4, <4>1, <5>1, Zenon DEF Queued
      <4> QED
        BY <4>2, <4>3, Zenon
    <3> QED
      BY <1>1, <1>2, <2>10, <3>1, <3>2, Zenon DEF TokenInv, AcceptedIsKept
  <2>11. AcceptedIsKept'
    BY <2>10, Zenon DEF AcceptedIsKept
  <2>12. \A e \in Dialers : Sends(e)'
    BY <1>1, <1>4, Zenon DEF TokenInv, Sends, Sent
  <2>13. \A e \in delivered' : result'[e] = "ok"
    BY <1>1, <1>2, <2>5, Zenon DEF TokenInv
  <2> QED
    BY <2>9, <2>11, <2>12, <2>13, Zenon DEF TokenInv
<1>5. CASE Load(d)
  <2>1. ch' = ch /\ result'[d] # "ok"
    BY <1>0, <1>1, <1>5, Zenon DEF TypeOK, Load, queues
  <2>2. pc'[d] = "unlock" \/ q'[d] \in Listeners
    BY <1>0, <1>5, Zenon DEF TypeOK, Load, Goto
  <2> QED
    BY <1>3, <2>1, <2>2, Zenon DEF Sends
<1>6. CASE CheckDone(d)
  <2>1. ch' = ch /\ result'[d] # "ok" /\ q' = q /\ pc[d] = "checkDone"
    <3>1. result' = result \/ result' = [result EXCEPT ![d] = "unavailable"]
      BY <1>6, Zenon DEF CheckDone
    <3> QED
      BY <1>0, <1>1, <1>6, <3>1 DEF TypeOK, CheckDone, queues
  <2> QED
    BY <1>3, <2>1, Zenon DEF TokenInv, Sends
<1>7. CASE Send(d)
  <2>1. q' = q /\ pc[d] = "send" /\ q[d] \in Listeners /\ pc'[d] = "unlock"
    BY <1>0, <1>7, Zenon DEF TypeOK, Send, Goto, TokenInv, Sends
  <2>2. \/ ch' = ch /\ result'[d] # "ok"
        \/ ch' = [ch EXCEPT ![q[d]] = Append(ch[q[d]], d)] /\ result'[d] = "ok"
    BY <1>0, <1>7, Zenon DEF TypeOK, Send
  <2> QED
    BY <1>3, <1>4, <2>1, <2>2, Zenon DEF Sends
<1> QED
  BY <1>5, <1>6, <1>7, Zenon DEF DialStep

(* Listen takes the first token from its channel: it is sent on, or the    *)
(* stream has ended.                                                       *)
LEMMA TokenDeliver ==
    ASSUME TypeOK, TokenInv, NEW l \in Listeners, NEW from, Deliver(l, from),
           UNCHANGED <<cancelled, q>>
    PROVE  TokenInv'
<1>0. l \in Goroutines /\ l \notin Dialers /\ Dialers \subseteq Goroutines
  BY CallsAssumption, Zenon DEF Goroutines
<1> DEFINE h == Head(ch[l])
<1>1. \A m \in Listeners : ch[m] \in Seq(Dialers)
  BY Zenon DEF TypeOK
<1>2. /\ Len(ch'[l]) = Len(ch[l]) - 1 /\ Len(ch[l]) \in Nat \ {0}
      /\ \A i \in 1..Len(ch'[l]) : ch'[l][i] = ch[l][i + 1]
      /\ h = ch[l][1] /\ h \in Dialers
  <2>1. ch'[l] = Tail(ch[l]) /\ ch[l] # <<>>
    BY Zenon DEF TypeOK, Deliver
  <2> QED
    BY <1>1, <2>1
<1>3. \A m \in Listeners \ {l} : ch'[m] = ch[m]
  BY Zenon DEF TypeOK, Deliver
<1>4. \A d \in Dialers : pc'[d] = pc[d] /\ result'[d] = result[d]
  BY <1>0, Zenon DEF TypeOK, Deliver, Leave, Goto
<1>5. \/ delivered' = delivered \cup {h} /\ l \notin cancelled
      \/ delivered' = delivered /\ l \in cancelled
  BY Zenon DEF Deliver
<1>6. QueuedOnce /\ AcceptedIsKept
  BY Zenon DEF TokenInv
<1>7. 1 \in 1..Len(ch[l]) /\ \A i \in 1..Len(ch'[l]) : i + 1 \in 1..Len(ch[l]) /\ i + 1 # 1
  BY <1>2
<1>8. result[h] = "ok" /\ q[h] = l
  BY <1>2, <1>6, <1>7 DEF QueuedOnce
<1>9. \A d \in Dialers : Sends(d)'
  BY <1>4, Zenon DEF TokenInv, Sends
<1>10. \A d \in delivered' : result'[d] = "ok"
  <2>1. delivered \subseteq Dialers
    BY Zenon DEF TypeOK
  <2> QED
    BY <1>2, <1>4, <1>5, <1>8, <2>1, Zenon DEF TokenInv
<1>11. ASSUME NEW m \in Listeners, NEW i \in 1..Len(ch'[m])
       PROVE  /\ result'[ch'[m][i]] = "ok" /\ q'[ch'[m][i]] = m /\ ch'[m][i] \notin delivered'
              /\ \A j \in 1..Len(ch'[m]) : ch'[m][j] = ch'[m][i] => j = i
  <2>1. CASE m # l
    <3>1. i \in 1..Len(ch[m]) /\ ch'[m] = ch[m] /\ ch[m][i] \in Dialers
      BY <1>1, <1>3, <1>11, <2>1
    <3>2. ch[m][i] # h
      BY <1>6, <1>8, <2>1, <3>1 DEF QueuedOnce
    <3> QED
      BY <1>4, <1>5, <1>6, <3>1, <3>2 DEF QueuedOnce
  <2>2. CASE m = l
    <3>1. i + 1 \in 1..Len(ch[l]) /\ ch'[m][i] = ch[l][i + 1] /\ ch[l][i + 1] \in Dialers
      BY <1>1, <1>2, <1>7, <1>11, <2>2
    <3>2. ch[l][i + 1] # h
      BY <1>2, <1>6, <1>7, <1>11, <2>2, <3>1 DEF QueuedOnce
    <3>3. ASSUME NEW j \in 1..Len(ch'[m]), ch'[m][j] = ch'[m][i] PROVE j = i
      <4>1. j + 1 \in 1..Len(ch[l]) /\ ch[l][j + 1] = ch[l][i + 1]
        BY <1>2, <1>7, <2>2, <3>1, <3>3, Zenon
      <4>2. j + 1 = i + 1
        BY <1>6, <3>1, <4>1, Zenon DEF QueuedOnce
      <4> QED
        BY <1>11, <3>3, <4>2
    <3>4. /\ result[ch[l][i + 1]] = "ok" /\ q[ch[l][i + 1]] = l
          /\ ch[l][i + 1] \notin delivered
      BY <1>6, <3>1, Zenon DEF QueuedOnce
    <3> QED
      BY <1>4, <1>5, <2>2, <3>1, <3>2, <3>3, <3>4, Zenon
  <2> QED
    BY <2>1, <2>2, Zenon
<1>12. QueuedOnce'
  BY <1>11, Zenon DEF QueuedOnce
<1>13. ASSUME NEW d \in Dialers, result'[d] = "ok"
       PROVE  d \in delivered' \/ q'[d] \in cancelled' \/ Queued(q[d], d)'
  <2>1. result[d] = "ok" /\ q[d] \in Listeners
    BY <1>4, <1>13, Zenon DEF TokenInv, Sends
  <2>2. CASE Queued(q[d], d) /\ q[d] # l
    BY <1>3, <2>1, <2>2, Zenon DEF Queued
  <2>3. CASE Queued(q[d], d) /\ q[d] = l
    <3>1. PICK i \in 1..Len(ch[l]) : ch[l][i] = d
      BY <2>3, Zenon DEF Queued
    <3>2. CASE i = 1
      BY <1>2, <1>5, <2>3, <3>1, <3>2, Zenon
    <3>3. CASE i # 1
      <4>1. i - 1 \in 1..Len(ch'[l]) /\ ch'[l][i - 1] = d
        BY <1>2, <3>1, <3>3
      <4> QED
        BY <2>3, <4>1, Zenon DEF Queued
    <3> QED
      BY <3>2, <3>3, Zenon
  <2> QED
    BY <1>5, <1>6, <2>1, <2>2, <2>3, Zenon DEF AcceptedIsKept
<1>14. AcceptedIsKept'
  BY <1>13, Zenon DEF AcceptedIsKept
<1> QED
  BY <1>9, <1>10, <1>12, <1>14, Zenon DEF TokenInv

(* The other steps of a Listen call leave the tokens where they are.       *)
LEMMA TokenListenStep ==
    ASSUME TypeOK, TokenInv, NEW l \in Listeners, ListenStep(l) \/ Cancel(l)
    PROVE  TokenInv'
<1>0. l \in Goroutines /\ l \notin Dialers /\ Dialers \subseteq Goroutines
  BY CallsAssumption, Zenon DEF Goroutines
<1>1. CASE \E from : Deliver(l, from) /\ UNCHANGED <<cancelled, q>>
  BY <1>1, TokenDeliver, Zenon
<1>2. CASE /\ UNCHANGED <<ch, delivered>> /\ cancelled \subseteq cancelled'
           /\ \A d \in Dialers : result'[d] = result[d] /\ q'[d] = q[d] /\ pc'[d] = pc[d]
  <2>1. \A d \in Dialers : Sends(d)'
    BY <1>2, Zenon DEF TokenInv, Sends
  <2> QED
    BY <1>2, <2>1, TokenFrame, Zenon
<1>3. CASE Swap(l) \/ CloseOld(l) \/ CloseDone(l) \/ DeleteQueue(l) \/ Cancel(l)
  BY <1>0, <1>2, <1>3, Zenon
  DEF TypeOK, Swap, CloseOld, CloseDone, DeleteQueue, Cancel, Goto, queues
<1>4. CASE Select(l) \/ Drain(l)
  BY <1>0, <1>1, <1>2, <1>4, Zenon DEF TypeOK, Select, Drain, Leave, Goto
<1> QED
  BY <1>3, <1>4, Zenon DEF ListenStep

LEMMA TokensHold == Spec => []TokenInv
<1>1. Init => TokenInv
  <2> SUFFICES ASSUME Init PROVE TokenInv
    OBVIOUS
  <2>1. \A d \in Dialers : result[d] = "none" /\ pc[d] = "idle"
    BY Zenon DEF Init, Goroutines
  <2>2. \A l \in Listeners : 1..Len(ch[l]) = {}
    BY DEF Init
  <2>3. delivered = {}
    BY Zenon DEF Init
  <2> QED
    BY <2>1, <2>2, <2>3, Zenon DEF TokenInv, Sends, AcceptedIsKept, QueuedOnce
<1>2. TypeOK /\ TokenInv /\ [Next]_vars => TokenInv'
  <2> SUFFICES ASSUME TypeOK, TokenInv, [Next]_vars PROVE TokenInv'
    OBVIOUS
  <2>1. CASE UNCHANGED vars
    <3>1. \A d \in Dialers : Sends(d)'
      BY <2>1, Zenon DEF vars, TokenInv, Sends
    <3> QED
      BY <2>1, <3>1, TokenFrame, Zenon DEF vars
  <2> QED
    BY <2>1, TokenLockStep, TokenDialStep, TokenListenStep, Zenon DEF Next
<1> QED
  BY <1>1, <1>2, TypeCorrect, PTL DEF Spec

(* However many Listen and Dial calls come and go, and whichever mutexes   *)
(* they use, no token that was accepted is lost or sent twice: it stays in *)
(* the channel it was sent to until it is delivered from there, once, or   *)
(* its stream ends (controller_service.go:640).                            *)
THEOREM TokensAreKept == Spec => [](AcceptedIsKept /\ QueuedOnce)
<1>1. TokenInv => AcceptedIsKept /\ QueuedOnce
  BY Zenon DEF TokenInv
<1> QED
  BY <1>1, TokensHold, PTL

=============================================================================
