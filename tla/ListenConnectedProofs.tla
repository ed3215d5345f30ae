------------------------ MODULE ListenConnectedProofs ------------------------
(***************************************************************************)
(* Proofs about ListenQueue while the exporter stays connected             *)
(* (ConnectedSpec), for any sets of Listen and Dial calls.                 *)
(***************************************************************************)
EXTENDS ListenQueueProofs, FiniteSetTheorems

(* What is known of goroutine g when it is at position at.                 *)
Fits(g, at) ==
    \* which call of acquireLeaseLock it is in, where only some are possible
    /\ at \in {"idle", "select", "drain", "closeDone", "deleteQueue", "returned"}
         => call[g] # "swap"
    /\ at \in {"swap", "closeOld"} => call[g] = "swap"
    /\ at \in {"load", "checkDone", "send"} => g \in Dialers
    /\ at \in {"swap", "closeOld", "select", "drain", "closeDone", "deleteQueue"}
         => g \in Listeners
    \* nobody knows the queue of a Listen call that has not swapped it in
    /\ g \in Listeners
         /\ (at \in Acquiring \cup {"swap"} \/ (at = "lock" /\ call[g] = "swap"))
         => ~done[g] /\ listenQueues # g /\ \A h \in Goroutines : q[h] # g
    \* a stream ends only after its select loop has begun
    /\ g \in cancelled =>
         /\ call[g] = "listen"
         /\ at \in {"select", "drain", "lock", "closeDone", "unlock", "deleteQueue",
                    "loadLock", "decRef", "deleteLock", "returned"}
    \* Listen leaves its loop for a reason, and closes its queue on the way out
    /\ at = "drain" => done[g]
    /\ g \in Listeners /\ call[g] = "listen" /\ at \in {"lock", "closeDone"}
         => g \in cancelled \/ done[g]
    /\ g \in Listeners /\ call[g] = "listen"
         /\ at \in {"unlock", "deleteQueue", "loadLock", "decRef"} => done[g]
    \* the call that closes the queue it has replaced is itself open
    /\ at = "closeOld" => ~done[g] /\ q[g] \in Listeners \ {g}
    \* the queue a Dial call has loaded is the current one until it is closed
    /\ at = "checkDone" => q[g] \in Listeners /\ (listenQueues = q[g] \/ done[q[g]])
    /\ at = "send" => q[g] \in Listeners /\ listenQueues = q[g] /\ ~done[q[g]]
    \* whoever is in a critical section has locked the mutex in the map
    /\ at \in {"load", "checkDone", "send", "swap", "closeOld", "closeDone", "unlock"}
         => holder[leaseLocks] = g
AllFit == \A g \in Goroutines : Fits(g, pc[g])

(* Before the first Listen call has stored its lock, no other has begun.   *)
Beginning ==
    /\ leaseLocks = NoLock
    /\ \A g \in Goroutines :
         pc[g] # "idle" => g \in Listeners /\ pc[g] = "loadOrStore" /\ call[g] = "listen"
    /\ \A g, h \in Goroutines : pc[g] # "idle" /\ pc[h] # "idle" => g = h

(* From then on some Listen call is alive, the count is the number of      *)
(* references held, and no goroutine has seen a count of zero.             *)
Holds == {h \in Goroutines \X Calls : h[2] \in Held(h[1])}
Connected == \E l \in Listeners : Alive(l)
Counted ==
    /\ leaseLocks \in Locks
    /\ IsFiniteSet(Holds) /\ refs[leaseLocks] = Cardinality(Holds)
    /\ \A g \in Goroutines :
         /\ pc[g] \notin {"backOut", "deleteLock"}
         /\ pc[g] \in {"addRef", "decRef"} => ll[g] = leaseLocks
         /\ \A c \in Held(g) : mu[g][c] = leaseLocks

ConnectedInv == AllFit /\ (Beginning \/ (Connected /\ Counted))

-----------------------------------------------------------------------------
(* A goroutine that is past its first atomic operation has a living Listen *)
(* call beside it, or is one.                                              *)
LEMMA PastBeginning ==
    ASSUME ConnectedInv, NEW g \in Goroutines, pc[g] \notin {"idle", "loadOrStore"}
    PROVE  Connected /\ Counted
  BY Zenon DEF ConnectedInv, Beginning

(* Nothing is held before the first lock is stored.                        *)
LEMMA NobodyHolds ==
    ASSUME AllFit, Beginning, NEW g \in Goroutines
    PROVE  Held(g) = {}
  BY Zenon DEF AllFit, Fits, Beginning, Held, Unreleased

(* Two goroutines are never in their critical sections together.           *)
LEMMA OneCritical ==
    ASSUME AllFit, NEW g \in Goroutines, NEW h \in Goroutines, Critical(g), Critical(h)
    PROVE  g = h
  BY DEF AllFit, Fits, Critical

(* A step that changes nothing of what the positions depend on.            *)
LEMMA FitFrame ==
    ASSUME AllFit, NEW g \in Goroutines, NEW from, NEW to, At(g, from, to), Fits(g, to),
           UNCHANGED <<call, q, listenQueues, done, cancelled, holder, leaseLocks>>
    PROVE  AllFit'
<1>1. \A h \in Goroutines : Fits(h, pc'[h])
  BY Zenon DEF AllFit, At
<1>2. \A h \in Goroutines : Fits(h, pc[h])' <=> Fits(h, pc'[h])
  BY DEF Fits
<1> QED
  BY <1>1, <1>2, Zenon DEF AllFit

(* A step between two positions at which the same references are held,     *)
(* that touches no lock, leaves the count right.                           *)
LEMMA CountedFrame ==
    ASSUME Counted, NEW g \in Goroutines, NEW from, NEW to, At(g, from, to),
           from \in Unreleased <=> to \in Unreleased,
           to \notin {"backOut", "deleteLock"},
           to \in {"addRef", "decRef"} => ll'[g] = leaseLocks,
           \A h \in Goroutines \ {g} : ll'[h] = ll[h],
           UNCHANGED <<leaseLocks, refs, mu, call>>
    PROVE  Counted' /\ \A h \in Goroutines : Held(h)' = Held(h)
<1>1. \A h \in Goroutines : Held(h)' = Held(h)
  BY Zenon DEF At, Held
<1>2. Holds' = Holds
  BY <1>1, Zenon DEF Holds
<1>3. \A h \in Goroutines :
        /\ pc'[h] \notin {"backOut", "deleteLock"}
        /\ pc'[h] \in {"addRef", "decRef"} => ll'[h] = leaseLocks
  BY Zenon DEF At, Counted
<1> QED
  BY <1>1, <1>2, <1>3, Zenon DEF Counted

(* Such a step, if it closes no queue, leaves every living Listen call     *)
(* alive.                                                                  *)
LEMMA ConnectedFrame ==
    ASSUME Connected, \A h \in Goroutines : Held(h)' = Held(h), UNCHANGED <<cancelled, done>>
    PROVE  Connected'
  BY Members, Zenon DEF Connected, Alive

-----------------------------------------------------------------------------
(* Start: a call begins while another is alive, or is the first one.       *)
LEMMA StartKeeps ==
    ASSUME TypeOK, ConnectedInv, NEW g \in Goroutines, Start(g), StaysConnected
    PROVE  ConnectedInv'
<1>1. At(g, "idle", "loadOrStore")
  BY GotoAt, Zenon DEF Start
<1>2. UNCHANGED <<leaseLocks, refs, ll, mu, call, holder, q, listenQueues, done, cancelled>>
  BY Zenon DEF Start, locks, queues
<1>3. AllFit'
  <2>1. Fits(g, "loadOrStore")
    BY <1>1, Zenon DEF ConnectedInv, AllFit, Fits, At, Acquiring
  <2> QED
    BY <1>1, <1>2, <2>1, FitFrame, Zenon DEF ConnectedInv
<1>4. ASSUME Connected, Counted PROVE Connected' /\ Counted'
  BY <1>1, <1>2, <1>4, CountedFrame, ConnectedFrame, Zenon DEF Unreleased
<1>5. ASSUME Beginning PROVE Beginning'
  <2>1. \A l \in Listeners : ~Alive(l)
    BY <1>5, NobodyHolds, Members, Zenon DEF Alive, ConnectedInv
  <2>2. g \in Listeners /\ \A h \in Goroutines : pc[h] = "idle"
    BY <1>1, <2>1, Zenon DEF StaysConnected, At
  <2>3. call[g] = "listen"
    BY <1>1, <2>2, WhoCalls, Zenon DEF At, ConnectedInv, AllFit, Fits
  <2> QED
    BY <1>1, <1>2, <1>5, <2>2, <2>3, Zenon DEF Beginning, At
<1> QED
  BY <1>3, <1>4, <1>5, Zenon DEF ConnectedInv

(* The first LoadOrStore stores the lock, and its caller is alive.         *)
LEMMA FirstStoreKeeps ==
    ASSUME TypeOK, ConnectedInv, NEW g \in Goroutines, LoadOrStore(g), Beginning
    PROVE  ConnectedInv'
<1>1. g \in Listeners /\ call[g] = "listen" /\ pc[g] = "loadOrStore" /\ leaseLocks = NoLock
  BY Zenon DEF LoadOrStore, Beginning, Acquired, Goto
<1>2. /\ leaseLocks' = <<g, "listen">>
      /\ refs'[<<g, "listen">>] = 1
      /\ mu'[g]["listen"] = <<g, "listen">>
      /\ \A h \in Goroutines : call'[h] = IF h = g THEN "swap" ELSE call[h]
      /\ UNCHANGED <<holder, q, listenQueues, done, cancelled>>
  BY <1>1 DEF TypeOK, LoadOrStore, Acquired, Locks, Calls, queues
<1>3. At(g, "loadOrStore", "loadOrStore")
  BY <1>1, GotoAt, Zenon DEF LoadOrStore, Acquired
<1>4. \A h \in Goroutines : pc'[h] \in {"idle", "loadOrStore"}
  BY <1>3, Zenon DEF At, Beginning
<1>5. \A h \in Goroutines : Held(h)' = IF h = g THEN {"listen"} ELSE {}
  BY <1>2, <1>3, <1>4, NobodyHolds DEF ConnectedInv, At, Held, Unreleased
<1>6. AllFit'
  <2>1. g \notin cancelled
    BY <1>1, Zenon DEF ConnectedInv, AllFit, Fits
  <2>2. \A h \in Goroutines : pc[h] \in {"idle", "loadOrStore"} /\ Fits(h, pc[h])
    BY Zenon DEF Beginning, ConnectedInv, AllFit
  <2>3. \A h \in Goroutines : Fits(h, pc[h])'
    BY <1>1, <1>2, <1>3, <2>1, <2>2 DEF At, Fits, Acquiring
  <2> QED
    BY <2>3, Zenon DEF AllFit
<1>7. Connected'
  <2>1. g \notin cancelled /\ ~done[g]
    BY <1>1, Zenon DEF ConnectedInv, AllFit, Fits, Acquiring
  <2> QED
    BY <1>1, <1>2, <1>5, <2>1, Zenon DEF Connected, Alive
<1>8. Counted'
  <2>1. Holds' = {<<g, "listen">>}
    BY <1>5 DEF Holds, Calls
  <2>2. IsFiniteSet(Holds') /\ refs'[leaseLocks'] = Cardinality(Holds')
    BY <1>2, <2>1, FS_Singleton, Zenon
  <2>3. leaseLocks' \in Locks
    BY <1>1, <1>2, Zenon DEF Locks
  <2> QED
    BY <1>2, <1>4, <1>5, <2>2, <2>3, Zenon DEF Counted
<1> QED
  BY <1>6, <1>7, <1>8, Zenon DEF ConnectedInv

(* Every later one finds a lock in the map.                                *)
LEMMA LoadOrStoreKeeps ==
    ASSUME TypeOK, ConnectedInv, NEW g \in Goroutines, LoadOrStore(g), Connected, Counted
    PROVE  ConnectedInv'
<1>1. /\ Goto(g, "loadOrStore", "addRef")
      /\ \A h \in Goroutines : ll'[h] = IF h = g THEN leaseLocks ELSE ll[h]
      /\ UNCHANGED <<leaseLocks, refs, mu, call, holder, q, listenQueues, done, cancelled>>
  BY NoLockAssumption, Zenon DEF TypeOK, LoadOrStore, Counted, queues
<1>2. At(g, "loadOrStore", "addRef")
  BY <1>1, GotoAt, Zenon
<1>3. Connected' /\ Counted'
  BY <1>1, <1>2, CountedFrame, ConnectedFrame, Zenon DEF Unreleased
<1>4. Fits(g, "addRef")
  BY <1>2, Zenon DEF ConnectedInv, AllFit, Fits, At, Acquiring
<1> QED
  BY <1>1, <1>2, <1>3, <1>4, FitFrame, SMTT(30) DEF ConnectedInv

(* A living Listen call counts for one.                                    *)
LEMMA AliveCounts ==
    ASSUME Counted, NEW l \in Listeners, Alive(l)
    PROVE  <<l, "listen">> \in Holds /\ Cardinality(Holds) \in Nat \ {0}
<1>1. <<l, "listen">> \in Holds
  BY Zenon DEF Holds, Alive, Goroutines, Calls
<1> QED
  BY <1>1, FS_EmptySet, FS_CardinalityType, Zenon DEF Counted

(* The count is at least one, so that nobody backs out.                    *)
LEMMA AddRefKeeps ==
    ASSUME TypeOK, ConnectedInv, NEW g \in Goroutines, AddRef(g)
    PROVE  ConnectedInv'
<1>1. Connected /\ Counted
  BY PastBeginning, Zenon DEF AddRef
<1>2. ll[g] = leaseLocks /\ leaseLocks \in Locks /\ refs[leaseLocks] \in Nat \ {0}
  BY <1>1, AliveCounts, Zenon DEF AddRef, Counted, Connected
<1>3. /\ refs'[leaseLocks] = refs[leaseLocks] + 1
      /\ Acquired(g, "addRef", leaseLocks)
      /\ UNCHANGED <<leaseLocks, holder, q, listenQueues, done, cancelled, ll>>
  BY <1>2 DEF TypeOK, AddRef, queues
<1>4. PICK to \in {"loadOrStore", "lock"} :
        /\ Goto(g, "addRef", to)
        /\ \A h \in Goroutines \ {g} : mu'[h] = mu[h] /\ call'[h] = call[h]
        /\ \A c \in Calls : mu'[g][c] = IF c = call[g] THEN leaseLocks ELSE mu[g][c]
        /\ IF call[g] = "listen" THEN to = "loadOrStore" /\ call'[g] = "swap"
                                 ELSE to = "lock" /\ call'[g] = call[g]
  BY <1>3, Zenon DEF TypeOK, Acquired
<1>5. At(g, "addRef", to)
  BY <1>4, GotoAt, Zenon
<1>6. /\ call[g] \notin Held(g)
      /\ \A h \in Goroutines : Held(h)' = IF h = g THEN Held(g) \cup {call[g]} ELSE Held(h)
  <2>1. call[g] \notin Held(g) /\ Held(g)' = Held(g) \cup {call[g]}
    BY <1>4, <1>5, Zenon DEF At, Held, Unreleased
  <2> QED
    BY <1>4, <1>5, <2>1, Zenon DEF At, Held
<1>7. AllFit'
  <2>1. \A h \in Goroutines \ {g} : Fits(h, pc[h])'
    BY <1>3, <1>4, <1>5 DEF At, ConnectedInv, AllFit, Fits
  <2>2. Fits(g, to)'
    BY <1>3, <1>4, <1>5, WhoCalls, Members DEF At, ConnectedInv, AllFit, Fits, Acquiring
  <2> QED
    BY <1>5, <2>1, <2>2, Zenon DEF At, AllFit
<1>8. Connected'
  BY <1>1, <1>3, <1>6, Members, Zenon DEF Connected, Alive
<1>9. Counted'
  <2>1. Holds' = Holds \cup {<<g, call[g]>>} /\ <<g, call[g]>> \notin Holds
    BY <1>6, WhoCalls DEF Holds
  <2>2. IsFiniteSet(Holds) /\ refs[leaseLocks] = Cardinality(Holds)
    BY <1>1, Zenon DEF Counted
  <2>3. IsFiniteSet(Holds') /\ refs'[leaseLocks'] = Cardinality(Holds')
    BY <1>3, <2>1, <2>2, FS_AddElement, SMTT(20)
  <2>4. Held(g) \subseteq Calls
    BY WhoCalls, Zenon DEF Held, Calls
  <2>5. \A h \in Goroutines : \A c \in Held(h)' : mu'[h][c] = leaseLocks
    BY <1>1, <1>4, <1>6, <2>4, WhoCalls DEF Counted
  <2> QED
    BY <1>1, <1>3, <1>4, <1>5, <2>3, <2>5, Zenon DEF At, Counted
<1> QED
  BY <1>7, <1>8, <1>9, Zenon DEF ConnectedInv

(* No count is seen at zero.                                               *)
LEMMA NobodyBacksOut ==
    ASSUME ConnectedInv, NEW g \in Goroutines, BackOut(g) \/ DeleteLock(g)
    PROVE  FALSE
<1>1. pc[g] \in {"backOut", "deleteLock"}
  BY Zenon DEF BackOut, DeleteLock, Released, Goto
<1> QED
  BY <1>1, PastBeginning, Zenon DEF Counted

(* mu.Lock(): the mutex is the one in the map, so that nobody else is      *)
(* between Lock and Unlock.                                                *)
LEMMA LockKeeps ==
    ASSUME TypeOK, ConnectedInv, NEW g \in Goroutines, Lock(g)
    PROVE  ConnectedInv'
<1>1. PICK to \in {"load", "swap", "closeDone"} :
        /\ Goto(g, "lock", to)
        /\ to = "load" => call[g] = "send"
        /\ to = "swap" => call[g] = "swap"
        /\ to = "closeDone" => call[g] = "listen"
  BY Zenon DEF TypeOK, Lock, Calls
<1>2. /\ UNCHANGED <<leaseLocks, refs, ll, mu, call, q, listenQueues, done, cancelled>>
      /\ holder[mu[g][call[g]]] = NoLock
      /\ \A k \in Locks : holder'[k] = IF k = mu[g][call[g]] THEN g ELSE holder[k]
  BY Zenon DEF TypeOK, Lock, queues
<1>3. At(g, "lock", to)
  BY <1>1, GotoAt, Zenon
<1>4. Connected /\ Counted
  BY <1>3, PastBeginning, Zenon DEF At
<1>5. Connected' /\ Counted'
  BY <1>2, <1>3, <1>4, CountedFrame, ConnectedFrame, Zenon DEF Unreleased
<1>6. mu[g][call[g]] = leaseLocks /\ leaseLocks \in Locks
  BY <1>3, <1>4, Zenon DEF At, Held, Unreleased, Counted
<1>7. \A h \in Goroutines : ~Critical(h)
  BY <1>2, <1>6, CallsAssumption DEF ConnectedInv, AllFit, Fits, Critical, Goroutines
<1>8. AllFit'
  <2>1. \A h \in Goroutines \ {g} : Fits(h, pc[h])'
    BY <1>2, <1>3, <1>7 DEF At, ConnectedInv, AllFit, Fits, Critical
  <2>2. Fits(g, to)'
    BY <1>1, <1>2, <1>3, <1>6, WhoCalls, SMTT(30) DEF At, ConnectedInv, AllFit, Fits, Acquiring
  <2> QED
    BY <1>3, <2>1, <2>2, SMTT(30) DEF At, AllFit
<1> QED
  BY <1>5, <1>8, Zenon DEF ConnectedInv

(* mu.Unlock().                                                            *)
LEMMA UnlockKeeps ==
    ASSUME TypeOK, ConnectedInv, NEW g \in Goroutines, Unlock(g)
    PROVE  ConnectedInv'
<1>1. PICK to \in {"deleteQueue", "loadLock"} :
        Goto(g, "unlock", to) /\ (to = "deleteQueue" => call[g] = "listen")
  BY Zenon DEF Unlock
<1>2. /\ UNCHANGED <<leaseLocks, refs, ll, mu, call, q, listenQueues, done, cancelled>>
      /\ \A k \in Locks : holder'[k] = IF k = mu[g][call[g]] THEN NoLock ELSE holder[k]
  BY SMTT(30) DEF TypeOK, Unlock, queues
<1>3. At(g, "unlock", to)
  BY <1>1, GotoAt, SMTT(30)
<1>4. Connected /\ Counted
  BY <1>3, PastBeginning, Zenon DEF At
<1>5. Connected' /\ Counted'
  BY <1>2, <1>3, <1>4, CountedFrame, ConnectedFrame, Zenon DEF Unreleased
<1>6. \A h \in Goroutines : Critical(h) => h = g
  BY <1>3, OneCritical, Zenon DEF At, ConnectedInv, Critical
<1>7. AllFit'
  <2>1. \A h \in Goroutines \ {g} : Fits(h, pc[h])'
    BY <1>2, <1>3, <1>6 DEF At, ConnectedInv, AllFit, Fits, Critical
  <2>2. Fits(g, to)'
    BY <1>1, <1>2, <1>3, WhoCalls, Zenon DEF At, ConnectedInv, AllFit, Fits, Acquiring
  <2> QED
    BY <1>3, <2>1, <2>2, Zenon DEF At, AllFit
<1> QED
  BY <1>5, <1>7, Zenon DEF ConnectedInv

(* releaseLeaseLock finds the lock in the map.                             *)
LEMMA LoadLockKeeps ==
    ASSUME TypeOK, ConnectedInv, NEW g \in Goroutines, LoadLock(g)
    PROVE  ConnectedInv'
<1>1. Connected /\ Counted
  BY PastBeginning, Zenon DEF LoadLock, Released, Goto
<1>2. /\ Goto(g, "loadLock", "decRef")
      /\ \A h \in Goroutines : ll'[h] = IF h = g THEN leaseLocks ELSE ll[h]
      /\ UNCHANGED <<leaseLocks, refs, mu, call, holder, q, listenQueues, done, cancelled>>
  BY <1>1, NoLockAssumption, Zenon DEF TypeOK, LoadLock, Counted, locks, queues
<1>3. At(g, "loadLock", "decRef")
  BY <1>2, GotoAt, Zenon
<1>4. Connected' /\ Counted'
  BY <1>1, <1>2, <1>3, CountedFrame, ConnectedFrame, Zenon DEF Unreleased
<1>5. Fits(g, "decRef")
  BY <1>3, Zenon DEF ConnectedInv, AllFit, Fits, At, Acquiring
<1> QED
  BY <1>2, <1>3, <1>4, <1>5, FitFrame, Zenon DEF ConnectedInv

(* The count stays above zero: besides the reference given back, a living  *)
(* Listen call holds one.                                                  *)
LEMMA DecKeeps ==
    ASSUME TypeOK, ConnectedInv, NEW g \in Goroutines, DecRef(g)
    PROVE  ConnectedInv'
<1>1. Connected /\ Counted
  BY PastBeginning, Zenon DEF DecRef
<1>2. PICK l \in Listeners : Alive(l)
  BY <1>1, Zenon DEF Connected
<1>3. call[g] \in Held(g) /\ <<g, call[g]>> \in Holds
  BY WhoCalls, Zenon DEF DecRef, Held, Unreleased, Holds
<1>4. <<l, "listen">> \in Holds \ {<<g, call[g]>>}
  BY <1>1, <1>2, AliveCounts DEF DecRef, Alive, ConnectedInv, AllFit, Fits
<1>5. IsFiniteSet(Holds) /\ refs[leaseLocks] = Cardinality(Holds)
  BY <1>1, SMTT(30) DEF Counted
<1>6. /\ IsFiniteSet(Holds \ {<<g, call[g]>>})
      /\ Cardinality(Holds \ {<<g, call[g]>>}) = Cardinality(Holds) - 1
  BY <1>3, <1>5, FS_RemoveElement, Zenon
<1>7. Cardinality(Holds \ {<<g, call[g]>>}) # 0
  BY <1>4, <1>6, FS_EmptySet, Zenon
<1>8. ll[g] = leaseLocks /\ leaseLocks \in Locks
  BY <1>1, Zenon DEF DecRef, Counted
<1>9. /\ refs'[leaseLocks] = Cardinality(Holds) - 1
      /\ Released(g, "decRef")
      /\ UNCHANGED <<leaseLocks, holder, q, listenQueues, done, cancelled, ll, mu>>
  BY <1>5, <1>6, <1>7, <1>8, Zenon DEF TypeOK, DecRef, queues
<1>10. PICK to \in {"select", "returned"} :
         /\ Goto(g, "decRef", to)
         /\ \A h \in Goroutines \ {g} : call'[h] = call[h]
         /\ IF call[g] = "swap" THEN to = "select" /\ call'[g] = "listen"
                                ELSE to = "returned" /\ call'[g] = call[g]
  BY <1>9, Zenon DEF TypeOK, Released
<1>11. At(g, "decRef", to)
  BY <1>10, GotoAt, Zenon
<1>12. \A h \in Goroutines : Held(h)' = IF h = g THEN Held(g) \ {call[g]} ELSE Held(h)
  <2>1. Held(g)' = Held(g) \ {call[g]}
    BY <1>10, <1>11, Zenon DEF At, Held, Unreleased
  <2> QED
    BY <1>10, <1>11, <2>1, Zenon DEF At, Held
<1>13. AllFit'
  <2>1. \A h \in Goroutines \ {g} : Fits(h, pc[h])'
    BY <1>9, <1>10, <1>11 DEF At, ConnectedInv, AllFit, Fits
  <2>2. Fits(g, to)'
    BY <1>9, <1>10, <1>11, WhoCalls DEF At, ConnectedInv, AllFit, Fits, Acquiring
  <2> QED
    BY <1>11, <2>1, <2>2, Zenon DEF At, AllFit
<1>14. Connected'
  <2>1. "listen" \in Held(l)'
    BY <1>2, <1>4, <1>12, Members, Zenon DEF Alive
  <2> QED
    BY <1>2, <1>9, <2>1, Zenon DEF Connected, Alive
<1>15. Counted'
  <2>1. Holds' = Holds \ {<<g, call[g]>>}
    BY <1>12, WhoCalls DEF Holds
  <2>2. IsFiniteSet(Holds') /\ refs'[leaseLocks'] = Cardinality(Holds')
    BY <1>6, <1>9, <2>1, Zenon
  <2>3. \A h \in Goroutines : \A c \in Held(h)' : mu'[h][c] = leaseLocks
    BY <1>1, <1>9, <1>12, Zenon DEF Counted
  <2> QED
    BY <1>1, <1>9, <1>10, <1>11, <2>2, <2>3, Zenon DEF At, Counted
<1> QED
  BY <1>13, <1>14, <1>15, Zenon DEF ConnectedInv

-----------------------------------------------------------------------------
(* sendToListener: the queue it loads is the current one, and neither a    *)
(* Swap nor a close can come between its load and its send.                *)
LEMMA DialKeeps ==
    ASSUME TypeOK, ConnectedInv, NEW d \in Dialers, DialStep(d)
    PROVE  ConnectedInv'
<1>1. PICK from \in {"load", "checkDone", "send"}, to \in {"unlock", "checkDone", "send"} :
        /\ Goto(d, from, to)
        /\ to = "checkDone" => listenQueues \in Listeners /\ q'[d] = listenQueues
        /\ to = "send" => from = "checkDone" /\ ~done[q[d]] /\ q' = q
  BY Members, SMTT(30) DEF TypeOK, DialStep, Load, CheckDone, Send, Goto
<1>2. /\ UNCHANGED <<leaseLocks, refs, ll, mu, call, holder, listenQueues, done, cancelled>>
      /\ \A h \in Goroutines \ {d} : q'[h] = q[h]
      /\ q'[d] = q[d] \/ q'[d] = listenQueues
  BY Members, Zenon DEF TypeOK, DialStep, Load, CheckDone, Send, locks, queues
<1>3. At(d, from, to)
  BY <1>1, GotoAt, Members, Zenon
<1>4. Connected /\ Counted
  BY <1>3, PastBeginning, Members, Zenon DEF At
<1>5. Connected' /\ Counted'
  BY <1>2, <1>3, <1>4, CountedFrame, ConnectedFrame, Members, SMTT(30) DEF Unreleased
<1>6. AllFit'
  <2>1. \A h \in Goroutines \ {d} : Fits(h, pc[h])'
    BY <1>2, <1>3 DEF At, ConnectedInv, AllFit, Fits
  <2>2. Fits(d, to)'
    BY <1>1, <1>2, <1>3, Members DEF At, ConnectedInv, AllFit, Fits, Acquiring
  <2> QED
    BY <1>3, <2>1, <2>2 DEF At, AllFit
<1> QED
  BY <1>5, <1>6, Zenon DEF ConnectedInv

(* listenQueues.Swap: no Dial call is between its load and its send.       *)
LEMMA SwapKeeps ==
    ASSUME TypeOK, ConnectedInv, NEW l \in Listeners, Swap(l)
    PROVE  ConnectedInv'
<1>1. PICK to \in {"unlock", "closeOld"} :
        Goto(l, "swap", to) /\ (to = "closeOld" => listenQueues \in Listeners)
  BY Zenon DEF TypeOK, Swap
<1>2. /\ UNCHANGED <<leaseLocks, refs, ll, mu, call, holder, done, cancelled>>
      /\ listenQueues' = l /\ q'[l] = listenQueues
      /\ \A h \in Goroutines \ {l} : q'[h] = q[h]
  BY Members, SMTT(30) DEF TypeOK, Swap, locks
<1>3. At(l, "swap", to)
  BY <1>1, GotoAt, Members, Zenon
<1>4. Connected /\ Counted
  BY <1>3, PastBeginning, Members, Zenon DEF At
<1>5. Connected' /\ Counted'
  BY <1>2, <1>3, <1>4, CountedFrame, ConnectedFrame, Members, Zenon DEF Unreleased
<1>6. \A h \in Goroutines : Critical(h) => h = l
  BY <1>3, OneCritical, Members, Zenon DEF At, ConnectedInv, Critical
<1>7. AllFit'
  <2>1. \A h \in Goroutines \ {l} : Fits(h, pc[h])'
    BY <1>2, <1>3, <1>6 DEF At, ConnectedInv, AllFit, Fits, Critical
  <2>2. Fits(l, to)'
    BY <1>1, <1>2, <1>3, Members, Zenon DEF At, ConnectedInv, AllFit, Fits, Acquiring
  <2> QED
    BY <1>3, <2>1, <2>2, Zenon DEF At, AllFit
<1> QED
  BY <1>5, <1>7, Zenon DEF ConnectedInv

(* The replaced queue is closed, by a call that is itself alive.           *)
LEMMA CloseOldKeeps ==
    ASSUME TypeOK, ConnectedInv, NEW l \in Listeners, CloseOld(l)
    PROVE  ConnectedInv'
<1>1. /\ UNCHANGED <<leaseLocks, refs, ll, mu, call, holder, q, listenQueues, cancelled>>
      /\ \A m \in Listeners : done'[m] <=> m = q[l] \/ done[m]
  BY Members, Zenon DEF TypeOK, CloseOld, locks
<1>2. At(l, "closeOld", "unlock")
  BY GotoAt, Members, Zenon DEF CloseOld
<1>3. Connected /\ Counted
  BY <1>2, PastBeginning, Members, Zenon DEF At
<1>4. Counted' /\ \A h \in Goroutines : Held(h)' = Held(h)
  BY <1>1, <1>2, <1>3, CountedFrame, Members, Zenon DEF Unreleased
<1>5. /\ ~done[l] /\ q[l] \in Listeners \ {l} /\ call[l] = "swap" /\ l \notin cancelled
      /\ holder[leaseLocks] = l
  BY <1>2, Members, Zenon DEF At, ConnectedInv, AllFit, Fits
<1>6. Connected'
  <2>1. PICK m \in Listeners : Alive(m)
    BY <1>3, Zenon DEF Connected
  <2>2. CASE m # q[l]
    BY <1>1, <1>4, <2>1, <2>2, Members DEF Alive, Connected
  <2>3. CASE m = q[l]
    <3>1. "listen" \in Held(l)
      BY <1>5, SMTT(30) DEF Held
    <3> QED
      BY <1>1, <1>4, <1>5, <3>1, Members, Zenon DEF Alive, Connected
  <2> QED
    BY <2>2, <2>3, Zenon
<1>7. \A h \in Goroutines : Critical(h) => h = l
  BY <1>2, OneCritical, Members, SMTT(30) DEF At, ConnectedInv, Critical
<1>8. AllFit'
  <2>1. \A h \in Goroutines \ {l} : Fits(h, pc[h])'
    BY <1>1, <1>2, <1>5, <1>7, Members DEF At, ConnectedInv, AllFit, Fits, Critical
  <2>2. Fits(l, "unlock")'
    BY <1>1, <1>2, <1>5, Zenon DEF Fits, Acquiring
  <2> QED
    BY <1>2, <2>1, <2>2, SMTT(30) DEF At, AllFit
<1> QED
  BY <1>4, <1>6, <1>8, Zenon DEF ConnectedInv

(* The select and drain loops of Listen.                                   *)
LEMMA LoopKeeps ==
    ASSUME TypeOK, ConnectedInv, NEW l \in Listeners, Select(l) \/ Drain(l)
    PROVE  ConnectedInv'
<1>1. PICK from \in {"select", "drain"}, to \in {"select", "drain", "lock"} :
        /\ Goto(l, from, to)
        /\ to = "select" => from = "select"
        /\ to = "drain" => done[l] \/ from = "drain"
        /\ to = "lock" => l \in cancelled \/ from = "drain"
  BY Zenon DEF Select, Drain, Leave, Deliver
<1>2. UNCHANGED <<leaseLocks, refs, ll, mu, call, holder, q, listenQueues, done, cancelled>>
  BY Zenon DEF Select, Drain, locks
<1>3. At(l, from, to)
  BY <1>1, GotoAt, Members, Zenon
<1>4. Connected /\ Counted
  BY <1>3, PastBeginning, Members DEF At
<1>5. Connected' /\ Counted'
  BY <1>2, <1>3, <1>4, CountedFrame, ConnectedFrame, Members, SMTT(30) DEF Unreleased
<1>6. Fits(l, to)
  BY <1>1, <1>3, Members DEF ConnectedInv, AllFit, Fits, At, Acquiring
<1> QED
  BY <1>2, <1>3, <1>5, <1>6, FitFrame, Members, Zenon DEF ConnectedInv

(* The teardown closes the queue of a call that was not alive any more.    *)
LEMMA CloseDoneKeeps ==
    ASSUME TypeOK, ConnectedInv, NEW l \in Listeners, CloseDone(l)
    PROVE  ConnectedInv'
<1>1. /\ UNCHANGED <<leaseLocks, refs, ll, mu, call, holder, q, listenQueues, cancelled>>
      /\ \A m \in Listeners : done'[m] <=> m = l \/ done[m]
  BY Members, Zenon DEF TypeOK, CloseDone, locks
<1>2. At(l, "closeDone", "unlock")
  BY GotoAt, Members, Zenon DEF CloseDone
<1>3. Connected /\ Counted
  BY <1>2, PastBeginning, Members, Zenon DEF At
<1>4. Counted' /\ \A h \in Goroutines : Held(h)' = Held(h)
  BY <1>1, <1>2, <1>3, CountedFrame, Members, Zenon DEF Unreleased
<1>5. call[l] = "listen" /\ (l \in cancelled \/ done[l])
  BY <1>2, WhoCalls, Members DEF At, ConnectedInv, AllFit, Fits
<1>6. Connected'
  BY <1>1, <1>3, <1>4, <1>5, Members, SMTT(30) DEF Connected, Alive
<1>7. \A h \in Goroutines : Critical(h) => h = l
  BY <1>2, OneCritical, Members, Zenon DEF At, ConnectedInv, Critical
<1>8. AllFit'
  <2>1. \A h \in Goroutines \ {l} : Fits(h, pc[h])'
    BY <1>1, <1>2, <1>7, Members, SMTT(30) DEF At, ConnectedInv, AllFit, Fits, Critical
  <2>2. Fits(l, "unlock")'
    BY <1>1, <1>2, <1>5, Members, Zenon DEF At, ConnectedInv, AllFit, Fits, Acquiring
  <2> QED
    BY <1>2, <2>1, <2>2, SMTT(30) DEF At, AllFit
<1> QED
  BY <1>4, <1>6, <1>8, Zenon DEF ConnectedInv

(* listenQueues.CompareAndDelete, of a queue that is closed.               *)
LEMMA DeleteQueueKeeps ==
    ASSUME TypeOK, ConnectedInv, NEW l \in Listeners, DeleteQueue(l)
    PROVE  ConnectedInv'
<1>1. /\ UNCHANGED <<leaseLocks, refs, ll, mu, call, holder, q, done, cancelled>>
      /\ listenQueues' = IF listenQueues = l THEN NoQueue ELSE listenQueues
  BY Zenon DEF DeleteQueue, locks
<1>2. At(l, "deleteQueue", "loadLock")
  BY GotoAt, Members, Zenon DEF DeleteQueue
<1>3. Connected /\ Counted
  BY <1>2, PastBeginning, Members DEF At
<1>4. Connected' /\ Counted'
  BY <1>1, <1>2, <1>3, CountedFrame, ConnectedFrame, Members DEF Unreleased
<1>5. call[l] = "listen" /\ done[l]
  BY <1>2, WhoCalls, Members, SMTT(30) DEF At, ConnectedInv, AllFit, Fits
<1>6. AllFit'
  <2>1. \A h \in Goroutines \ {l} : Fits(h, pc[h])'
    BY <1>1, <1>2, <1>5, CallsAssumption, SMTT(30) DEF At, ConnectedInv, AllFit, Fits
  <2>2. Fits(l, "loadLock")'
    BY <1>1, <1>2, <1>5, Members, Zenon DEF At, ConnectedInv, AllFit, Fits, Acquiring
  <2> QED
    BY <1>2, <2>1, <2>2, SMTT(30) DEF At, AllFit
<1> QED
  BY <1>4, <1>6, Zenon DEF ConnectedInv

(* A stream ends while another one is alive.                               *)
LEMMA CancelKeeps ==
    ASSUME TypeOK, ConnectedInv, NEW l \in Listeners, Cancel(l), StaysConnected
    PROVE  ConnectedInv'
<1>1. /\ cancelled' = cancelled \cup {l}
      /\ UNCHANGED <<leaseLocks, refs, ll, mu, call, holder, q, listenQueues, done, pc>>
  BY Zenon DEF Cancel, locks, queues
<1>2. pc[l] \in {"select", "drain"} /\ \E m \in Listeners \ {l} : Alive(m)
  BY Zenon DEF Cancel, StaysConnected
<1>3. Connected /\ Counted
  BY <1>2, PastBeginning, Members
<1>4. \A h \in Goroutines : Held(h)' = Held(h)
  BY <1>1, Zenon DEF Held
<1>5. Connected'
  BY <1>1, <1>2, <1>4, Members, Zenon DEF Connected, Alive
<1>6. Counted'
  <2>1. Holds' = Holds
    BY <1>4, SMTT(30) DEF Holds
  <2> QED
    BY <1>1, <1>3, <1>4, <2>1 DEF Counted
<1>7. AllFit'
  BY <1>1, <1>2, WhoCalls, Members, SMTT(30) DEF ConnectedInv, AllFit, Fits
<1> QED
  BY <1>5, <1>6, <1>7, Zenon DEF ConnectedInv

LEMMA StutterKeeps ==
    ASSUME ConnectedInv, UNCHANGED vars
    PROVE  ConnectedInv'
<1>1. \A h \in Goroutines : Held(h)' = Held(h)
  BY Zenon DEF vars, Held
<1>2. Holds' = Holds
  BY <1>1, Zenon DEF Holds
<1>3. Connected => Connected'
  BY <1>1, ConnectedFrame, Zenon DEF vars
<1>4. (Beginning => Beginning') /\ (Counted => Counted')
  BY <1>1, <1>2, Zenon DEF vars, Beginning, Counted
<1>5. AllFit'
  <2>1. \A h \in Goroutines : Fits(h, pc[h])' <=> Fits(h, pc[h])
    BY SMTT(30) DEF vars, Fits
  <2> QED
    BY <2>1, Zenon DEF ConnectedInv, AllFit
<1> QED
  BY <1>3, <1>4, <1>5, Zenon DEF ConnectedInv

-----------------------------------------------------------------------------
(* Every step keeps the invariant.                                         *)
LEMMA ConnectedStep ==
    ASSUME TypeOK, ConnectedInv, [ConnectedNext]_vars
    PROVE  ConnectedInv'
<1>1. CASE ConnectedNext
  <2>1. CASE \E g \in Goroutines : Start(g) \/ LockStep(g)
    BY <1>1, <2>1, StartKeeps, FirstStoreKeeps, LoadOrStoreKeeps, AddRefKeeps, NobodyBacksOut,
       LockKeeps, UnlockKeeps, LoadLockKeeps, DecKeeps, Zenon
    DEF ConnectedNext, LockStep, ConnectedInv
  <2>2. CASE \E d \in Dialers : DialStep(d)
    BY <2>2, DialKeeps, Zenon
  <2>3. CASE \E l \in Listeners : ListenStep(l) \/ Cancel(l)
    BY <1>1, <2>3, SwapKeeps, CloseOldKeeps, LoopKeeps, CloseDoneKeeps, DeleteQueueKeeps,
       CancelKeeps, Zenon
    DEF ConnectedNext, ListenStep
  <2> QED
    BY <1>1, <2>1, <2>2, <2>3, Zenon DEF ConnectedNext, Next
<1> QED
  BY <1>1, StutterKeeps, SMTT(30)

(* Every behaviour of ConnectedSpec is one of Spec.                        *)
LEMMA ConnectedType == ConnectedSpec => []TypeOK
<1>1. [ConnectedNext]_vars => [Next]_vars
  BY Zenon DEF ConnectedNext
<1> QED
  BY <1>1, TypeCorrect, PTL DEF ConnectedSpec, Spec

LEMMA ConnectedInit == Init => ConnectedInv
<1> SUFFICES ASSUME Init PROVE ConnectedInv
  OBVIOUS
<1>1. AllFit
  <2>1. \A g \in Goroutines : pc[g] = "idle" /\ call[g] # "swap" /\ q[g] = NoQueue
    BY Zenon DEF Init
  <2>2. listenQueues = NoQueue /\ cancelled = {} /\ \A l \in Listeners : ~done[l]
    BY Zenon DEF Init
  <2>3. \A g \in Goroutines : Fits(g, "idle")
    BY <2>1, <2>2, CallsAssumption, Zenon DEF Fits
  <2> QED
    BY <2>1, <2>3, Zenon DEF AllFit
<1>2. Beginning
  BY Zenon DEF Init, Beginning
<1> QED
  BY <1>1, <1>2, Zenon DEF ConnectedInv

LEMMA ConnectedInvariant == ConnectedSpec => []ConnectedInv
<1>1. TypeOK /\ ConnectedInv /\ [ConnectedNext]_vars => ConnectedInv'
  BY ConnectedStep, Zenon
<1> QED
  BY <1>1, ConnectedInit, ConnectedType, PTL DEF ConnectedSpec

(* While the exporter stays connected, the mutex every caller of           *)
(* acquireLeaseLock holds on to is the one in the map.                     *)
THEOREM LocksAreCurrent == ConnectedSpec => []HeldLockIsCurrent
<1>1. ConnectedInv => HeldLockIsCurrent
  BY NobodyHolds DEF ConnectedInv, Counted, HeldLockIsCurrent
<1> QED
  BY <1>1, ConnectedInvariant, PTL

(* So the critical sections of swapListenQueue, sendToListener and         *)
(* Listen's teardown exclude each other.                                   *)
THEOREM SectionsExclude == ConnectedSpec => []Serialized
<1>1. ConnectedInv => Serialized
  BY OneCritical, Zenon DEF ConnectedInv, Serialized
<1> QED
  BY <1>1, ConnectedInvariant, PTL

(* And sendToListener sends only to the queue that is still the lease's    *)
(* and still open.                                                         *)
THEOREM DialSendsToLiveQueue == ConnectedSpec => []SendsToLiveQueue
<1>1. ConnectedInv => SendsToLiveQueue
  BY Members, Zenon DEF ConnectedInv, AllFit, Fits, SendsToLiveQueue
<1> QED
  BY <1>1, ConnectedInvariant, PTL

-----------------------------------------------------------------------------
(* Listener l is in its loop, or will enter it.                            *)
Serves(l) == call[l] = "swap" \/ pc[l] \in {"select", "drain"}

(* A token that was accepted is delivered, or its stream ends, or it is in *)
(* the channel of a Listen call that has not left its loop.                *)
AcceptedIsServed ==
    \A d \in Dialers :
      result[d] = "ok" =>
        d \in delivered \/ q[d] \in cancelled \/ (Queued(q[d], d) /\ Serves(q[d]))

(* A Listen call closes its queue before it returns.                       *)
ServedInv == /\ \A l \in Listeners : pc[l] = "returned" => done[l]
             /\ AcceptedIsServed

(* Where a Listen call is while its queue is open and in the map.          *)
LEMMA OpenIsServed ==
    ASSUME TypeOK, ConnectedInv, ServedInv, NEW l \in Listeners, listenQueues = l, ~done[l],
           Counted
    PROVE  l \in cancelled \/ Serves(l)
<1>1. l \in Goroutines /\ l \notin Dialers /\ call[l] \in {"listen", "swap"} /\ pc[l] \in PCs
  BY Members, WhoCalls, Zenon DEF TypeOK
<1>2. Fits(l, pc[l])
  BY <1>1, Zenon DEF ConnectedInv, AllFit
<1>3. pc[l] \notin Acquiring
  BY <1>2, Zenon DEF Fits
<1>4. pc[l] \notin {"load", "checkDone", "send", "returned", "deleteLock"}
  BY <1>1, <1>2, Zenon DEF Fits, Counted, ServedInv
<1>5. call[l] = "listen" /\ pc[l] \in {"lock", "closeDone", "unlock", "deleteQueue", "loadLock", "decRef"}
        => l \in cancelled
  BY <1>2, Zenon DEF Fits
<1>6. pc[l] \in {"swap", "closeOld"} => call[l] = "swap"
  BY <1>2, Zenon DEF Fits
<1> QED
  BY <1>1, <1>3, <1>4, <1>5, <1>6, Zenon DEF PCs, Acquiring, Serves

(* A step that keeps every token where it is, and every listener that      *)
(* serves one in its loop.                                                 *)
LEMMA ServedFrame ==
    ASSUME ServedInv, UNCHANGED <<ch, delivered>>, cancelled \subseteq cancelled',
           \A d \in Dialers : result'[d] = "ok" => result[d] = "ok" /\ q'[d] = q[d] /\ q[d] \in Listeners,
           \A l \in Listeners : Serves(l) => Serves(l)',
           \A l \in Listeners : pc'[l] = "returned" => done'[l]
    PROVE  ServedInv'
<1>1. AcceptedIsServed'
  BY Zenon DEF ServedInv, AcceptedIsServed, Queued
<1> QED
  BY <1>1, Zenon DEF ServedInv

LEMMA ServedLockStep ==
    ASSUME TypeOK, ConnectedInv, TokenInv, ServedInv, NEW g \in Goroutines, Start(g) \/ LockStep(g)
    PROVE  ServedInv'
<1>1. UNCHANGED <<ch, delivered, cancelled, result, q, done>>
  BY Zenon DEF Start, LockStep, LoadOrStore, AddRef, BackOut, Lock, Unlock, LoadLock,
               DecRef, DeleteLock, queues
<1>2. PICK to : pc' = [pc EXCEPT ![g] = to]
  BY Zenon DEF Start, LockStep, LoadOrStore, AddRef, BackOut, Lock, Unlock, LoadLock,
               DecRef, DeleteLock, Acquired, Released, Goto
<1>3. \A h \in Goroutines : pc'[h] = IF h = g THEN to ELSE pc[h]
  BY <1>2, Zenon DEF TypeOK
<1>4. \A h \in Goroutines \ {g} : call'[h] = call[h]
  BY Zenon DEF TypeOK, Start, LockStep, LoadOrStore, AddRef, BackOut, Lock, Unlock, LoadLock,
               DecRef, DeleteLock, Acquired, Released, Goto
<1>5. g \in Listeners => (Serves(g) => Serves(g)') /\ (pc'[g] = "returned" => done[g])
  <2> SUFFICES ASSUME g \in Listeners
               PROVE  (Serves(g) => Serves(g)') /\ (pc'[g] = "returned" => done[g])
    OBVIOUS
  <2>0. call[g] \in {"listen", "swap"} /\ Fits(g, pc[g])
    BY WhoCalls, Zenon DEF ConnectedInv, AllFit
  <2>1. CASE Start(g) \/ BackOut(g) \/ LoadOrStore(g) \/ AddRef(g) \/ Lock(g) \/ Unlock(g)
    <3>1. pc[g] \notin {"select", "drain"} /\ (call'[g] = call[g] \/ call'[g] = "swap")
      BY <2>1, Zenon DEF TypeOK, Start, BackOut, LoadOrStore, AddRef, Lock, Unlock, Acquired, Goto
    <3>2. pc'[g] # "returned"
      BY <2>0, <2>1, Zenon
      DEF TypeOK, Start, BackOut, LoadOrStore, AddRef, Lock, Unlock, Acquired, Goto
    <3> QED
      BY <3>1, <3>2, Zenon DEF Serves
  <2>2. CASE LoadLock(g)
    <3>1. pc[g] = "loadLock"
      BY <2>2, Zenon DEF LoadLock, Released, Goto
    <3>2. leaseLocks # NoLock
      BY <3>1, PastBeginning, NoLockAssumption, Zenon DEF Counted
    <3>3. pc'[g] = "decRef" /\ call' = call
      BY <2>2, <3>2, Zenon DEF TypeOK, LoadLock, Goto
    <3> QED
      BY <3>1, <3>3, Zenon DEF Serves
  <2>3. CASE DecRef(g)
    <3>1. pc[g] = "decRef"
      BY <2>3, Zenon DEF DecRef
    <3>2. \/ pc'[g] = "deleteLock" /\ call' = call
          \/ pc'[g] = "select"
          \/ pc'[g] = "returned" /\ call[g] # "swap"
      BY <2>3, Zenon DEF TypeOK, DecRef, Released, Goto
    <3>3. call[g] # "swap" => done[g]
      BY <2>0, <3>1, Zenon DEF Fits
    <3> QED
      BY <3>1, <3>2, <3>3, Zenon DEF Serves
  <2> QED
    BY <2>1, <2>2, <2>3, NobodyBacksOut, Zenon DEF LockStep
<1>6. \A l \in Listeners : (Serves(l) => Serves(l)') /\ (pc'[l] = "returned" => done'[l])
  BY <1>1, <1>3, <1>4, <1>5, Members, Zenon DEF ServedInv, Serves
<1>7. \A d \in Dialers : result'[d] = "ok" => result[d] = "ok" /\ q'[d] = q[d] /\ q[d] \in Listeners
  BY <1>1, Zenon DEF TokenInv, Sends
<1> QED
  BY <1>1, <1>6, <1>7, ServedFrame, Zenon

(* sendToListener sends to an open queue in the map, and nobody has left   *)
(* such a queue behind.                                                    *)
LEMMA ServedDialStep ==
    ASSUME TypeOK, ConnectedInv, TokenInv, TokenInv', ServedInv, NEW d \in Dialers, DialStep(d)
    PROVE  ServedInv'
<1>0. d \in Goroutines /\ \A l \in Listeners : l \in Goroutines /\ l # d
  BY Members, Zenon
<1>1. UNCHANGED <<delivered, cancelled, done, call>>
  BY Zenon DEF DialStep, Load, CheckDone, Send, queues
<1>2. \A l \in Listeners : pc'[l] = pc[l]
  <2>1. \E to : pc' = [pc EXCEPT ![d] = to]
    BY Zenon DEF DialStep, Load, CheckDone, Send, Goto
  <2> QED
    BY <1>0, <2>1, Zenon DEF TypeOK
<1>3. \A l \in Listeners : (Serves(l)' <=> Serves(l)) /\ (pc'[l] = "returned" => done'[l])
  BY <1>1, <1>2, Zenon DEF Serves, ServedInv
<1>4. ASSUME NEW e \in Dialers \ {d}, result'[e] = "ok"
      PROVE  e \in delivered' \/ q'[e] \in cancelled' \/ Serves(q[e])'
  <2>1. result[e] = "ok" /\ q'[e] = q[e]
    <3>1. result' = result \/ \E r : result' = [result EXCEPT ![d] = r]
      BY Zenon DEF DialStep, Load, CheckDone, Send
    <3>2. q' = q \/ q' = [q EXCEPT ![d] = listenQueues]
      BY Zenon DEF DialStep, Load, CheckDone, Send
    <3> QED
      BY <1>4, <3>1, <3>2, Members, Zenon DEF TypeOK
  <2>2. q[e] \in Listeners
    BY <1>4, <2>1, Zenon DEF TokenInv, Sends
  <2> QED
    BY <1>1, <1>3, <1>4, <2>1, <2>2, Zenon DEF ServedInv, AcceptedIsServed
<1>5. ASSUME result'[d] = "ok" PROVE q'[d] \in cancelled' \/ Serves(q[d])'
  <2>1. result[d] # "ok"
    BY Zenon DEF DialStep, Load, CheckDone, Send, Goto, TokenInv, Sends, Sent
  <2>2. Send(d)
    <3>1. CASE Load(d)
      BY <1>0, <1>5, <2>1, <3>1, Zenon DEF TypeOK, Load
    <3>2. CASE CheckDone(d)
      <4>1. result' = result \/ result' = [result EXCEPT ![d] = "unavailable"]
        BY <3>2, Zenon DEF CheckDone
      <4> QED
        BY <1>0, <1>5, <2>1, <4>1, Zenon DEF TypeOK
    <3> QED
      BY <3>1, <3>2, Zenon DEF DialStep
  <2>3. pc[d] = "send" /\ q' = q
    BY <2>2, Zenon DEF Send, Goto
  <2>4. q[d] \in Listeners /\ listenQueues = q[d] /\ ~done[q[d]] /\ Counted
    BY <1>0, <2>3, PastBeginning, Zenon DEF ConnectedInv, AllFit, Fits
  <2>5. q[d] \in cancelled \/ Serves(q[d])
    BY <2>4, OpenIsServed, Zenon
  <2> QED
    BY <1>1, <1>3, <2>3, <2>4, <2>5, Zenon
<1>6. AcceptedIsServed'
  BY <1>4, <1>5, Zenon DEF AcceptedIsServed, TokenInv, AcceptedIsKept
<1> QED
  BY <1>3, <1>6, Zenon DEF ServedInv

(* A Listen call leaves its loop when its stream has ended, or with an     *)
(* empty channel.                                                          *)
LEMMA ServedListenStep ==
    ASSUME TypeOK, ConnectedInv, TokenInv, TokenInv', ServedInv, NEW l \in Listeners,
           ListenStep(l) \/ Cancel(l)
    PROVE  ServedInv'
<1>0. l \in Goroutines /\ \A d \in Dialers : d \in Goroutines /\ d # l
  BY Members, Zenon
<1>1. /\ call' = call /\ cancelled \subseteq cancelled'
      /\ \A m \in Listeners \ {l} : pc'[m] = pc[m]
      /\ pc[l] # "returned" /\ pc'[l] # "returned"
      /\ \A m \in Listeners : done[m] => done'[m]
  BY <1>0, Members, Zenon
  DEF TypeOK, ListenStep, Swap, CloseOld, Select, Drain, CloseDone, DeleteQueue, Cancel, Deliver,
      Leave, Goto, queues
<1>2. \A d \in Dialers : result'[d] = result[d] /\ q'[d] = q[d]
  <2>1. result' = result \/ \E r : result' = [result EXCEPT ![l] = r]
    BY Zenon DEF ListenStep, Swap, CloseOld, Select, Drain, CloseDone, DeleteQueue, Cancel, Deliver, Leave
  <2>2. q' = q \/ q' = [q EXCEPT ![l] = listenQueues]
    BY Zenon DEF ListenStep, Swap, CloseOld, Select, Drain, CloseDone, DeleteQueue, Cancel
  <2> QED
    BY <1>0, <2>1, <2>2, Zenon DEF TypeOK
<1>3. \A m \in Listeners : pc'[m] = "returned" => done'[m]
  BY <1>1, Zenon DEF ServedInv
<1>4. Serves(l) => Serves(l)' \/ l \in cancelled \/ ch'[l] = <<>>
  <2>1. call[l] = "swap" \/ pc[l] \notin {"select", "drain"} => (Serves(l) => Serves(l)')
    BY <1>1, Zenon DEF Serves
  <2>2. pc[l] \in {"select", "drain"} =>
          pc'[l] \in {"select", "drain"} \/ l \in cancelled \/ ch'[l] = <<>>
    BY <1>0, Zenon
    DEF TypeOK, ListenStep, Swap, CloseOld, Select, Drain, CloseDone, DeleteQueue, Cancel,
        Deliver, Leave, Goto
  <2> QED
    BY <2>1, <2>2, Zenon DEF Serves
<1>5. ASSUME NEW d \in Dialers, result'[d] = "ok", d \notin delivered', q'[d] \notin cancelled'
      PROVE  Queued(q[d], d)' /\ Serves(q[d])'
  <2>1. Queued(q[d], d)'
    BY <1>5, Zenon DEF TokenInv, AcceptedIsKept
  <2>2. q[d] \in Listeners /\ result[d] = "ok" /\ d \notin delivered /\ q[d] \notin cancelled
    <3>1. delivered \subseteq delivered'
      BY Zenon DEF ListenStep, Swap, CloseOld, Select, Drain, CloseDone, DeleteQueue, Cancel, Deliver
    <3> QED
      BY <1>1, <1>2, <1>5, <3>1, Zenon DEF TokenInv, Sends
  <2>3. Serves(q[d])
    BY <2>2, Zenon DEF ServedInv, AcceptedIsServed
  <2>4. ch'[q[d]] # <<>>
    BY <1>2, <2>1 DEF Queued
  <2>5. CASE q[d] = l
    BY <1>4, <2>1, <2>2, <2>3, <2>4, <2>5, <1>2, Zenon
  <2>6. CASE q[d] # l
    BY <1>1, <1>2, <2>1, <2>2, <2>3, <2>6, Zenon DEF Serves
  <2> QED
    BY <2>5, <2>6, Zenon
<1>6. AcceptedIsServed'
  BY <1>5, Zenon DEF AcceptedIsServed
<1> QED
  BY <1>3, <1>6, Zenon DEF ServedInv

(* While the exporter stays connected no accepted token is stranded: until *)
(* it is delivered or its stream ends, it is in the channel of a Listen    *)
(* call that is in its loop and takes it from there, superseded or not     *)
(* (controller_service.go:640).                                            *)
THEOREM NoTokenIsStranded == ConnectedSpec => []AcceptedIsServed
<1>1. Init => ServedInv
  <2>1. Init => (\A l \in Listeners : pc[l] = "idle") /\ \A d \in Dialers : result[d] = "none"
    BY Zenon DEF Init, Goroutines
  <2> QED
    BY <2>1, Zenon DEF ServedInv, AcceptedIsServed
<1>2. TypeOK /\ ConnectedInv /\ TokenInv /\ TokenInv' /\ ServedInv /\ [ConnectedNext]_vars => ServedInv'
  <2> SUFFICES ASSUME TypeOK, ConnectedInv, TokenInv, TokenInv', ServedInv, [ConnectedNext]_vars
               PROVE  ServedInv'
    OBVIOUS
  <2>1. CASE UNCHANGED vars
    BY <2>1, Zenon DEF vars, ServedInv, AcceptedIsServed, Queued, Serves
  <2> QED
    BY <2>1, ServedLockStep, ServedDialStep, ServedListenStep, Zenon DEF ConnectedNext, Next
<1>3. ServedInv => AcceptedIsServed
  BY Zenon DEF ServedInv
<1>4. ConnectedSpec => []TokenInv
  <2>1. [ConnectedNext]_vars => [Next]_vars
    BY Zenon DEF ConnectedNext
  <2> QED
    BY <2>1, TokensHold, PTL DEF ConnectedSpec, Spec
<1> QED
  BY <1>1, <1>2, <1>3, <1>4, ConnectedType, ConnectedInvariant, PTL DEF ConnectedSpec

=============================================================================
