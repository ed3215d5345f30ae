----------------------------- MODULE ListenQueue -----------------------------
(***************************************************************************)
(* The hand-over of router tokens from Dial to Listen inside the           *)
(* controller (controller/internal/service/controller_service.go), for one *)
(* lease name.  Every Listen and every Dial call is a goroutine of its     *)
(* own.  They share two sync.Maps, leaseLocks and listenQueues, of which   *)
(* the model keeps the entry of that one lease: entries of different names *)
(* never interact.                                                         *)
(*                                                                         *)
(* A step is one atomic operation of the code: a sync.Map call, an atomic  *)
(* add, a Lock or an Unlock, a select on the channels.                     *)
(***************************************************************************)
EXTENDS Integers, Sequences, FiniteSets

CONSTANTS Listeners,   \* the Listen calls made for the lease
          Dialers,     \* the Dial calls that reach sendToListener
          BufferCap,   \* capacity of listenQueue.ch
          NoLock,      \* no entry in leaseLocks, or a free mutex
          NoQueue      \* no entry in listenQueues

ASSUME CallsAssumption == /\ Listeners \cap Dialers = {}
                          /\ NoLock \notin Listeners \cup Dialers
                          /\ NoQueue \notin Listeners
ASSUME BufferCapAssumption == BufferCap \in Nat \ {0}

Goroutines == Listeners \cup Dialers

(* A lock is named by the goroutine that stores it and by the call of      *)
(* acquireLeaseLock in which it does: Listen's own (line 626), the one in  *)
(* swapListenQueue (line 153) or the one in sendToListener (line 177).     *)
Calls == {"listen", "swap", "send"}
Locks == (Listeners \X {"listen", "swap"}) \cup (Dialers \X {"send"})
ASSUME NoLockAssumption == NoLock \notin Locks

VARIABLES leaseLocks,   \* the map's entry for the lease: a lock or NoLock
          refs,         \* leaseLock.refs of every lock
          holder,       \* who has locked leaseLock.mu of every lock
          listenQueues, \* the map's entry: the listener whose queue it is
          ch,           \* listenQueue.ch: the dialers whose tokens it holds
          done,         \* listenQueue.done is closed
          cancelled,    \* the listeners whose stream context is done
          pc,           \* where a goroutine is
          call,         \* the acquireLeaseLock call it is in, or was in last
          ll,           \* the local variable ll of acquire and release
          mu,           \* the mutex a call of acquireLeaseLock returned
          q,            \* the local q of sendToListener, old of swapListenQueue
          delivered,    \* tokens handed to the exporter by stream.Send
          result        \* what a Dial or Listen call returned

locks == <<leaseLocks, refs, holder>>
queues == <<listenQueues, ch, done>>
vars == <<leaseLocks, refs, holder, listenQueues, ch, done, cancelled,
          pc, call, ll, mu, q, delivered, result>>

PCs == {"idle", "loadOrStore", "addRef", "backOut", "lock",
        "load", "checkDone", "send", "swap", "closeOld", "unlock",
        "loadLock", "decRef", "deleteLock", "select", "drain",
        "closeDone", "deleteQueue", "returned"}

Results == {"none", "ok", "unavailable", "exhausted",
            "ended", "superseded", "sendFailed"}

TypeOK ==
    /\ leaseLocks \in Locks \cup {NoLock}
    /\ refs \in [Locks -> Int]
    /\ holder \in [Locks -> Goroutines \cup {NoLock}]
    /\ listenQueues \in Listeners \cup {NoQueue}
    /\ ch \in [Listeners -> Seq(Dialers)]
    /\ \A l \in Listeners : Len(ch[l]) <= BufferCap
    /\ done \in [Listeners -> BOOLEAN]
    /\ cancelled \subseteq Listeners
    /\ pc \in [Goroutines -> PCs]
    /\ call \in [Goroutines -> Calls]
    /\ \A g \in Goroutines : <<g, call[g]>> \in Locks
    /\ ll \in [Goroutines -> Locks \cup {NoLock}]
    /\ mu \in [Goroutines -> [Calls -> Locks \cup {NoLock}]]
    /\ q \in [Goroutines -> Listeners \cup {NoQueue}]
    /\ delivered \subseteq Dialers
    /\ result \in [Goroutines -> Results]

Init ==
    /\ leaseLocks = NoLock
    /\ refs = [k \in Locks |-> 0]
    /\ holder = [k \in Locks |-> NoLock]
    /\ listenQueues = NoQueue
    /\ ch = [l \in Listeners |-> <<>>]
    /\ done = [l \in Listeners |-> FALSE]
    /\ cancelled = {}
    /\ pc = [g \in Goroutines |-> "idle"]
    /\ call = [g \in Goroutines |-> IF g \in Listeners THEN "listen" ELSE "send"]
    /\ ll = [g \in Goroutines |-> NoLock]
    /\ mu = [g \in Goroutines |-> [c \in Calls |-> NoLock]]
    /\ q = [g \in Goroutines |-> NoQueue]
    /\ delivered = {}
    /\ result = [g \in Goroutines |-> "none"]

Goto(g, from, to) == pc[g] = from /\ pc' = [pc EXCEPT ![g] = to]

-----------------------------------------------------------------------------
(* acquireLeaseLock.  What the caller does with the mutex it gets: Listen  *)
(* goes on to swapListenQueue, which acquires once more and locks;         *)
(* sendToListener locks.                                                   *)

(* acquireLeaseLock returns lock k to the call that goroutine g is in.     *)
Acquired(g, from, k) ==
    /\ mu' = [mu EXCEPT ![g][call[g]] = k]
    /\ IF call[g] = "listen"
         THEN Goto(g, from, "loadOrStore") /\ call' = [call EXCEPT ![g] = "swap"]
         ELSE Goto(g, from, "lock") /\ call' = call

(* A Listen call has passed its checks, or a Dial call reaches             *)
(* sendToListener.                                                         *)
Start(g) ==
    /\ Goto(g, "idle", "loadOrStore")
    /\ UNCHANGED <<locks, queues, cancelled, call, ll, mu, q, delivered, result>>

(* Mutant: Store instead of LoadOrStore.                                   *)
StoreAlways(g) ==
    /\ leaseLocks' = <<g, call[g]>>
    /\ refs' = [refs EXCEPT ![<<g, call[g]>>] = 1]
    /\ Acquired(g, "loadOrStore", <<g, call[g]>>)
    /\ UNCHANGED <<holder, queues, cancelled, ll, q, delivered, result>>

(* LoadOrStore with a fresh leaseLock{refs: 1}.                            *)
LoadOrStore(g) ==
    /\ \/ /\ leaseLocks = NoLock
          /\ leaseLocks' = <<g, call[g]>>
          /\ refs' = [refs EXCEPT ![<<g, call[g]>>] = 1]
          /\ Acquired(g, "loadOrStore", <<g, call[g]>>)
          /\ UNCHANGED ll
       \/ /\ leaseLocks # NoLock
          /\ ll' = [ll EXCEPT ![g] = leaseLocks]
          /\ Goto(g, "loadOrStore", "addRef")
          /\ UNCHANGED <<leaseLocks, refs, call, mu>>
    /\ UNCHANGED <<holder, queues, cancelled, q, delivered, result>>

(* Mutant: the lock is returned without counting the new user.             *)
AddRefUncounted(g) ==
    /\ pc[g] = "addRef"
    /\ Acquired(g, "addRef", ll[g])
    /\ UNCHANGED <<locks, queues, cancelled, ll, q, delivered, result>>

(* The reader of a count that was 0 backs out, any other one has the lock. *)
AddRef(g) ==
    /\ pc[g] = "addRef"
    /\ refs' = [refs EXCEPT ![ll[g]] = @ + 1]
    /\ \/ /\ refs'[ll[g]] <= 1
          /\ Goto(g, "addRef", "backOut")
          /\ UNCHANGED <<call, mu>>
       \/ /\ refs'[ll[g]] > 1
          /\ Acquired(g, "addRef", ll[g])
    /\ UNCHANGED <<leaseLocks, holder, queues, cancelled, ll, q, delivered, result>>

BackOut(g) ==
    /\ Goto(g, "backOut", "loadOrStore")
    /\ refs' = [refs EXCEPT ![ll[g]] = @ - 1]
    /\ UNCHANGED <<leaseLocks, holder, queues, cancelled, call, ll, mu, q,
                   delivered, result>>

(* Mutant: the mutex is not locked.                                        *)
LockNothing(g) ==
    /\ Goto(g, "lock", CASE call[g] = "send" -> "load"
                         [] call[g] = "swap" -> "swap"
                         [] call[g] = "listen" -> "closeDone")
    /\ UNCHANGED <<locks, queues, cancelled, call, ll, mu, q, delivered, result>>

(* mu.Lock(): in sendToListener, in swapListenQueue, and of listenMu in    *)
(* the deferred function of Listen.                                        *)
Lock(g) ==
    /\ pc[g] = "lock"
    /\ holder[mu[g][call[g]]] = NoLock
    /\ holder' = [holder EXCEPT ![mu[g][call[g]]] = g]
    /\ Goto(g, "lock", CASE call[g] = "send" -> "load"
                         [] call[g] = "swap" -> "swap"
                         [] call[g] = "listen" -> "closeDone")
    /\ UNCHANGED <<leaseLocks, refs, queues, cancelled, call, ll, mu, q,
                   delivered, result>>

(* mu.Unlock().  Listen still removes its queue before it releases.        *)
Unlock(g) ==
    /\ Goto(g, "unlock", IF call[g] = "listen" THEN "deleteQueue" ELSE "loadLock")
    /\ holder' = [holder EXCEPT ![mu[g][call[g]]] = NoLock]
    /\ UNCHANGED <<leaseLocks, refs, queues, cancelled, call, ll, mu, q,
                   delivered, result>>

-----------------------------------------------------------------------------
(* releaseLeaseLock: it finds the lock through the map, not through mu.    *)

(* What follows the release: the select loop of Listen after its swap, the *)
(* end of the call otherwise.                                              *)
Released(g, from) ==
    IF call[g] = "swap"
      THEN Goto(g, from, "select") /\ call' = [call EXCEPT ![g] = "listen"]
      ELSE Goto(g, from, "returned") /\ call' = call

LoadLock(g) ==
    /\ \/ /\ leaseLocks = NoLock
          /\ Released(g, "loadLock")
          /\ UNCHANGED ll
       \/ /\ leaseLocks # NoLock
          /\ ll' = [ll EXCEPT ![g] = leaseLocks]
          /\ Goto(g, "loadLock", "decRef")
          /\ UNCHANGED call
    /\ UNCHANGED <<locks, queues, cancelled, mu, q, delivered, result>>

(* Mutant: the last user leaves the entry in the map.                      *)
DecRefKeeps(g) ==
    /\ pc[g] = "decRef"
    /\ refs' = [refs EXCEPT ![ll[g]] = @ - 1]
    /\ Released(g, "decRef")
    /\ UNCHANGED <<leaseLocks, holder, queues, cancelled, ll, mu, q, delivered, result>>

DecRef(g) ==
    /\ pc[g] = "decRef"
    /\ refs' = [refs EXCEPT ![ll[g]] = @ - 1]
    /\ \/ /\ refs'[ll[g]] = 0
          /\ Goto(g, "decRef", "deleteLock")
          /\ UNCHANGED call
       \/ /\ refs'[ll[g]] # 0
          /\ Released(g, "decRef")
    /\ UNCHANGED <<leaseLocks, holder, queues, cancelled, ll, mu, q, delivered, result>>

(* CompareAndDelete(leaseName, ll).                                        *)
DeleteLock(g) ==
    /\ Released(g, "deleteLock")
    /\ leaseLocks' = IF leaseLocks = ll[g] THEN NoLock ELSE leaseLocks
    /\ UNCHANGED <<refs, holder, queues, cancelled, ll, mu, q, delivered, result>>

-----------------------------------------------------------------------------
(* sendToListener, between Lock and Unlock.                                *)

(* listenQueues.Load.                                                      *)
Load(d) ==
    /\ \/ /\ listenQueues = NoQueue
          /\ result' = [result EXCEPT ![d] = "unavailable"]
          /\ Goto(d, "load", "unlock")
          /\ UNCHANGED q
       \/ /\ listenQueues # NoQueue
          /\ q' = [q EXCEPT ![d] = listenQueues]
          /\ Goto(d, "load", "checkDone")
          /\ UNCHANGED result
    /\ UNCHANGED <<locks, queues, cancelled, call, ll, mu, delivered>>

CheckDone(d) ==
    /\ pc[d] = "checkDone"
    /\ \/ /\ done[q[d]]
          /\ result' = [result EXCEPT ![d] = "unavailable"]
          /\ Goto(d, "checkDone", "unlock")
       \/ /\ ~done[q[d]]
          /\ Goto(d, "checkDone", "send")
          /\ UNCHANGED result
    /\ UNCHANGED <<locks, queues, cancelled, call, ll, mu, q, delivered>>

(* Mutant: a token that finds the buffer full is dropped, and Dial says OK. *)
SendDrops(d) ==
    /\ Goto(d, "send", "unlock")
    /\ ch' = [ch EXCEPT ![q[d]] = IF Len(@) < BufferCap THEN Append(@, d) ELSE @]
    /\ result' = [result EXCEPT ![d] = "ok"]
    /\ UNCHANGED <<locks, listenQueues, done, cancelled, call, ll, mu, q, delivered>>

(* The non-blocking send of the token.                                     *)
Send(d) ==
    /\ Goto(d, "send", "unlock")
    /\ \/ /\ Len(ch[q[d]]) < BufferCap
          /\ ch' = [ch EXCEPT ![q[d]] = Append(@, d)]
          /\ result' = [result EXCEPT ![d] = "ok"]
       \/ /\ Len(ch[q[d]]) >= BufferCap
          /\ result' = [result EXCEPT ![d] = "exhausted"]
          /\ UNCHANGED ch
    /\ UNCHANGED <<locks, listenQueues, done, cancelled, call, ll, mu, q, delivered>>

-----------------------------------------------------------------------------
(* swapListenQueue, between Lock and Unlock, and Listen.                   *)

(* listenQueues.Swap.                                                      *)
Swap(l) ==
    /\ Goto(l, "swap", IF listenQueues = NoQueue THEN "unlock" ELSE "closeOld")
    /\ q' = [q EXCEPT ![l] = listenQueues]
    /\ listenQueues' = l
    /\ UNCHANGED <<locks, ch, done, cancelled, call, ll, mu, delivered, result>>

(* Mutant: the superseded listener is not told.                            *)
CloseOldNothing(l) ==
    /\ Goto(l, "closeOld", "unlock")
    /\ UNCHANGED <<locks, queues, cancelled, call, ll, mu, q, delivered, result>>

CloseOld(l) ==
    /\ Goto(l, "closeOld", "unlock")
    /\ done' = [done EXCEPT ![q[l]] = TRUE]
    /\ UNCHANGED <<locks, listenQueues, ch, cancelled, call, ll, mu, q,
                   delivered, result>>

(* The exporter's stream ends: its context is done, and Send fails.        *)
Cancel(l) ==
    /\ pc[l] \notin {"idle", "returned"}
    /\ l \notin cancelled
    /\ cancelled' = cancelled \cup {l}
    /\ UNCHANGED <<locks, queues, pc, call, ll, mu, q, delivered, result>>

(* The select loop ends and the deferred function begins.                  *)
Leave(l, from, why) ==
    /\ Goto(l, from, "lock")
    /\ result' = [result EXCEPT ![l] = why]

(* msg := <-wrapper.ch; stream.Send(msg).                                  *)
Deliver(l, from) ==
    /\ ch[l] # <<>>
    /\ ch' = [ch EXCEPT ![l] = Tail(@)]
    /\ \/ /\ l \notin cancelled
          /\ delivered' = delivered \cup {Head(ch[l])}
          /\ Goto(l, from, from)
          /\ UNCHANGED result
       \/ /\ l \in cancelled
          /\ Leave(l, from, "sendFailed")
          /\ UNCHANGED delivered

Select(l) ==
    /\ \/ /\ l \in cancelled
          /\ Leave(l, "select", "ended")
          /\ UNCHANGED <<ch, delivered>>
       \/ /\ done[l]
          /\ Goto(l, "select", "drain")
          /\ UNCHANGED <<ch, delivered, result>>
       \/ Deliver(l, "select")
    /\ UNCHANGED <<locks, listenQueues, done, cancelled, call, ll, mu, q>>

Drain(l) ==
    /\ \/ Deliver(l, "drain")
       \/ /\ ch[l] = <<>>
          /\ Leave(l, "drain", "superseded")
          /\ UNCHANGED <<ch, delivered>>
    /\ UNCHANGED <<locks, listenQueues, done, cancelled, call, ll, mu, q>>

CloseDone(l) ==
    /\ Goto(l, "closeDone", "unlock")
    /\ done' = [done EXCEPT ![l] = TRUE]
    /\ UNCHANGED <<locks, listenQueues, ch, cancelled, call, ll, mu, q,
                   delivered, result>>

(* listenQueues.CompareAndDelete(leaseName, wrapper).                      *)
DeleteQueue(l) ==
    /\ Goto(l, "deleteQueue", "loadLock")
    /\ listenQueues' = IF listenQueues = l THEN NoQueue ELSE listenQueues
    /\ UNCHANGED <<locks, ch, done, cancelled, call, ll, mu, q, delivered, result>>

-----------------------------------------------------------------------------
(* The steps a goroutine takes by itself once it has started.              *)
LockStep(g) == LoadOrStore(g) \/ AddRef(g) \/ BackOut(g) \/ Lock(g) \/ Unlock(g)
                 \/ LoadLock(g) \/ DecRef(g) \/ DeleteLock(g)
DialStep(d) == Load(d) \/ CheckDone(d) \/ Send(d)
ListenStep(l) == Swap(l) \/ CloseOld(l) \/ Select(l) \/ Drain(l)
                   \/ CloseDone(l) \/ DeleteQueue(l)

Next == \/ \E g \in Goroutines : Start(g) \/ LockStep(g)
        \/ \E d \in Dialers : DialStep(d)
        \/ \E l \in Listeners : ListenStep(l) \/ Cancel(l)

Spec == Init /\ [][Next]_vars

(* The Go scheduler runs every goroutine that can run.                     *)
Fairness == /\ \A g \in Goroutines : WF_vars(LockStep(g))
            /\ \A d \in Dialers : WF_vars(DialStep(d))
            /\ \A l \in Listeners : WF_vars(ListenStep(l))

FairSpec == Spec /\ Fairness

-----------------------------------------------------------------------------
(* The calls of acquireLeaseLock that goroutine g has returned from and    *)
(* not yet matched by the decrement in releaseLeaseLock.                   *)
Unreleased == {"lock", "load", "checkDone", "send", "swap", "closeOld", "unlock",
               "select", "drain", "closeDone", "deleteQueue", "loadLock", "decRef"}
Held(g) == (IF pc[g] \in Unreleased THEN {call[g]} ELSE {})
             \cup (IF call[g] = "swap" THEN {"listen"} ELSE {})

(* A Listen call that holds its reference and has no reason to leave.      *)
Alive(l) == "listen" \in Held(l) /\ l \notin cancelled /\ ~done[l]

(* The exporter is connected from before the first Dial on: its first      *)
(* Listen is alone, every other call starts when one is alive, and an      *)
(* established stream ends only when another one has taken its place.      *)
StaysConnected ==
    /\ \A g \in Goroutines : pc[g] = "idle" /\ pc'[g] # "idle" =>
         \/ \E l \in Listeners : Alive(l)
         \/ g \in Listeners /\ \A h \in Goroutines : pc[h] = "idle"
    /\ \A l \in cancelled' \ cancelled :
         pc[l] \in {"select", "drain"} /\ \E m \in Listeners \ {l} : Alive(m)

ConnectedNext == Next /\ StaysConnected
ConnectedSpec == Init /\ [][ConnectedNext]_vars
ConnectedFairSpec == ConnectedSpec /\ Fairness

-----------------------------------------------------------------------------
(* Between mu.Lock() and mu.Unlock().                                      *)
Critical(g) == pc[g] \in {"load", "checkDone", "send", "swap", "closeOld",
                          "closeDone", "unlock"}

(* The mutex a caller of acquireLeaseLock holds on to is the one in the    *)
(* map, so that all callers of one lease use the same one: "so we don't    *)
(* end up with a stale mutex that's no longer in the map"                  *)
(* (controller_service.go:125).                                            *)
HeldLockIsCurrent == \A g \in Goroutines : \A c \in Held(g) : mu[g][c] = leaseLocks

(* The critical sections of swapListenQueue, sendToListener and Listen's   *)
(* teardown exclude each other, whichever mutex object each one locked     *)
(* (controller_service.go:149, 167).                                       *)
Serialized == \A g, h \in Goroutines : Critical(g) /\ Critical(h) => g = h

(* "Dial never sends a token to a superseded queue"                        *)
(* (controller_service.go:151): when sendToListener sends, the queue it    *)
(* loaded is still the lease's queue and still open.                       *)
SendsToLiveQueue ==
    \A d \in Dialers : pc[d] = "send" => listenQueues = q[d] /\ ~done[q[d]]

(* An entry of leaseLocks whose count has dropped to zero is about to be   *)
(* deleted by a goroutine that is past its decrement; so the retry loop of *)
(* acquireLeaseLock (controller_service.go:116) never spins on an entry    *)
(* that nobody will remove.                                                *)
DeadEntryIsBeingDeleted ==
    leaseLocks # NoLock /\ refs[leaseLocks] <= 0 =>
      \E g \in Goroutines : pc[g] = "deleteLock" /\ ll[g] = leaseLocks

(* A token accepted by sendToListener reaches the exporter unless the      *)
(* stream of the listener it was queued for ends, also when that listener  *)
(* has been superseded (controller_service.go:640).  Stated for an         *)
(* exporter that stays connected: a token sent to a queue that was closed  *)
(* may find nobody to drain it.                                            *)
AcceptedIsDelivered ==
    \A d \in Dialers : result[d] = "ok" ~> d \in delivered \/ q[d] \in cancelled

(* No call is stuck, however Listen calls come and go: every Dial returns, *)
(* without a lost wake-up, an endless retry or a deadlock on the mutexes,  *)
(* and so does a listener whose queue was replaced by another Listen, also *)
(* when its own stream never ends (controller_service.go:157).             *)
CallsReturn ==
    /\ \A d \in Dialers : pc[d] = "loadOrStore" ~> pc[d] = "returned"
    /\ \A l \in Listeners :
         pc[l] = "select" /\ listenQueues # l ~> pc[l] = "returned"

=============================================================================
