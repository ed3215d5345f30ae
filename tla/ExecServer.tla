----------------------------- MODULE ExecServer -----------------------------
(***************************************************************************)
(* The server of jumpstarter-exec (rust/jumpstarter-exec/src/server.rs):   *)
(* the accept loop of serve_with, one thread per connection, and one more  *)
(* per Exec that reads from its client.  Shutdown requests and Exec        *)
(* requests meet under the lifecycle mutex.                                *)
(*                                                                         *)
(* When serve_with returns the process ends and every thread with it; the  *)
(* children go on.  Output, input and the signals a client sends are left  *)
(* out: they pass bytes and numbers through.                               *)
(***************************************************************************)
CONSTANTS
    Execs,       \* connections that send Exec; also the name of the child
    Shutters     \* connections that send Shutdown

VARIABLES
    shutdown, children,  \* Lifecycle
    socket,      \* the socket file is there
    main,        \* serve_with
    th,          \* the thread of each connection
    reader,      \* the thread that reads from the client of an Exec
    client,      \* clients whose connection is open
    child,       \* the process of each Exec
    termed,      \* children that were sent SIGTERM
    todo         \* the children a Shutdown, or serve_with itself, still signals

vars == <<shutdown, children, socket, main, th, reader, client, child, termed, todo>>
Conns == Execs \cup Shutters
Up == main # "returned"

(* The types of the variables.                                             *)
TypeOK ==
    /\ shutdown \in BOOLEAN /\ socket \in BOOLEAN
    /\ children \subseteq Execs /\ termed \subseteq Execs
    /\ main \in {"check", "accept", "leftover", "returned"}
    /\ th \in [Conns -> {"none", "queued", "accepted", "spawned", "rejected", "registered",
                         "running", "reaped", "terminating", "failed", "acked", "removed", "killing", "done"}]
    /\ reader \in [Execs -> {"none", "reading", "killing", "done"}]
    /\ client \subseteq Conns
    /\ child \in [Execs -> {"none", "alive", "zombie", "gone"}]
    /\ todo \in [Shutters \cup {"main"} -> SUBSET Execs]

Init ==
    /\ shutdown = FALSE /\ children = {}
    /\ socket = TRUE /\ main = "check"
    /\ th = [c \in Conns |-> "none"]
    /\ reader = [c \in Execs |-> "none"]
    /\ client = {}
    /\ child = [c \in Execs |-> "none"]
    /\ termed = {}
    /\ todo = [s \in Shutters \cup {"main"} |-> {}]

Goto(c, label) == Up /\ th' = [th EXCEPT ![c] = label]

(* kill(pid, 15); a process that has been waited for is not there to get   *)
(* it.                                                                     *)
Sigterm(c) == termed' = IF child[c] \in {"alive", "zombie"} THEN termed \cup {c} ELSE termed

-----------------------------------------------------------------------------
(* Clients and children                                                    *)

Connect(c) ==
    /\ socket /\ th[c] = "none"
    /\ Goto(c, "queued")
    /\ client' = client \cup {c}
    /\ UNCHANGED <<shutdown, children, socket, main, reader, child, termed, todo>>

Disconnect(c) ==
    /\ c \in client
    /\ client' = client \ {c}
    /\ UNCHANGED <<shutdown, children, socket, main, th, reader, child, termed, todo>>

ChildExits(c) ==
    /\ child[c] = "alive"
    /\ child' = [child EXCEPT ![c] = "zombie"]
    /\ UNCHANGED <<shutdown, children, socket, main, th, reader, client, termed, todo>>

-----------------------------------------------------------------------------
(* serve_with                                                              *)

is_shutdown ==
    /\ main = "check"
    /\ IF shutdown
       THEN main' = "leftover" /\ todo' = [todo EXCEPT !["main"] = children]
       ELSE main' = "accept" /\ UNCHANGED todo
    /\ UNCHANGED <<shutdown, children, socket, th, reader, client, child, termed>>

accept(c) ==
    /\ main = "accept" /\ main' = "check"
    /\ th[c] = "queued" /\ Goto(c, "accepted")
    /\ UNCHANGED <<shutdown, children, socket, reader, client, child, termed, todo>>

WouldBlock ==
    /\ main = "accept" /\ main' = "check"
    /\ \A c \in Conns : th[c] # "queued"
    /\ UNCHANGED <<shutdown, children, socket, th, reader, client, child, termed, todo>>

KillLeftover(c) ==
    /\ main = "leftover" /\ c \in todo["main"]
    /\ Sigterm(c)
    /\ todo' = [todo EXCEPT !["main"] = @ \ {c}]
    /\ UNCHANGED <<shutdown, children, socket, main, th, reader, client, child>>

(* The pause of 200 ms is not waited for by any other thread.              *)
Return ==
    /\ main = "leftover" /\ todo["main"] = {}
    /\ main' = "returned" /\ socket' = FALSE
    /\ UNCHANGED <<shutdown, children, th, reader, client, child, termed, todo>>

-----------------------------------------------------------------------------
(* Shutdown, in handle_connection                                          *)

(* An acknowledgement that cannot be sent ends the handler.                *)
Acknowledge(s) ==
    /\ th[s] = "accepted"
    /\ Goto(s, IF s \in client THEN "acked" ELSE "done")
    /\ UNCHANGED <<shutdown, children, socket, main, reader, client, child, termed, todo>>

RemoveSocket(s) ==
    /\ th[s] = "acked"
    /\ Goto(s, "removed")
    /\ socket' = FALSE
    /\ UNCHANGED <<shutdown, children, main, reader, client, child, termed, todo>>

(* Mutant: only an idle server is told to stop.                            *)
BeginShutdownIfIdle(s) ==
    /\ th[s] = "removed"
    /\ Goto(s, "killing")
    /\ shutdown' = (children = {})
    /\ todo' = [todo EXCEPT ![s] = children]
    /\ UNCHANGED <<children, socket, main, reader, client, child, termed>>

begin_shutdown(s) ==
    /\ th[s] = "removed"
    /\ Goto(s, "killing")
    /\ shutdown' = TRUE
    /\ todo' = [todo EXCEPT ![s] = children]
    /\ UNCHANGED <<children, socket, main, reader, client, child, termed>>

KillChild(s, c) ==
    /\ Up /\ th[s] = "killing" /\ c \in todo[s]
    /\ Sigterm(c)
    /\ todo' = [todo EXCEPT ![s] = @ \ {c}]
    /\ UNCHANGED <<shutdown, children, socket, main, th, reader, client, child>>

ShutdownDone(s) ==
    /\ th[s] = "killing" /\ todo[s] = {}
    /\ Goto(s, "done")
    /\ UNCHANGED <<shutdown, children, socket, main, reader, client, child, termed, todo>>

-----------------------------------------------------------------------------
(* handle_exec                                                             *)

(* No request, an empty one, or one that cannot be spawned.                *)
Refuse(c) ==
    /\ th[c] = "accepted"
    /\ Goto(c, "done")
    /\ UNCHANGED <<shutdown, children, socket, main, reader, client, child, termed, todo>>

Spawn(c) ==
    /\ th[c] = "accepted"
    /\ Goto(c, "spawned")
    /\ child' = [child EXCEPT ![c] = "alive"]
    /\ UNCHANGED <<shutdown, children, socket, main, reader, client, termed, todo>>

(* Mutant: shutdown is not looked at.                                      *)
RegisterAlways(c) ==
    /\ th[c] = "spawned"
    /\ Goto(c, "registered")
    /\ children' = children \cup {c}
    /\ UNCHANGED <<shutdown, socket, main, reader, client, child, termed, todo>>

(* A child that comes too late is not registered.                          *)
register_child(c) ==
    /\ th[c] = "spawned"
    /\ IF shutdown
       THEN Goto(c, "rejected") /\ UNCHANGED children
       ELSE Goto(c, "registered") /\ children' = children \cup {c}
    /\ UNCHANGED <<shutdown, socket, main, reader, client, child, termed, todo>>

(* Its own handler signals it, with the mutex long released, and waits.    *)
terminate_child(c) ==
    /\ th[c] = "rejected"
    /\ Goto(c, "terminating")
    /\ Sigterm(c)
    /\ UNCHANGED <<shutdown, children, socket, main, reader, client, child, todo>>

(* Started cannot be sent to a client that has gone: the handler returns,  *)
(* and the child stays in the set.                                         *)
SendStarted(c) ==
    /\ th[c] = "registered"
    /\ IF c \in client
       THEN Goto(c, "running") /\ reader' = [reader EXCEPT ![c] = "reading"]
       ELSE Goto(c, "failed") /\ UNCHANGED reader
    /\ UNCHANGED <<shutdown, children, socket, main, client, child, termed, todo>>

Wait(c) ==
    /\ th[c] \in {"running", "terminating"} /\ child[c] = "zombie"
    /\ Goto(c, IF th[c] = "running" THEN "reaped" ELSE "done")
    /\ child' = [child EXCEPT ![c] = "gone"]
    /\ UNCHANGED <<shutdown, children, socket, main, reader, client, termed, todo>>

unregister_child(c) ==
    /\ th[c] = "reaped"
    /\ Goto(c, "done")
    /\ children' = children \ {c}
    /\ UNCHANGED <<shutdown, socket, main, reader, client, child, termed, todo>>

(* Mutant: the end of the client's lines ends the reader, no more.         *)
ReaderLeaves(c) ==
    /\ Up /\ reader[c] = "reading" /\ c \notin client
    /\ reader' = [reader EXCEPT ![c] = "done"]
    /\ UNCHANGED <<shutdown, children, socket, main, th, client, child, termed, todo>>

(* The client's lines have ended: unless the child has been waited for it  *)
(* is signalled.                                                           *)
ReaderEnds(c) ==
    /\ Up /\ reader[c] = "reading" /\ c \notin client
    /\ reader' = [reader EXCEPT ![c] = IF th[c] = "done" THEN "done" ELSE "killing"]
    /\ UNCHANGED <<shutdown, children, socket, main, th, client, child, termed, todo>>

ReaderKills(c) ==
    /\ Up /\ reader[c] = "killing"
    /\ Sigterm(c)
    /\ reader' = [reader EXCEPT ![c] = "done"]
    /\ UNCHANGED <<shutdown, children, socket, main, th, client, child, todo>>

-----------------------------------------------------------------------------
Main ==
    \/ is_shutdown \/ WouldBlock \/ Return
    \/ \E c \in Conns : accept(c)
    \/ \E c \in Execs : KillLeftover(c)
Handler(c) ==
    \/ c \in Shutters /\ \/ Acknowledge(c) \/ RemoveSocket(c) \/ begin_shutdown(c) \/ ShutdownDone(c)
                         \/ \E d \in Execs : KillChild(c, d)
    \/ c \in Execs /\ \/ Refuse(c) \/ Spawn(c) \/ register_child(c) \/ terminate_child(c)
                      \/ SendStarted(c) \/ Wait(c) \/ unregister_child(c)
Reader(c) == ReaderEnds(c) \/ ReaderKills(c)

Next ==
    \/ Main
    \/ \E c \in Conns : Handler(c) \/ Connect(c) \/ Disconnect(c)
    \/ \E c \in Execs : Reader(c) \/ ChildExits(c)

Spec == Init /\ [][Next]_vars

(* The threads run; a child that was sent SIGTERM exits.                   *)
Fairness ==
    /\ WF_vars(Main)
    /\ \A c \in Conns : WF_vars(Handler(c))
    /\ \A c \in Execs : WF_vars(Reader(c)) /\ WF_vars(c \in termed /\ ChildExits(c))
FairSpec == Spec /\ Fairness

-----------------------------------------------------------------------------
(* Properties                                                              *)

(* When serve_with has returned, every child that was registered and still *)
(* runs was sent SIGTERM, also one whose Started could not be delivered:   *)
(* "a concurrent Exec cannot register a child after Shutdown has           *)
(* snapshotted (and orphan it without SIGTERM)", server.rs:43-44.  A child *)
(* that was not registered is left running without one when serve_with     *)
(* returns before its handler has got from spawn to the kill of            *)
(* terminate_child, although server.rs:325 says "do not leave an untracked *)
(* child running".                                                         *)
NoOrphan ==
    main = "returned" =>
        \A c \in Execs : child[c] = "alive" => c \in termed \/ th[c] \in {"spawned", "rejected"}

(* A Shutdown that was acknowledged ends serve_with.                       *)
ShutdownReturns == (\E s \in Shutters : th[s] = "acked") ~> main = "returned"

(* While the server runs, a client that disconnects takes its child with   *)
(* it, and every child that exits is waited for, except one whose client   *)
(* had gone before Started could be sent.                                  *)
ChildIsReaped ==
    \A c \in Execs :
        (child[c] = "zombie" \/ (th[c] = "running" /\ c \notin client))
        ~> (child[c] = "gone" \/ main = "returned" \/ th[c] = "failed")
=============================================================================
