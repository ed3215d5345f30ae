---------------------------- MODULE ExclusiveUse -----------------------------
(***************************************************************************)
(* What leasing promises, without saying how: a user gets a resource that  *)
(* nobody holds, holds one resource at most, and when it has given it back *)
(* or was retired it never holds anything again.  holders is a set for     *)
(* each resource, so that an implementation which hands a resource out     *)
(* twice has a state to map to, but no step that leads there.              *)
(***************************************************************************)
CONSTANTS Resources, Users

VARIABLES
    holders,   \* holders[r]: who holds r
    spent      \* users that will hold nothing any more

vars == <<holders, spent>>

Init ==
    /\ holders = [r \in Resources |-> {}]
    /\ spent = {}

Take(r, u) ==
    /\ holders[r] = {}
    /\ u \notin spent
    /\ \A s \in Resources : u \notin holders[s]
    /\ holders' = [holders EXCEPT ![r] = {u}]
    /\ UNCHANGED spent

GiveBack(r) ==
    /\ holders' = [holders EXCEPT ![r] = {}]
    /\ spent' = spent \cup holders[r]

Retire(u) ==
    /\ \A r \in Resources : u \notin holders[r]
    /\ spent' = spent \cup {u}
    /\ UNCHANGED holders

Next ==
    \/ \E r \in Resources, u \in Users : Take(r, u)
    \/ \E r \in Resources : GiveBack(r)
    \/ \E u \in Users : Retire(u)

Spec == Init /\ [][Next]_vars
=============================================================================
