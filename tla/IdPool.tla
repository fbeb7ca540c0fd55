------------------------------- MODULE IdPool -------------------------------
(***************************************************************************)
(* What a free list promises: next() hands out an id that nobody has, and  *)
(* only release() takes it back.                                           *)
(***************************************************************************)
CONSTANTS Threads, Ids

VARIABLE owned                  \* the ids that each thread has

Free == Ids \ UNION {owned[t] : t \in Threads}

Init == owned = [t \in Threads |-> {}]

Take(t) == \E id \in Free : owned' = [owned EXCEPT ![t] = @ \cup {id}]

GiveBack(t) == \E id \in owned[t] : owned' = [owned EXCEPT ![t] = @ \ {id}]

Next == \E t \in Threads : Take(t) \/ GiveBack(t)

Spec == Init /\ [][Next]_owned
=============================================================================
