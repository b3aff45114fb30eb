---------------------------- MODULE UserDirectory ----------------------------
(***************************************************************************)
(* What the WireGuard backend promises of its users: a directory of peers  *)
(* that a request changes at once or not at all.  A full request becomes   *)
(* the directory; a partial one replaces the peers of the users it names   *)
(* and leaves the others as they are.                                      *)
(***************************************************************************)
CONSTANT Updates    \* what requests ask for: the emails they name, the peers they want

VARIABLE users      \* the peers of the directory

Init == users = {}

\* No request may take a key that a user it does not name holds.
Free(u) == \A p \in users, q \in u.peers : p.email \notin u.emails => p.key # q.key

Replace(u) == users' = u.peers

Merge(u) ==
    /\ Free(u)
    /\ users' = {p \in users : p.email \notin u.emails} \cup u.peers

Next == \E u \in Updates : Replace(u) \/ Merge(u)

Spec == Init /\ [][Next]_users
=============================================================================
