---------------------------- MODULE AuditTrail ----------------------------
(***************************************************************************)
(* What the audit log promises its readers, apart from how rows get there. *)
(*                                                                         *)
(* A row carries its id, the time it was stamped with, and the hash of its *)
(* predecessor.  A row's own hash is a collision-free function of the row, *)
(* so the row's id stands for it; NoHash is the NULL of the first row.     *)
(*                                                                         *)
(* verify_chain sorts the rows by (created_at, id) and wants each row to   *)
(* name the row sorted just before it.  The promise: the trail only grows, *)
(* at its end, and it verifies after every step.                           *)
(***************************************************************************)
EXTENDS Naturals

VARIABLE trail     \* the set of committed audit rows

NoHash == 0

\* The order of "ORDER BY created_at, id".
Before(r, s) ==
    \/ r.created_at < s.created_at
    \/ /\ r.created_at = s.created_at
       /\ r.id < s.id

\* get_latest_entry on the rows S: r is the last of them in that order.
IsLatest(r, S) ==
    /\ r \in S
    /\ \A s \in S : s = r \/ Before(s, r)

\* r sits immediately before s in the sorted rows of S.
Precedes(r, s, S) ==
    /\ r \in S
    /\ Before(r, s)
    /\ \A t \in S : t = r \/ ~ (Before(r, t) /\ Before(t, s))

\* verify_chain(S) reports no row that "does not follow its predecessor".
Linked(S) ==
    \A s \in S :
        \/ /\ s.previous_hash = NoHash
           /\ \A r \in S : ~ Before(r, s)
        \/ \E r \in S : Precedes(r, s, S) /\ s.previous_hash = r.id

Init == trail = {}

\* A transaction adds its rows: after every old row, and still one chain.
Extend ==
    /\ trail \subseteq trail'
    /\ \A r \in trail, s \in trail' \ trail : Before(r, s)
    /\ Linked(trail')

Spec == Init /\ [][Extend]_trail

=============================================================================
