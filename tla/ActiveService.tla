---------------------------- MODULE ActiveService ----------------------------
(***************************************************************************)
(* What the etcd ownership controllers promise of an active-passive        *)
(* service.  A host becomes its owner before it starts the service and     *)
(* stops it before it gives the ownership up.  Ownership is leased: the    *)
(* lease of a host can lapse at any moment, also while the service runs,   *)
(* and the next owner may come before the host has noticed.  Until it has  *)
(* noticed and stopped the service the host is late, and a late host never *)
(* becomes the owner.                                                      *)
(***************************************************************************)
CONSTANTS Host, Nobody

VARIABLES
  owner,    \* the host that may run the service, or Nobody
  running,  \* the hosts it runs on
  late      \* hosts whose lease lapsed and that have not got over it

Init == owner = Nobody /\ running = {} /\ late = {}

\* A host becomes the owner when nobody is and only late hosts still run.
Acquire(h) ==
  /\ owner = Nobody
  /\ h \notin late
  /\ running \subseteq late
  /\ owner' = h
  /\ UNCHANGED <<running, late>>

\* A start that the owner has begun goes on when its lease lapses.
Activate(h) ==
  /\ h \in late \cup {owner}
  /\ running' = running \cup {h}
  /\ UNCHANGED <<owner, late>>

\* A late host that knows of it is back in the race when it has stopped.
Passivate(h) ==
  /\ h \in running
  /\ running' = running \ {h}
  /\ late' \in {late, late \ {h}}
  /\ UNCHANGED owner

Release(h) ==
  /\ owner = h
  /\ h \notin running
  /\ owner' = Nobody
  /\ UNCHANGED <<running, late>>

Lapse(h) ==
  /\ h \notin late
  /\ late' = late \cup {h}
  /\ owner' = IF owner = h THEN Nobody ELSE owner
  /\ UNCHANGED running

\* A late host that does not run the service notices and is back in the race.
Rejoin(h) ==
  /\ h \in late \ running
  /\ late' = late \ {h}
  /\ UNCHANGED <<owner, running>>

Next ==
  \E h \in Host :
    \/ Acquire(h) \/ Activate(h) \/ Passivate(h)
    \/ Release(h) \/ Lapse(h)    \/ Rejoin(h)

Spec == Init /\ [][Next]_<<owner, running, late>>
=============================================================================
