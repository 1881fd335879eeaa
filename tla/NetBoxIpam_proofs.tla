-------------------------- MODULE NetBoxIpam_proofs --------------------------
(***************************************************************************)
(* Proofs about the addresses of NetBoxIpam, for any interfaces, prefix    *)
(* and addresses.  What concerns managed interfaces assumes that nobody    *)
(* gave an address of the prefix to a static one (Separate), what concerns *)
(* conflicts that all interfaces are primary.                              *)
(***************************************************************************)
EXTENDS NetBoxIpam, FiniteSetTheorems, TLAPS

-----------------------------------------------------------------------------
(* Types. *)

\* a run that has an address
Using == {"create", "find", "assign", "primary", "done"}

TypeInv ==
  /\ TypeOK
  /\ \A n \in Nic : /\ pc[n] \in Using => addr[n] \in Addr
                    /\ pc[n] = "reserved" => seen[n] \in Addr \cup {None}

\* The objects the requests write are address objects.
LEMMA Objects ==
  /\ Free \in IpObject /\ ByOperator \in IpObject
  /\ \A n \in Nic : ReservedBy(n) \in IpObject /\ AssignedTo(n) \in IpObject
BY DEF IpObject, Free, ByOperator, ReservedBy, AssignedTo

\* The lookups of prepare return addresses.
LEMMA Lookups == \A n \in Nic : Assigned(n) \subseteq Addr /\ Reservations(n) \subseteq Addr
BY DEF Assigned, Reservations

\* Every step keeps the types and an address for those that go on with one.
LEMMA TypeStep == TypeInv /\ [Next]_vars => TypeInv'
<1> SUFFICES ASSUME TypeInv, [Next]_vars PROVE TypeInv'
  OBVIOUS
<1> USE DEF TypeInv, TypeOK, Point, Using, Goto, At, Use, See
<1>1. ASSUME NEW n \in Nic, Begin(n) PROVE TypeInv'
  <2>1. \E a \in Addr \cup {None}, point \in {"assigned", "create"} :
          /\ addr' = [addr EXCEPT ![n] = a] /\ pc' = [pc EXCEPT ![n] = point]
          /\ point = "create" => a \in Addr
    <3>1. CASE n \in Managed
      BY <1>1, <3>1 DEF Begin
    <3>2. CASE n \notin Managed
      BY <1>1, <3>2, StaticAssumption DEF Begin
    <3>. QED
      BY <3>1, <3>2
  <2>. QED
    BY <1>1, <2>1 DEF Begin
<1>2. ASSUME NEW n \in Nic, ReadAssigned(n) PROVE TypeInv'
  BY <1>2, Lookups DEF ReadAssigned
<1>3. ASSUME NEW n \in Nic, ReadReserved(n) PROVE TypeInv'
  BY <1>3, Lookups DEF ReadReserved
<1>4. ASSUME NEW n \in Nic, Reserve(n) PROVE TypeInv'
  BY <1>4, Objects, StaticAssumption DEF Reserve
<1>5. ASSUME NEW n \in Nic, Create(n) PROVE TypeInv'
  BY <1>5 DEF Create
<1>6. ASSUME NEW n \in Nic, FindIp(n) PROVE TypeInv'
  <2>1. addr[n] \in Addr /\ ip[addr[n]].owner \in Nic \cup {None}
    BY <1>6 DEF FindIp, IpObject
  <2>. QED
    BY <1>6, <2>1 DEF FindIp
<1>7. ASSUME NEW n \in Nic, AssignIp(n) PROVE TypeInv'
  BY <1>7, Objects DEF AssignIp
<1>8. ASSUME NEW n \in Nic, SetPrimary(n) PROVE TypeInv'
  BY <1>8 DEF SetPrimary
<1>9. ASSUME NEW n \in Nic, Die(n) PROVE TypeInv'
  BY <1>9, ReservedAssumption DEF Die
<1>10. ASSUME NEW n \in Nic, Destroy(n) PROVE TypeInv'
  BY <1>10 DEF Destroy
<1>11. CASE UNCHANGED vars
  BY <1>11 DEF vars
<1>. QED
  BY <1>1, <1>2, <1>3, <1>4, <1>5, <1>6, <1>7, <1>8, <1>9, <1>10, <1>11 DEF Next, Step

LEMMA Typed == Spec => []TypeInv
<1>1. Init => TypeInv
  BY Objects, ReservedAssumption DEF Init, TypeInv, TypeOK, Point, Using
<1>. QED
  BY <1>1, TypeStep, PTL DEF Spec

\* Every reachable state is well typed.
THEOREM TypeCorrect == Spec => []TypeOK
<1>1. TypeInv => TypeOK
  BY DEF TypeInv
<1>. QED
  BY <1>1, Typed, PTL

-----------------------------------------------------------------------------
(* Managed interfaces. *)

\* nobody gave an address of the prefix to a static interface
Separate == \A n \in Nic \ Managed : Static[n] \notin Prefix

\* The addresses that NetBox keeps for an interface.
Held(n) == {a \in Addr : ip[a].tag = n}

\* What a managed interface holds is at most one address, of the prefix; a run
\* that has one uses it, the machine has it, and only a run that found none
\* reserves.
HeldInv ==
  /\ \A n \in Nic \ Managed : /\ pc[n] \notin {"assigned", "reserved", "reserve"}
                              /\ pc[n] \in Using => addr[n] = Static[n]
                              /\ host[n] \in {None, Static[n]}
  /\ \A a \in Addr : /\ ip[a].owner # None => ip[a].tag = ip[a].owner
                     /\ ip[a].owner = None /\ ip[a].tag # None => ip[a].status = "reserved"
  /\ \A n \in Managed :
       /\ Held(n) \subseteq Prefix
       /\ \A a, b \in Held(n) : a = b
       /\ host[n] # None => host[n] \in Held(n)
       /\ pc[n] \in {"create", "find", "assign", "primary"} => addr[n] \in Held(n)
       /\ pc[n] = "reserved" =>
            IF seen[n] = None THEN Assigned(n) = {} ELSE seen[n] \in Held(n)
       /\ pc[n] = "reserve" => Held(n) = {}
       /\ pc[n] = "assign" => seen[n] \in {None, n}
       /\ pc[n] = "primary" => ip[addr[n]].owner = n

\* A step of a run that leaves NetBox's addresses alone disturbs no other run.
LEMMA ReadStep ==
  ASSUME TypeInv, HeldInv, NEW n \in Nic, NEW p \in Point, Goto(n, p), UNCHANGED ip,
         \A m \in Nic : m # n => addr'[m] = addr[m] /\ seen'[m] = seen[m] /\ host'[m] = host[m],
         n \notin Managed => /\ p \notin {"assigned", "reserved", "reserve"}
                             /\ p \in Using => addr'[n] = Static[n]
                             /\ host'[n] \in {None, Static[n]},
         n \in Managed =>
           /\ host'[n] # None => host'[n] \in Held(n)
           /\ p \in {"create", "find", "assign", "primary"} => addr'[n] \in Held(n)
           /\ p = "reserved" =>
                IF seen'[n] = None THEN Assigned(n) = {} ELSE seen'[n] \in Held(n)
           /\ p = "reserve" => Held(n) = {}
           /\ p = "assign" => seen'[n] \in {None, n}
           /\ p = "primary" => ip[addr'[n]].owner = n
  PROVE  HeldInv'
<1> USE DEF TypeInv, TypeOK, Goto
<1>1. \A m \in Nic : Held(m)' = Held(m) /\ Assigned(m)' = Assigned(m)
  BY DEF Held, Assigned
<1>2. pc'[n] = p /\ \A m \in Nic : m # n => pc'[m] = pc[m]
  OBVIOUS
<1>3. ASSUME NEW m \in Nic \ Managed
      PROVE  /\ pc'[m] \notin {"assigned", "reserved", "reserve"}
             /\ pc'[m] \in Using => addr'[m] = Static[m]
             /\ host'[m] \in {None, Static[m]}
  BY <1>2 DEF HeldInv
<1>4. ASSUME NEW a \in Addr
      PROVE  /\ ip'[a].owner # None => ip'[a].tag = ip'[a].owner
             /\ ip'[a].owner = None /\ ip'[a].tag # None => ip'[a].status = "reserved"
  BY DEF HeldInv
<1>5. ASSUME NEW m \in Managed
      PROVE  /\ Held(m)' \subseteq Prefix
             /\ \A a, b \in Held(m)' : a = b
             /\ host'[m] # None => host'[m] \in Held(m)'
             /\ pc'[m] \in {"create", "find", "assign", "primary"} => addr'[m] \in Held(m)'
             /\ pc'[m] = "reserved" =>
                  IF seen'[m] = None THEN Assigned(m)' = {} ELSE seen'[m] \in Held(m)'
             /\ pc'[m] = "reserve" => Held(m)' = {}
             /\ pc'[m] = "assign" => seen'[m] \in {None, m}
             /\ pc'[m] = "primary" => ip'[addr'[m]].owner = m
  <2>1. m \in Nic
    BY ManagedAssumption
  <2>2. CASE m = n
    BY <1>1, <1>2, <2>1, <2>2 DEF HeldInv
  <2>3. CASE m # n
    BY <1>1, <1>2, <2>1, <2>3 DEF HeldInv
  <2>. QED
    BY <2>2, <2>3
<1>. QED
  BY <1>3, <1>4, <1>5 DEF HeldInv

\* A write to one address object keeps what everybody else holds, if nobody
\* else holds that object.
LEMMA WriteStep ==
  ASSUME TypeInv, HeldInv, NEW n \in Nic, NEW p \in Point, Goto(n, p),
         NEW a \in Addr, NEW o \in {ReservedBy(n), AssignedTo(n)},
         ip' = [ip EXCEPT ![a] = o], UNCHANGED <<seen, host>>,
         \A m \in Nic : m # n => addr'[m] = addr[m],
         \A m \in Managed : m # n => ip[a].tag # m,
         n \notin Managed => /\ p \notin {"assigned", "reserved", "reserve"}
                             /\ p \in Using => addr'[n] = Static[n],
         n \in Managed => /\ a \in Prefix /\ Held(n) \subseteq {a} /\ addr'[n] = a
                          /\ p \in {"create", "primary", "done"}
                          /\ p = "primary" => o = AssignedTo(n)
  PROVE  HeldInv'
<1> USE DEF TypeInv, TypeOK, Goto
<1>1. pc'[n] = p /\ \A m \in Nic : m # n => pc'[m] = pc[m]
  OBVIOUS
<1>2. /\ o.tag = n /\ o.owner \in {None, n} /\ (o = AssignedTo(n) => o.owner = n)
      /\ o.owner = n \/ o.status = "reserved"
  BY DEF ReservedBy, AssignedTo
<1>3. ip'[a] = o /\ \A b \in Addr : b # a => ip'[b] = ip[b]
  OBVIOUS
<1>4. ASSUME NEW m \in Nic \ Managed
      PROVE  /\ pc'[m] \notin {"assigned", "reserved", "reserve"}
             /\ pc'[m] \in Using => addr'[m] = Static[m]
             /\ host'[m] \in {None, Static[m]}
  BY <1>1 DEF HeldInv
<1>5. ASSUME NEW b \in Addr
      PROVE  /\ ip'[b].owner # None => ip'[b].tag = ip'[b].owner
             /\ ip'[b].owner = None /\ ip'[b].tag # None => ip'[b].status = "reserved"
  BY <1>2, <1>3, NoneAssumption DEF HeldInv
<1>6. ASSUME NEW m \in Managed
      PROVE  /\ Held(m)' \subseteq Prefix
             /\ \A b, c \in Held(m)' : b = c
             /\ host'[m] # None => host'[m] \in Held(m)'
             /\ pc'[m] \in {"create", "find", "assign", "primary"} => addr'[m] \in Held(m)'
             /\ pc'[m] = "reserved" =>
                  IF seen'[m] = None THEN Assigned(m)' = {} ELSE seen'[m] \in Held(m)'
             /\ pc'[m] = "reserve" => Held(m)' = {}
             /\ pc'[m] = "assign" => seen'[m] \in {None, m}
             /\ pc'[m] = "primary" => ip'[addr'[m]].owner = m
  <2>1. m \in Nic /\ m # None
    BY ManagedAssumption, NoneAssumption
  <2>2. CASE m = n
    <3>1. Held(n)' = {a}
      BY <1>2, <1>3, <2>1, <2>2 DEF Held
    <3>2. host[n] # None => host[n] = a
      BY <2>2 DEF HeldInv
    <3>. QED
      BY <1>1, <1>2, <1>3, <2>2, <3>1, <3>2
  <2>3. CASE m # n
    <3>1. a \notin Held(m)
      BY <2>3 DEF Held
    <3>2. Held(m)' = Held(m)
      BY <1>2, <1>3, <2>3, <3>1 DEF Held
    <3>3. Assigned(m)' = Assigned(m)
      BY <1>2, <1>3, <2>1, <2>3 DEF Assigned, HeldInv
    <3>4. pc[m] = "primary" => addr[m] # a
      BY <3>1 DEF HeldInv
    <3>5. pc[m] = "primary" => ip'[addr[m]].owner = m
      BY <1>3, <2>1, <3>4 DEF HeldInv, Using
    <3>. QED
      BY <1>1, <2>1, <2>3, <3>2, <3>3, <3>5 DEF HeldInv
  <2>. QED
    BY <2>2, <2>3
<1>. QED
  BY <1>4, <1>5, <1>6 DEF HeldInv

\* Every step keeps to the addresses NetBox holds for a managed interface.
LEMMA HeldStep == ASSUME Separate PROVE TypeInv /\ HeldInv /\ [Next]_vars => HeldInv'
<1> SUFFICES ASSUME TypeInv, HeldInv, [Next]_vars PROVE HeldInv'
  OBVIOUS
<1> USE DEF At, Use, See
<1>1. ASSUME NEW n \in Nic, Begin(n) PROVE HeldInv'
  <2>1. CASE n \in Managed
    <3>1. Goto(n, "assigned") /\ addr'[n] = None /\ seen'[n] = None
      BY <1>1, <2>1 DEF Begin, TypeInv, TypeOK
    <3>. QED
      BY <1>1, <2>1, <3>1, ReadStep DEF Begin, HeldInv, Using, Point, TypeInv, TypeOK
  <2>2. CASE n \notin Managed
    <3>1. Goto(n, "create") /\ addr'[n] = Static[n]
      BY <1>1, <2>2 DEF Begin, TypeInv, TypeOK
    <3>. QED
      BY <1>1, <2>2, <3>1, ReadStep DEF Begin, HeldInv, Using, Point, TypeInv, TypeOK
  <2>. QED
    BY <2>1, <2>2
<1>2. ASSUME NEW n \in Nic, ReadAssigned(n) PROVE HeldInv'
  <2>1. n \in Managed
    BY <1>2 DEF ReadAssigned, HeldInv
  <2>2. Assigned(n) \subseteq Held(n)
    BY NoneAssumption DEF Assigned, Held, HeldInv
  <2>3. None \notin Assigned(n)
    BY NoneAssumption DEF Assigned
  <2>4. CASE Goto(n, "failed") /\ UNCHANGED seen
    BY <1>2, <2>1, <2>4, ReadStep DEF ReadAssigned, HeldInv, Point, TypeInv, TypeOK
  <2>5. CASE Goto(n, "reserved") /\ Assigned(n) = {} /\ See(n, None)
    BY <1>2, <2>1, <2>5, ReadStep DEF ReadAssigned, HeldInv, Point, TypeInv, TypeOK
  <2>6. ASSUME NEW a \in Assigned(n), Goto(n, "reserved"), See(n, a) PROVE HeldInv'
    BY <1>2, <2>1, <2>2, <2>3, <2>6, ReadStep DEF ReadAssigned, HeldInv, Point, TypeInv, TypeOK
  <2>. QED
    BY <1>2, <2>4, <2>5, <2>6 DEF ReadAssigned
<1>3. ASSUME NEW n \in Nic, ReadReserved(n) PROVE HeldInv'
  <2>1. n \in Managed
    BY <1>3 DEF ReadReserved, HeldInv
  <2>2. Reservations(n) \subseteq Held(n)
    BY DEF Reservations, Held
  <2>3. CASE Goto(n, "failed") /\ UNCHANGED addr
    BY <1>3, <2>1, <2>3, ReadStep DEF ReadReserved, HeldInv, Point, TypeInv, TypeOK
  <2>4. CASE seen[n] # None /\ Goto(n, "create") /\ Use(n, seen[n])
    BY <1>3, <2>1, <2>4, ReadStep DEF ReadReserved, HeldInv, Point, TypeInv, TypeOK
  <2>5. ASSUME NEW a \in Reservations(n), Goto(n, "create"), Use(n, a) PROVE HeldInv'
    BY <1>3, <2>1, <2>2, <2>5, ReadStep DEF ReadReserved, HeldInv, Point, TypeInv, TypeOK
  <2>6. CASE seen[n] = None /\ Reservations(n) = {} /\ Goto(n, "reserve") /\ UNCHANGED addr
    <3>1. Assigned(n) = {}
      BY <1>3, <2>1, <2>6 DEF ReadReserved, HeldInv
    <3>2. Held(n) = {}
      <4>1. n # None
        BY NoneAssumption
      <4>2. ASSUME NEW a \in Addr, ip[a].tag = n PROVE FALSE
        <5>1. ip[a].owner \in {None, n} /\ (ip[a].owner = None => ip[a].status = "reserved")
          BY <4>1, <4>2 DEF HeldInv
        <5>. QED
          BY <2>6, <3>1, <4>2, <5>1 DEF Assigned, Reservations
      <4>. QED
        BY <4>2 DEF Held
    <3>. QED
      BY <1>3, <2>1, <2>6, <3>2, ReadStep DEF ReadReserved, HeldInv, Point, TypeInv, TypeOK
  <2>. QED
    BY <1>3, <2>3, <2>4, <2>5, <2>6 DEF ReadReserved
<1>4. ASSUME NEW n \in Nic, Reserve(n) PROVE HeldInv'
  <2>1. n \in Managed /\ Held(n) = {}
    BY <1>4 DEF Reserve, HeldInv
  <2>2. ASSUME NEW a \in Prefix, ip[a] = Free, ip' = [ip EXCEPT ![a] = ReservedBy(n)],
               Use(n, a), Goto(n, "create")
        PROVE  HeldInv'
    <3>1. a \in Addr /\ ip[a].tag = None /\ None \notin Managed
      BY <2>2, StaticAssumption, ManagedAssumption, NoneAssumption DEF Free
    <3>2. addr'[n] = a /\ \A m \in Nic : m # n => addr'[m] = addr[m]
      BY <2>2, <3>1 DEF TypeInv, TypeOK
    <3>3. UNCHANGED <<seen, host>>
      BY <1>4 DEF Reserve
    <3>4. Held(n) \subseteq {a} /\ \A m \in Managed : ip[a].tag # m
      BY <2>1, <3>1
    <3> DEFINE p == "create"
               o == ReservedBy(n)
    <3>5. /\ p \in Point /\ p \in {"create", "primary", "done"} /\ p # "primary"
          /\ o \in {ReservedBy(n), AssignedTo(n)}
          /\ Goto(n, p) /\ ip' = [ip EXCEPT ![a] = o]
      BY <2>2 DEF Point
    <3>6. a \in Prefix /\ addr'[n] = a /\ (p = "primary" => o = AssignedTo(n))
      BY <2>2, <3>2
    <3>. HIDE DEF p, o
    <3>7. \A m \in Managed : m # n => ip[a].tag # m
      BY <3>4
    <3>8. n \notin Managed => /\ p \notin {"assigned", "reserved", "reserve"}
                              /\ p \in Using => addr'[n] = Static[n]
      BY <2>1
    <3>. QED
      BY <2>1, <3>1, <3>2, <3>3, <3>4, <3>5, <3>6, <3>7, <3>8, WriteStep
  <2>3. CASE Goto(n, "failed") /\ UNCHANGED <<ip, addr>>
    BY <1>4, <2>1, <2>3, ReadStep DEF Reserve, HeldInv, Point, TypeInv, TypeOK
  <2>. QED
    BY <1>4, <2>2, <2>3 DEF Reserve
<1>5. ASSUME NEW n \in Nic, Create(n) PROVE HeldInv'
  <2>1. Goto(n, "find") /\ host'[n] = addr[n]
    BY <1>5 DEF Create, TypeInv, TypeOK
  <2>. QED
    BY <1>5, <2>1, ReadStep DEF Create, HeldInv, Point, Using, TypeInv, TypeOK
<1>6. ASSUME NEW n \in Nic, FindIp(n) PROVE HeldInv'
  <2>1. addr[n] \in Addr
    BY <1>6 DEF FindIp, TypeInv, Using
  <2>2. n \in Managed => seen'[n] \in {None, n}
    <3>1. SUFFICES ASSUME n \in Managed PROVE seen'[n] \in {None, n}
      OBVIOUS
    <3>2. ip[addr[n]].tag = n /\ n # None
      BY <1>6, <3>1, NoneAssumption DEF FindIp, HeldInv, Held
    <3>3. ip[addr[n]] # Free /\ ip[addr[n]].owner \in {None, n}
      BY <2>1, <3>2 DEF HeldInv, Free
    <3>. QED
      BY <1>6, <3>3 DEF FindIp, TypeInv, TypeOK
  <2>. QED
    BY <1>6, <2>2, ReadStep DEF FindIp, HeldInv, Point, Using, TypeInv, TypeOK
<1>7. ASSUME NEW n \in Nic, AssignIp(n) PROVE HeldInv'
  <2>1. addr[n] \in Addr
    BY <1>7 DEF AssignIp, TypeInv, Using
  <2>2. ASSUME NEW p \in {"primary", "done"}, Goto(n, p),
               ip' = [ip EXCEPT ![addr[n]] = AssignedTo(n)]
        PROVE  HeldInv'
    <3>0. UNCHANGED <<addr, seen, host>> /\ p \in Point
      BY <1>7, <2>2 DEF AssignIp, Point
    <3>1. CASE n \in Managed
      <4>1. addr[n] \in Held(n) /\ addr[n] \in Prefix /\ Held(n) \subseteq {addr[n]}
        BY <1>7, <3>1 DEF AssignIp, HeldInv
      <4>2. \A m \in Managed : m # n => ip[addr[n]].tag # m
        BY <4>1 DEF Held
      <4>3. addr'[n] = addr[n] /\ \A m \in Nic : addr'[m] = addr[m]
        BY <3>0
      <4>. QED
        BY <2>1, <2>2, <3>0, <3>1, <4>1, <4>2, <4>3, WriteStep
    <3>2. CASE n \notin Managed
      <4>1. addr[n] = Static[n] /\ addr[n] \notin Prefix
        BY <1>7, <3>2 DEF AssignIp, HeldInv, Using, Separate
      <4>2. \A m \in Managed : ip[addr[n]].tag # m
        BY <2>1, <4>1 DEF HeldInv, Held
      <4>3. addr'[n] = Static[n] /\ \A m \in Nic : addr'[m] = addr[m]
        BY <3>0, <4>1
      <4>. QED
        BY <2>1, <2>2, <3>0, <3>2, <4>2, <4>3, WriteStep
    <3>. QED
      BY <3>1, <3>2
  <2>3. CASE Goto(n, "failed") /\ UNCHANGED ip
    BY <1>7, <2>3, ReadStep DEF AssignIp, HeldInv, Point, Using, TypeInv, TypeOK
  <2>. QED
    BY <1>7, <2>2, <2>3 DEF AssignIp
<1>8. ASSUME NEW n \in Nic, SetPrimary(n) PROVE HeldInv'
  <2>1. Goto(n, "done") \/ Goto(n, "failed")
    BY <1>8 DEF SetPrimary
  <2>. QED
    BY <1>8, <2>1, ReadStep DEF SetPrimary, HeldInv, Point, Using, TypeInv, TypeOK
<1>9. ASSUME NEW n \in Nic, Die(n) PROVE HeldInv'
  BY <1>9, ReadStep DEF Die, HeldInv, Point, Using, TypeInv, TypeOK
<1>10. ASSUME NEW n \in Nic, Destroy(n) PROVE HeldInv'
  <2>1. Goto(n, "idle") /\ host'[n] = None
    BY <1>10 DEF Destroy, TypeInv, TypeOK
  <2>. QED
    BY <1>10, <2>1, ReadStep DEF Destroy, HeldInv, Point, Using, TypeInv, TypeOK
<1>11. CASE UNCHANGED vars
  BY <1>11 DEF vars, HeldInv, Held, Assigned
<1>. QED
  BY <1>1, <1>2, <1>3, <1>4, <1>5, <1>6, <1>7, <1>8, <1>9, <1>10, <1>11 DEF Next, Step

LEMMA HeldAlways == ASSUME Separate PROVE Spec => [](TypeInv /\ HeldInv)
<1>1. Init => HeldInv
  <2> SUFFICES ASSUME Init PROVE HeldInv
    OBVIOUS
  <2>1. \A a \in Addr : ip[a].owner = None /\ ip[a].tag = None
    BY DEF Init, Free, ByOperator
  <2>2. \A n \in Managed : Held(n) = {} /\ n \in Nic
    BY <2>1, ManagedAssumption, NoneAssumption DEF Held
  <2>. QED
    BY <2>1, <2>2 DEF Init, HeldInv, Using
<1>2. QED
  BY <1>1, HeldStep, Typed, PTL DEF Spec

-----------------------------------------------------------------------------
(* The theorems about managed interfaces. *)

\* No machine with a managed address shares it with another.
THEOREM DistinctHosts == ASSUME Separate PROVE Spec => []HostsDistinct
<1>1. TypeInv /\ HeldInv => HostsDistinct
  <2> SUFFICES ASSUME TypeInv, HeldInv, NEW n \in Managed, NEW m \in Nic,
                      host[m] = host[n], m # n, host[m] # None
               PROVE  FALSE
    BY DEF HostsDistinct
  <2>1. host[n] \in Held(n)
    BY DEF HeldInv
  <2>2. CASE m \in Managed
    BY <2>1, <2>2 DEF HeldInv, Held
  <2>3. CASE m \notin Managed
    BY <2>1, <2>3 DEF HeldInv, Separate
  <2>. QED
    BY <2>2, <2>3
<1>. QED
  BY <1>1, HeldAlways, PTL

\* A managed interface never collects a second address, however often its runs
\* die and are repeated.
THEOREM SingleAddress == ASSUME Separate PROVE Spec => []OneAddressEach
<1>1. TypeInv /\ HeldInv => OneAddressEach
  <2> SUFFICES ASSUME TypeInv, HeldInv, NEW n \in Managed
               PROVE  Cardinality(Assigned(n) \cup Reservations(n)) <= 1
    BY DEF OneAddressEach
  <2> DEFINE S == Assigned(n) \cup Reservations(n)
  <2>1. S \subseteq Held(n)
    BY ManagedAssumption, NoneAssumption DEF Assigned, Reservations, Held, HeldInv
  <2>2. S = {} \/ \E a \in S : S = {a}
    BY <2>1 DEF HeldInv
  <2>3. S = {} => Cardinality(S) = 0
    BY FS_EmptySet
  <2>4. ASSUME NEW a \in S, S = {a} PROVE Cardinality(S) = 1
    BY <2>4, FS_Singleton
  <2>. QED
    BY <2>2, <2>3, <2>4
<1>. QED
  BY <1>1, HeldAlways, PTL

\* A repeated rollout leaves every machine at its address.
THEOREM StableAddresses == ASSUME Separate PROVE Spec => AddressStable
<1>1. ASSUME TypeInv, HeldInv, [Next]_vars, NEW n \in Nic, host[n] # None, host'[n] # None
      PROVE  host'[n] = host[n]
  <2>1. CASE Create(n)
    <3>1. host'[n] = addr[n] /\ pc[n] = "create"
      BY <1>1, <2>1 DEF Create, At, TypeInv, TypeOK
    <3>2. CASE n \in Managed
      <4>1. addr[n] \in Held(n) /\ host[n] \in Held(n)
        BY <1>1, <3>1, <3>2 DEF HeldInv
      <4>. QED
        BY <1>1, <3>1, <3>2, <4>1 DEF HeldInv
    <3>3. CASE n \notin Managed
      <4>1. addr[n] = Static[n] /\ host[n] = Static[n]
        BY <1>1, <3>1, <3>3 DEF HeldInv, Using
      <4>. QED
        BY <3>1, <4>1
    <3>. QED
      BY <3>2, <3>3
  <2>2. CASE ~Create(n)
    <3>1. host' = host \/ (\E m \in Nic : m # n /\ Create(m)) \/ \E m \in Nic : Destroy(m)
      BY <1>1, <2>2 DEF Next, Step, Begin, ReadAssigned, ReadReserved, Reserve, FindIp, AssignIp,
                        SetPrimary, Die, vars
    <3>. QED
      BY <1>1, <3>1 DEF Create, Destroy, TypeInv, TypeOK
  <2>. QED
    BY <2>1, <2>2
<1>2. TypeInv /\ HeldInv /\ [Next]_vars =>
        [\A n \in Nic : host[n] # None /\ host'[n] # None => host'[n] = host[n]]_vars
  BY <1>1
<1>. QED
  BY <1>2, HeldAlways, PTL DEF Spec, AddressStable

\* A managed rollout that got an address is not refused by what is in NetBox.
THEOREM RolloutIsNotRefused == ASSUME Separate PROVE Spec => RolloutSucceeds
<1>1. ASSUME TypeInv, HeldInv, [Next]_vars, NEW n \in Managed,
             pc[n] \in {"create", "find", "assign", "primary"}
      PROVE  pc'[n] # "failed"
  <2>1. n \in Nic /\ n # None /\ n # "absent"
    BY ManagedAssumption, NoneAssumption
  <2>2. CASE AssignIp(n)
    <3>1. addr[n] \in Addr /\ seen[n] \in {None, n} /\ seen[n] # "absent"
      BY <1>1, <2>1, <2>2, NoneAssumption DEF AssignIp, At, HeldInv, TypeInv, Using
    <3>2. ip[addr[n]].tag = n
      BY <1>1, <2>2 DEF AssignIp, At, HeldInv, Held
    <3>3. \A m \in Nic \ {n} : ip[addr[n]].owner # m
      BY <1>1, <3>1, <3>2, NoneAssumption DEF HeldInv
    <3>4. Accepts(n) /\ seen[n] \notin Nic \ {n}
      BY <3>1, <3>3, NoneAssumption DEF Accepts
    <3>. QED
      BY <1>1, <2>1, <2>2, <3>4 DEF AssignIp, Goto, TypeInv, TypeOK
  <2>3. CASE SetPrimary(n)
    BY <1>1, <2>1, <2>3 DEF SetPrimary, At, Goto, HeldInv, TypeInv, TypeOK
  <2>4. CASE Create(n) \/ FindIp(n) \/ Die(n)
    BY <2>1, <2>4, <1>1 DEF Create, FindIp, Die, Goto, TypeInv, TypeOK
  <2>5. CASE Begin(n) \/ ReadAssigned(n) \/ ReadReserved(n) \/ Reserve(n) \/ Destroy(n)
    BY <1>1, <2>5 DEF Begin, ReadAssigned, ReadReserved, Reserve, Destroy, At
  <2>6. ASSUME NEW m \in Nic, m # n, Begin(m) \/ Step(m) \/ Die(m) \/ Destroy(m)
        PROVE  pc'[n] = pc[n]
    BY <2>1, <2>6, <1>1 DEF Step, Begin, ReadAssigned, ReadReserved, Reserve, Create, FindIp,
                            AssignIp, SetPrimary, Die, Destroy, Goto, TypeInv, TypeOK
  <2>7. CASE UNCHANGED vars
    BY <1>1, <2>7 DEF vars
  <2>. QED
    BY <1>1, <2>1, <2>2, <2>3, <2>4, <2>5, <2>6, <2>7 DEF Next, Step
<1>2. TypeInv /\ HeldInv /\ [Next]_vars =>
        [\A n \in Managed : pc[n] \in {"create", "find", "assign", "primary"}
                              => pc'[n] # "failed"]_vars
  BY <1>1
<1>. QED
  BY <1>2, HeldAlways, PTL DEF Spec, RolloutSucceeds

-----------------------------------------------------------------------------
(* Conflicts. *)

\* Whoever is done with a primary interface owns its address under a primary IP,
\* which NetBox gives to nobody else.
DoneInv ==
  \A n \in Nic : pc[n] = "done" => primary[n] = addr[n] /\ ip[addr[n]].owner = n

\* Every step keeps the owner of an address that is somebody's primary one.
LEMMA DoneStep ==
  ASSUME Primary = Nic PROVE TypeInv /\ DoneInv /\ [Next]_vars => DoneInv'
<1> SUFFICES ASSUME Primary = Nic, TypeInv, DoneInv, [Next]_vars,
                    NEW n \in Nic, pc'[n] = "done"
             PROVE  primary'[n] = addr'[n] /\ ip'[addr'[n]].owner = n
  BY DEF DoneInv
<1> USE DEF TypeInv, TypeOK, Goto, At, Use, See
<1>1. CASE SetPrimary(n)
  <2>1. pc' # [pc EXCEPT ![n] = "failed"]
    OBVIOUS
  <2>2. ip[addr[n]].owner = n /\ primary' = [primary EXCEPT ![n] = addr[n]]
    BY <1>1, <2>1 DEF SetPrimary
  <2>. QED
    BY <1>1, <2>2 DEF SetPrimary
<1>2. CASE ~SetPrimary(n)
  <2>1. pc[n] = "done" /\ primary'[n] = primary[n] /\ addr'[n] = addr[n]
    <3>1. ASSUME NEW m \in Nic, Begin(m) \/ Step(m) \/ Die(m) \/ Destroy(m), ~(m = n /\ SetPrimary(m))
          PROVE  pc[n] = "done" /\ primary'[n] = primary[n] /\ addr'[n] = addr[n]
      BY <3>1 DEF Step, Begin, ReadAssigned, ReadReserved, Reserve, Create, FindIp, AssignIp,
                  SetPrimary, Die, Destroy
    <3>. QED
      BY <1>2, <3>1 DEF Next, vars
  <2>2. addr[n] \in Addr /\ primary[n] = addr[n] /\ ip[addr[n]].owner = n /\ n # None
    BY <2>1, NoneAssumption DEF DoneInv, Using
  <2>3. ASSUME NEW m \in Nic, AssignIp(m) PROVE ip'[addr[n]].owner = n
    <3>1. CASE addr[m] = addr[n]
      <4>1. m # n
        BY <2>1, <2>3 DEF AssignIp
      <4>2. ~Accepts(m)
        BY <2>2, <3>1, <4>1 DEF Accepts, Free
      <4>. QED
        BY <2>2, <2>3, <4>2 DEF AssignIp
    <3>2. CASE addr[m] # addr[n]
      BY <2>2, <2>3, <3>2 DEF AssignIp
    <3>. QED
      BY <3>1, <3>2
  <2>4. ASSUME NEW m \in Nic, Reserve(m) PROVE ip'[addr[n]].owner = n
    BY <2>2, <2>4 DEF Reserve, Free
  <2>5. ASSUME UNCHANGED ip PROVE ip'[addr[n]].owner = n
    BY <2>2, <2>5
  <2>6. UNCHANGED ip \/ \E m \in Nic : AssignIp(m) \/ Reserve(m)
    BY DEF Next, Step, Begin, ReadAssigned, ReadReserved, Create, FindIp, SetPrimary, Die,
           Destroy, vars
  <2>. QED
    BY <2>1, <2>2, <2>3, <2>4, <2>5, <2>6
<1>. QED
  BY <1>1, <1>2

\* Two rollouts of primary interfaces never both succeed with one address.
THEOREM ConflictsDetected == ASSUME Primary = Nic PROVE Spec => []ConflictDetected
<1>1. Init => DoneInv
  BY DEF Init, DoneInv
<1>2. DoneInv => ConflictDetected
  BY DEF DoneInv, ConflictDetected, At
<1>. QED
  BY <1>1, <1>2, DoneStep, Typed, PTL DEF Spec
=============================================================================
