-------------------------- MODULE TokenCache_proofs --------------------------
(***************************************************************************)
(* Proofs about TokenCache, for every number of requests, every set of     *)
(* lease durations longer than the HTTP client's timeout and every margin  *)
(* that is at least that timeout.                                          *)
(*   TypeCorrect        the client's variables keep their types            *)
(*   LoginsExclude      one login at a time, under the mutex               *)
(*   BeliefIsBounded    the client overestimates a token by one timeout    *)
(*   TokensAreLive      no request is answered with a dead token           *)
(***************************************************************************)
EXTENDS TokenCache, TLAPS

\* The state keeps its type under every step.
LEMMA TypeStep == TypeOK /\ [Next]_vars => TypeOK'
<1> SUFFICES ASSUME TypeOK, [Next]_vars PROVE TypeOK'
  OBVIOUS
<1> USE LeaseAssumption DEF TypeOK
<1>1. ASSUME NEW c \in Client, Ask(c) PROVE TypeOK'
  BY <1>1 DEF Ask
<1>2. ASSUME NEW c \in Client, Hit(c) PROVE TypeOK'
  BY <1>2 DEF Hit
<1>3. ASSUME NEW c \in Client, Login(c) PROVE TypeOK'
  BY <1>3 DEF Login
<1>4. CASE Issue
  <2>1. PICK l \in Leases :
          issued' = [lease |-> IF l = 0 THEN DefaultLease ELSE l,
                     dies  |-> now + (IF l = 0 THEN Unlimited ELSE l)]
    BY <1>4 DEF Issue
  <2>2. issued' \in [lease : Nat, dies : Nat]
    BY <2>1
  <2>. QED
    BY <1>4, <2>2 DEF Issue
<1>5. ASSUME NEW c \in Client, Answer(c) PROVE TypeOK'
  BY <1>5 DEF Answer, Nothing
<1>6. ASSUME NEW c \in Client, Fail(c) PROVE TypeOK'
  BY <1>6 DEF Fail, Nothing
<1>7. CASE Tick
  BY <1>7 DEF Tick
<1>8. CASE UNCHANGED vars
  BY <1>8 DEF vars
<1>. QED
  BY <1>1, <1>2, <1>3, <1>4, <1>5, <1>6, <1>7, <1>8 DEF Next, Step

\* The client's and OpenBao's variables keep their types.
THEOREM TypeCorrect == Spec => []TypeOK
<1>1. Init => TypeOK
  BY LeaseAssumption DEF Init, TypeOK, Nothing
<1>. QED
  BY <1>1, TypeStep, PTL DEF Spec

-----------------------------------------------------------------------------
(* The mutex. *)

\* Every step keeps the holder of the mutex and the request that logs in
\* together.
LEMMA ExclusionStep == TypeOK /\ LoginsAreExclusive /\ [Next]_vars => LoginsAreExclusive'
<1> SUFFICES ASSUME TypeOK, LoginsAreExclusive, [Next]_vars PROVE LoginsAreExclusive'
  OBVIOUS
<1> USE ClientAssumption DEF LoginsAreExclusive, TypeOK
<1>1. ASSUME NEW c \in Client, Ask(c) \/ Hit(c) PROVE LoginsAreExclusive'
  BY <1>1 DEF Ask, Hit
<1>2. ASSUME NEW c \in Client, Login(c) PROVE LoginsAreExclusive'
  BY <1>2 DEF Login
<1>3. ASSUME NEW c \in Client, Answer(c) \/ Fail(c) PROVE LoginsAreExclusive'
  <2>1. request[c] = "login" /\ holder' = Unheld
    BY <1>3 DEF Answer, Fail
  <2>2. \E r \in {"served", "failed"} : request' = [request EXCEPT ![c] = r]
    BY <1>3 DEF Answer, Fail
  <2>. QED
    BY <2>1, <2>2
<1>4. CASE Issue \/ Tick
  BY <1>4 DEF Issue, Tick
<1>5. CASE UNCHANGED vars
  BY <1>5 DEF vars
<1>. QED
  BY <1>1, <1>2, <1>3, <1>4, <1>5 DEF Next, Step

\* The mutex is held by the one request whose login is under way.
THEOREM LoginsExclude == Spec => []LoginsAreExclusive
<1>1. Init => LoginsAreExclusive
  BY ClientAssumption DEF Init, LoginsAreExclusive
<1>. QED
  BY <1>1, ExclusionStep, TypeCorrect, PTL DEF Spec

-----------------------------------------------------------------------------
(* Time. *)

\* A login is no older than the timeout, what OpenBao issued for it lives at
\* least its lease from when the login was sent, and the client is wrong about
\* the cached token by a timeout at most.
TimeInv ==
  /\ holder # Unheld => now <= since + Timeout
  /\ issued # Nothing => /\ holder # Unheld
                         /\ issued.lease > Timeout
                         /\ issued.dies >= since + issued.lease
  /\ BelievesAlmostRight

\* Every step keeps the client's idea of time.
LEMMA TimeStep ==
  TypeOK /\ LoginsAreExclusive /\ TimeInv /\ [Next]_vars => TimeInv'
<1> SUFFICES ASSUME TypeOK, LoginsAreExclusive, TimeInv, [Next]_vars PROVE TimeInv'
  OBVIOUS
<1> USE LeaseAssumption, ClientAssumption DEF TimeInv, BelievesAlmostRight, TypeOK
<1>1. ASSUME NEW c \in Client, Ask(c) \/ Hit(c) PROVE TimeInv'
  BY <1>1 DEF Ask, Hit
<1>2. ASSUME NEW c \in Client, Login(c) PROVE TimeInv'
  BY <1>2 DEF Login
<1>3. CASE Issue
  <2>1. PICK l \in Leases :
          issued' = [lease |-> IF l = 0 THEN DefaultLease ELSE l,
                     dies  |-> now + (IF l = 0 THEN Unlimited ELSE l)]
    BY <1>3 DEF Issue
  <2>2. issued'.lease = (IF l = 0 THEN DefaultLease ELSE l)
        /\ issued'.dies = now + (IF l = 0 THEN Unlimited ELSE l)
    BY <2>1
  <2>3. issued'.lease > Timeout /\ issued'.dies >= since + issued'.lease
    BY <2>2
  <2>. QED
    BY <1>3, <2>3 DEF Issue
<1>4. ASSUME NEW c \in Client, Answer(c) PROVE TimeInv'
  <2>1. holder # Unheld /\ issued # Nothing
    BY <1>4 DEF Answer, LoginsAreExclusive
  <2>2. now + issued.lease <= issued.dies + Timeout
    BY <2>1
  <2>. QED
    BY <1>4, <2>2 DEF Answer
<1>5. ASSUME NEW c \in Client, Fail(c) PROVE TimeInv'
  BY <1>5 DEF Fail
<1>6. CASE Tick
  BY <1>6 DEF Tick
<1>7. CASE UNCHANGED vars
  BY <1>7 DEF vars
<1>. QED
  BY <1>1, <1>2, <1>3, <1>4, <1>5, <1>6, <1>7 DEF Next, Step

\* The invariant holds throughout.
LEMMA TimeInvariant == Spec => []TimeInv
<1>1. Init => TimeInv
  BY LeaseAssumption DEF Init, TimeInv, BelievesAlmostRight, Nothing
<1>. QED
  BY <1>1, TimeStep, TypeCorrect, LoginsExclude, PTL DEF Spec

\* The client overestimates what is left of a token by one login at most.
THEOREM BeliefIsBounded == Spec => []BelievesAlmostRight
<1>1. TimeInv => BelievesAlmostRight
  BY DEF TimeInv
<1>. QED
  BY <1>1, TimeInvariant, PTL

\* No request is answered with a token that is dead, because the margin covers
\* what the client is wrong by and no lease is shorter than a login.
THEOREM TokensAreLive == Spec => HandsOutLiveTokens
<1>1. TypeOK /\ LoginsAreExclusive /\ TimeInv /\ [Next]_vars =>
        [\A c \in Client : (request[c] # "served" /\ request'[c] = "served")
                             => now < token'[c]]_vars
  <2> SUFFICES ASSUME TypeOK, LoginsAreExclusive, TimeInv, Next,
                      NEW c \in Client, request[c] # "served", request'[c] = "served"
               PROVE  now < token'[c]
    OBVIOUS
  <2> USE LeaseAssumption, MarginAssumption, ClientAssumption
      DEF TimeInv, BelievesAlmostRight, TypeOK
  <2>1. CASE Hit(c)
    BY <2>1 DEF Hit, Fresh
  <2>2. CASE Answer(c)
    <3>1. holder # Unheld /\ issued # Nothing
      BY <2>2 DEF Answer, LoginsAreExclusive
    <3>2. now < issued.dies
      BY <3>1
    <3>. QED
      BY <2>2, <3>2 DEF Answer
  <2>3. Hit(c) \/ Answer(c)
    BY DEF Next, Step, Ask, Hit, Login, Issue, Answer, Fail, Tick
  <2>. QED
    BY <2>1, <2>2, <2>3
<1>. QED
  BY <1>1, TypeCorrect, LoginsExclude, TimeInvariant, PTL DEF Spec, HandsOutLiveTokens
=============================================================================
