----------------------------- MODULE TokenCache -----------------------------
(***************************************************************************)
(* The OpenBao client of the Woodpecker configuration extension: one token *)
(* for all pipelines, behind a mutex, renewed when less than Margin of its *)
(* lease is left (openBaoClient.token in main.go).                         *)
(*                                                                         *)
(* A login is a request and a response with the clock running in between:  *)
(* OpenBao starts the lease when it issues the token, the client when the  *)
(* response arrives.                                                       *)
(***************************************************************************)
EXTENDS Naturals

CONSTANTS
  Client,       \* the requests for a token
  Leases,       \* the lease durations OpenBao answers with; 0 for none
  DefaultLease, \* what the client assumes when there is none
  Unlimited,    \* how long a token without a lease lives
  Margin,       \* a token is used while more than this is left of its lease
  Timeout,      \* of the HTTP client
  MaxTime,      \* the clock's bound
  Unheld        \* no request

ASSUME ClientAssumption == Unheld \notin Client
ASSUME LeaseAssumption ==
  /\ Leases \subseteq Nat /\ DefaultLease \in Nat /\ Unlimited \in Nat
  /\ Margin \in Nat /\ Timeout \in Nat /\ MaxTime \in Nat
  /\ \A l \in Leases : l = 0 \/ l > Timeout
  /\ DefaultLease > Timeout /\ Unlimited >= DefaultLease

\* 20 s and one minute in the code
ASSUME MarginAssumption == Timeout <= Margin

VARIABLES
  now,      \* the clock
  cached,   \* cachedToken and expiresAt: when it dies, when the client thinks so
  holder,   \* the request that holds the mutex, or Unheld
  since,    \* when its login was sent
  issued,   \* OpenBao: what it answered, Nothing before
  request,  \* the state of every request
  token     \* when the token a request was answered with dies

vars == <<now, cached, holder, since, issued, request, token>>

Nothing == [lease |-> 0, dies |-> 0]

TypeOK ==
  /\ now \in Nat
  /\ cached \in [dies : Nat, until : Nat]
  /\ holder \in Client \cup {Unheld}
  /\ since \in 0..now
  /\ issued \in [lease : Nat, dies : Nat]
  /\ request \in [Client -> {"none", "waiting", "login", "served", "failed"}]
  /\ token \in [Client -> Nat]

Init ==
  /\ now = 0
  /\ cached = [dies |-> 0, until |-> 0]
  /\ holder = Unheld /\ since = 0 /\ issued = Nothing
  /\ request = [c \in Client |-> "none"]
  /\ token = [c \in Client |-> 0]

-----------------------------------------------------------------------------
(* token *)

Ask(c) ==
  /\ request[c] = "none"
  /\ request' = [request EXCEPT ![c] = "waiting"]
  /\ UNCHANGED <<now, cached, holder, since, issued, token>>

\* mutant: the cached token is used until its lease ends
FreshToTheEnd == now < cached.until

Fresh == now + Margin < cached.until

\* the mutex is free and the cached token has more than Margin left
Hit(c) ==
  /\ request[c] = "waiting" /\ holder = Unheld /\ Fresh
  /\ request' = [request EXCEPT ![c] = "served"]
  /\ token' = [token EXCEPT ![c] = cached.dies]
  /\ UNCHANGED <<now, cached, holder, since, issued>>

\* mutant: the timeout starts anew when it is due
LoginTwiceAsLong(c) ==
  /\ request[c] = "waiting" /\ holder = Unheld /\ ~Fresh
  /\ holder' = c /\ since' = now + Timeout
  /\ request' = [request EXCEPT ![c] = "login"]
  /\ UNCHANGED <<now, cached, issued, token>>

Login(c) ==
  /\ request[c] = "waiting" /\ holder = Unheld /\ ~Fresh
  /\ holder' = c /\ since' = now
  /\ request' = [request EXCEPT ![c] = "login"]
  /\ UNCHANGED <<now, cached, issued, token>>

\* OpenBao issues the token
Issue ==
  /\ holder # Unheld /\ issued = Nothing
  /\ \E l \in Leases :
       issued' = [lease |-> IF l = 0 THEN DefaultLease ELSE l,
                  dies  |-> now + (IF l = 0 THEN Unlimited ELSE l)]
  /\ UNCHANGED <<now, cached, holder, since, request, token>>

Answer(c) ==
  /\ request[c] = "login" /\ issued # Nothing
  /\ cached' = [dies |-> issued.dies, until |-> now + issued.lease]
  /\ request' = [request EXCEPT ![c] = "served"]
  /\ token' = [token EXCEPT ![c] = issued.dies]
  /\ holder' = Unheld /\ issued' = Nothing
  /\ UNCHANGED <<now, since>>

\* mutant: a failed login returns without unlocking
FailLocked(c) ==
  /\ request[c] = "login"
  /\ request' = [request EXCEPT ![c] = "failed"]
  /\ issued' = Nothing
  /\ UNCHANGED <<now, cached, holder, since, token>>

\* OpenBao refuses, the connection breaks or the client's timeout ends it
Fail(c) ==
  /\ request[c] = "login"
  /\ request' = [request EXCEPT ![c] = "failed"]
  /\ holder' = Unheld /\ issued' = Nothing
  /\ UNCHANGED <<now, cached, since, token>>

\* time passes, but no login outlasts the client's timeout
Tick ==
  /\ now < MaxTime
  /\ holder # Unheld => now < since + Timeout
  /\ now' = now + 1
  /\ UNCHANGED <<cached, holder, since, issued, request, token>>

Step(c) == Hit(c) \/ Login(c) \/ Answer(c) \/ Fail(c)

Next == Issue \/ Tick \/ \E c \in Client : Ask(c) \/ Step(c)

Spec == Init /\ [][Next]_vars

\* handlers are scheduled; the mutex is handed on
Fairness == \A c \in Client : WF_vars(Step(c))

FairSpec == Spec /\ Fairness

-----------------------------------------------------------------------------
(* Properties. *)

\* No pipeline is answered with a dead token, although the client starts the
\* lease later than OpenBao does and answers from its cache without asking.
HandsOutLiveTokens ==
  [][\A c \in Client : (request[c] # "served" /\ request'[c] = "served")
                         => now < token'[c]]_vars

\* Every request is answered, whatever happens to the logins before it.
Answered ==
  \A c \in Client : request[c] = "waiting" ~> request[c] \in {"served", "failed"}

-----------------------------------------------------------------------------
(* The invariants behind the proofs in TokenCache_proofs. *)

\* The mutex is held by the one request whose login is under way.
LoginsAreExclusive ==
  \A c \in Client : request[c] = "login" <=> holder = c

\* The client may believe a token to live longer than it does, but by no more
\* than a login takes.
BelievesAlmostRight == cached.until <= cached.dies + Timeout
=============================================================================
