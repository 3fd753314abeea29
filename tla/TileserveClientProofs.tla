------------------------ MODULE TileserveClientProofs ------------------------
(***************************************************************************)
(* Theorems about TileserveClient, for any number of clients and callers   *)
(* and any number of tokens.                                               *)
(***************************************************************************)
EXTENDS TileserveClient, TLAPS

\* A sync is in its pass exactly while it holds syncMu; only probers log in
\* before their first request.
LockInv ==
    /\ \A p \in Syncers : pc[p] # "off" <=> syncMu = p
    /\ \A p \in Syncers : pc[p] # "eager"

\* No two callers work with one client. For syncs that is syncMu's doing; a
\* prober's client is in nobody else's hands and never the active one.
OwnInv ==
    /\ \A p \in Callers : pc[p] = "off" <=> using[p] = NoClient
    /\ \A p, q \in Callers : p # q /\ using[p] = using[q] => using[p] = NoClient
    /\ \A p \in Probers : using[p] # NoClient => using[p] # active

\* What is known of the token at each label, and of the trips made so far.
StepInv(p) ==
    /\ pc[p] \in LoggingIn => creds[using[p]]
    /\ pc[p] \in {"eager", "login"} => token[using[p]] = NoToken
    /\ pc[p] = "relogin" => token[using[p]] \notin valid
    /\ pc[p] = "reget" => token[using[p]] \in began[p] + 1 .. issued
    /\ began[p] <= issued
    /\ pc[p] = "login" => trips[p] = 0
    /\ pc[p] = "get" => trips[p] <= 1
    /\ pc[p] = "relogin" => trips[p] <= 2
    /\ pc[p] = "reget" => trips[p] <= 3

\* What a client holds or held was issued, and it holds one it stored.
KeptInv ==
    /\ \A c \in Clients : kept[c] \subseteq 0 .. issued
    /\ \A c \in Clients : token[c] \in kept[c] \cup {NoToken}

IInv ==
    /\ TypeOK /\ LockInv /\ OwnInv /\ KeptInv /\ OneLiveToken /\ BoundedTrips
    /\ \A p \in Callers : StepInv(p)

USE ClientsDistinct, CallersDistinct, TokensDistinct

LEMMA InitInv == Init => IInv
BY DEF Init, IInv, TypeOK, LockInv, OwnInv, KeptInv, OneLiveToken, BoundedTrips, StepInv,
       Token, Configured, Callers, Label, Outcome, LoggingIn, Fetching

\* The states of the callers other than the one that moves, and of a client
\* nobody uses, are what they were.
LEMMA ApplyInv ==
    ASSUME IInv, NEW c \in Clients, NEW withToken \in BOOLEAN, Apply(c, withToken)
    PROVE  IInv'
<1>1. c # active /\ \A p \in Callers : using[p] # c
  BY DEF Apply, Built, InUse
<1>2. TypeOK'
  BY <1>1 DEF IInv, TypeOK, Apply, Built, server, calls, Token, Configured, Fetching
<1>3. LockInv' /\ BoundedTrips'
  BY DEF IInv, Apply, LockInv, BoundedTrips, calls
<1>4. OwnInv'
  BY <1>1 DEF IInv, Apply, OwnInv, TypeOK, Callers
<1>5. KeptInv' /\ OneLiveToken'
  BY DEF IInv, Apply, Built, KeptInv, OneLiveToken, TypeOK, server, Token, Configured
<1>6. ASSUME NEW p \in Callers PROVE StepInv(p)'
  <2>1. pc[p] # "off" => using[p] \in Clients \ {c}
    BY <1>1 DEF IInv, TypeOK, Callers
  <2>2. pc[p] # "off" => token'[using[p]] = token[using[p]] /\ creds'[using[p]] = creds[using[p]]
    BY <2>1 DEF Apply, Built, IInv, TypeOK
  <2>3. StepInv(p) /\ UNCHANGED <<valid, issued, pc, using, trips, began>>
    BY DEF IInv, Apply, server, calls
  <2> QED
    BY <2>2, <2>3 DEF StepInv, LoggingIn
<1> QED
  BY <1>2, <1>3, <1>4, <1>5, <1>6 DEF IInv

LEMMA ProbeInv ==
    ASSUME IInv, NEW p \in Probers, NEW c \in Clients, NEW withToken \in BOOLEAN,
           Probe(p, c, withToken)
    PROVE  IInv'
<1>1. c # active /\ \A q \in Callers : using[q] # c
  BY DEF Probe, Built, InUse
<1>2. pc[p] = "off" /\ p \in Callers /\ p \notin Syncers
  BY DEF Probe, Callers
<1>3. TypeOK'
  BY <1>1, <1>2
  DEF IInv, TypeOK, Probe, Built, server, calls, Token, Configured, Fetching, Goto, Label
<1>4. LockInv' /\ BoundedTrips'
  BY <1>2 DEF IInv, Probe, LockInv, BoundedTrips, calls, Goto, TypeOK, Callers
<1>5. OwnInv'
  BY <1>1, <1>2 DEF IInv, Probe, OwnInv, TypeOK, Goto, Callers
<1>6. KeptInv' /\ OneLiveToken'
  BY DEF IInv, Probe, Built, KeptInv, OneLiveToken, TypeOK, server, Token, Configured
<1>7. ASSUME NEW q \in Callers PROVE StepInv(q)'
  <2>1. CASE q = p
    BY <1>2, <2>1 DEF Probe, Built, IInv, TypeOK, StepInv, LoggingIn, Goto, server, calls
  <2>2. CASE q # p
    <3>1. pc[q] # "off" => using[q] \in Clients \ {c}
      BY <1>1 DEF IInv, TypeOK
    <3>2. pc[q] # "off" => token'[using[q]] = token[using[q]] /\ creds'[using[q]] = creds[using[q]]
      BY <3>1 DEF Probe, Built, IInv, TypeOK
    <3>3. pc'[q] = pc[q] /\ using'[q] = using[q]
      BY <2>2, <1>2 DEF Probe, Goto, IInv, TypeOK
    <3>4. StepInv(q) /\ UNCHANGED <<valid, issued, trips, began>>
      BY DEF IInv, Probe, server, calls
    <3> QED
      BY <3>2, <3>3, <3>4 DEF StepInv, LoggingIn
  <2> QED
    BY <2>1, <2>2
<1> QED
  BY <1>3, <1>4, <1>5, <1>6, <1>7 DEF IInv

LEMMA BeginPassInv ==
    ASSUME IInv, NEW p \in Syncers, BeginPass(p)
    PROVE  IInv'
<1>1. p \in Callers /\ \A q \in Syncers : pc[q] = "off"
  BY DEF BeginPass, IInv, LockInv, TypeOK, Callers
<1>2. TypeOK'
  BY <1>1 DEF IInv, TypeOK, BeginPass, clients, server, calls, Goto, Label, Fetching
<1>3. LockInv' /\ KeptInv' /\ OneLiveToken' /\ BoundedTrips'
  BY <1>1 DEF IInv, BeginPass, LockInv, KeptInv, OneLiveToken, BoundedTrips, clients, server, calls,
              Goto, TypeOK
<1>4. OwnInv'
  BY <1>1 DEF IInv, BeginPass, OwnInv, TypeOK, Goto, Callers
<1>5. ASSUME NEW q \in Callers PROVE StepInv(q)'
  BY <1>1 DEF IInv, BeginPass, StepInv, TypeOK, Goto, LoggingIn, clients, server, calls
<1> QED
  BY <1>2, <1>3, <1>4, <1>5 DEF IInv

LEMMA LeaveInv ==
    ASSUME IInv, NEW p \in Callers, Leave(p)
    PROVE  IInv'
<1>1. TypeOK'
  BY DEF IInv, TypeOK, Leave, clients, server, Goto, Label, Outcome, Fetching, Token
<1>2. LockInv' /\ KeptInv' /\ OneLiveToken' /\ BoundedTrips'
  BY DEF IInv, Leave, LockInv, KeptInv, OneLiveToken, BoundedTrips, clients, server, Goto, TypeOK,
         Callers
<1>3. OwnInv'
  BY DEF IInv, Leave, OwnInv, TypeOK, Goto, Callers
<1>4. ASSUME NEW q \in Callers PROVE StepInv(q)'
  <2>1. began'[q] <= issued' /\ (q # p => began'[q] = began[q])
    BY DEF IInv, Leave, StepInv, TypeOK, Token, server
  <2> QED
    BY <2>1 DEF IInv, Leave, StepInv, TypeOK, Goto, LoggingIn, clients, server
<1> QED
  BY <1>1, <1>2, <1>3, <1>4 DEF IInv

-----------------------------------------------------------------------------
(* A step within getJSON or a login: the caller and its client alone change. *)

\* Nobody but p works with p's client.
LEMMA Exclusive ==
    ASSUME IInv, NEW p \in Callers, NEW q \in Callers, p # q, pc[p] # "off"
    PROVE  using[q] # using[p]
BY DEF IInv, OwnInv

\* Steps that move p alone leave what is known of the others.
LEMMA OthersKeep ==
    ASSUME IInv, NEW p \in Callers, NEW q \in Callers, q # p, pc[p] # "off",
           UNCHANGED <<creds, using>>,
           \A t \in 0 .. issued : t \in valid' => t \in valid, valid' \subseteq Nat,
           issued' \in Nat, issued <= issued',
           \A c \in Clients : c # using[p] => token'[c] = token[c],
           pc'[q] = pc[q], trips'[q] = trips[q], began'[q] = began[q]
    PROVE  StepInv(q)'
<1>1. CASE pc[q] = "off"
  BY <1>1 DEF IInv, TypeOK, StepInv, LoggingIn, Token
<1>2. CASE pc[q] # "off"
  <2>1. using[q] \in Clients /\ using[q] # using[p]
    BY <1>2, Exclusive DEF IInv, TypeOK
  <2>2. token'[using[q]] = token[using[q]]
    BY <2>1
  <2>3. token[using[q]] \in (0 .. issued) \cup {NoToken}
    BY <2>1 DEF IInv, KeptInv
  <2>4. token[using[q]] \in valid' => token[using[q]] \in valid
    BY <2>3
  <2>5. issued \in Nat /\ began[q] \in Nat
    BY DEF IInv, TypeOK, Token
  <2> QED
    BY <2>1, <2>2, <2>3, <2>4, <2>5 DEF IInv, StepInv
<1> QED
  BY <1>1, <1>2

LEMMA CallInv ==
    ASSUME IInv, NEW p \in Callers, Call(p)
    PROVE  IInv'
<1>1. pc[p] = "ready" /\ using[p] \in Clients /\ UNCHANGED <<token, creds, kept, valid, issued>>
  BY DEF IInv, TypeOK, Call, clients, server
<1>2. pc'[p] \in {"get", "login", "ready", "done"} /\ (pc'[p] = "done" => p \notin Syncers)
  BY DEF IInv, TypeOK, Call, Returns, Goto
<1>3. \A q \in Callers : q # p => pc'[q] = pc[q] /\ trips'[q] = trips[q] /\ began'[q] = began[q]
  BY DEF IInv, TypeOK, Call, Returns, Goto
<1>4. TypeOK'
  <2>1. pc' \in [Callers -> Label] /\ trips' \in [Callers -> Nat]
        /\ began' \in [Callers -> Token] /\ outcome' \in [Callers -> Outcome]
    BY DEF IInv, TypeOK, Call, Returns, Goto, Label, Outcome
  <2>2. pc'[p] \in Fetching => token[using[p]] # NoToken
    BY DEF IInv, TypeOK, Call, Returns, Goto, Fetching
  <2> QED
    BY <1>1, <1>3, <2>1, <2>2 DEF IInv, TypeOK, Call
<1>5. LockInv' /\ OwnInv' /\ KeptInv' /\ OneLiveToken'
  BY <1>1, <1>2, <1>3 DEF IInv, LockInv, OwnInv, KeptInv, OneLiveToken, Call, Callers
<1>6. BoundedTrips'
  BY <1>3 DEF IInv, BoundedTrips, Call, TypeOK
<1>7. StepInv(p)'
  <2>1. began'[p] <= issued'
    BY <1>1 DEF Call, IInv, TypeOK, Token
  <2> QED
    BY <1>1, <1>2, <2>1 DEF StepInv, Call, Returns, Goto, IInv, TypeOK, LoggingIn
<1>8. \A q \in Callers : q # p => StepInv(q)'
  <2>1. valid' \subseteq Nat /\ valid' = valid /\ issued' \in Nat /\ issued <= issued'
    BY <1>1 DEF IInv, TypeOK, Token
  <2> QED
    BY <1>1, <1>3, <2>1, OthersKeep DEF Call
<1> QED
  BY <1>4, <1>5, <1>6, <1>7, <1>8 DEF IInv

LEMMA LoginSucceedsInv ==
    ASSUME IInv, NEW p \in Callers, LoginSucceeds(p)
    PROVE  IInv'
<1> DEFINE c == using[p]
           new == issued + 1
<1>1. c \in Clients /\ pc[p] \in LoggingIn /\ UNCHANGED <<creds, using, syncMu, active, outcome>>
  BY DEF IInv, TypeOK, LoginSucceeds, LoggingIn
<1>2. new \in Token /\ issued' = new /\ valid' = valid \cup {new} /\ new \notin 0 .. issued
  BY DEF IInv, TypeOK, LoginSucceeds, Issue, Token
<1>3. /\ token' = [token EXCEPT ![c] = new]
      /\ kept' = [kept EXCEPT ![c] = @ \cup {new}]
  BY DEF LoginSucceeds
<1>4. \/ pc[p] = "eager" /\ pc'[p] = "ready" /\ trips'[p] = trips[p]
      \/ pc[p] = "login" /\ pc'[p] = "get" /\ trips'[p] = trips[p] + 1
      \/ pc[p] = "relogin" /\ pc'[p] = "reget" /\ trips'[p] = trips[p] + 1
  BY <1>1 DEF LoginSucceeds, AfterLogin, Goto, Trip, LoggingIn, IInv, TypeOK
<1>5. \A q \in Callers : q # p => pc'[q] = pc[q] /\ trips'[q] = trips[q] /\ began'[q] = began[q]
  BY DEF IInv, TypeOK, LoginSucceeds, Goto, Trip
<1>6. kept[c] \cap valid = {}
  BY <1>1 DEF IInv, OneLiveToken, StepInv, LoggingIn, TypeOK, Token, KeptInv
<1>7. TypeOK'
  <2>1. /\ pc' \in [Callers -> Label] /\ trips' \in [Callers -> Nat]
        /\ began' = began
    BY <1>1 DEF IInv, TypeOK, LoginSucceeds, AfterLogin, Goto, Trip, Label, LoggingIn
  <2>2. /\ token' \in [Clients -> Token \cup {NoToken}] /\ kept' \in [Clients -> SUBSET Token]
        /\ valid' \subseteq 0 .. issued'
    BY <1>1, <1>2, <1>3 DEF IInv, TypeOK, Token
  <2>3. \A q \in Callers : pc'[q] \in Fetching => token'[using[q]] # NoToken
    <3>1. token'[c] # NoToken
      BY <1>1, <1>2, <1>3 DEF IInv, TypeOK, Token
    <3>2. \A q \in Callers : q # p /\ pc[q] # "off" => token'[using[q]] = token[using[q]]
      BY <1>1, <1>3 DEF IInv, OwnInv, TypeOK
    <3> QED
      BY <1>5, <3>1, <3>2 DEF IInv, TypeOK, Fetching
  <2>4. \A q \in Callers : pc'[q] # "off" => using[q] # NoClient
    BY <1>1, <1>5 DEF IInv, TypeOK
  <2> QED
    BY <1>1, <1>2, <2>1, <2>2, <2>3, <2>4 DEF IInv, TypeOK
<1>8. LockInv' /\ OwnInv'
  BY <1>1, <1>4, <1>5 DEF IInv, LockInv, OwnInv, Callers, LoggingIn, TypeOK
<1>9. KeptInv' /\ OneLiveToken'
  BY <1>1, <1>2, <1>3, <1>6 DEF IInv, KeptInv, OneLiveToken, TypeOK, Token
<1>10. BoundedTrips' /\ StepInv(p)'
  <2>1. token'[c] = new /\ began'[p] = began[p] /\ creds'[c] = creds[c]
    BY <1>1, <1>3 DEF LoginSucceeds, IInv, TypeOK
  <2>2. trips[p] \in Nat /\ StepInv(p) /\ began[p] \in Nat /\ issued \in Nat
    BY DEF IInv, TypeOK, Token
  <2>4. began'[p] + 1 <= new /\ new = issued'
    BY <1>2, <2>1, <2>2 DEF StepInv
  <2>3. trips'[p] <= 4
    BY <1>4, <2>2 DEF StepInv, IInv, BoundedTrips
  <2> QED
    BY <1>1, <1>2, <1>4, <1>5, <2>1, <2>2, <2>3, <2>4 DEF StepInv, LoggingIn, BoundedTrips, IInv
<1>11. \A q \in Callers : q # p => StepInv(q)'
  <2>1. /\ pc[p] # "off" /\ valid' \subseteq Nat
        /\ \A t \in 0 .. issued : t \in valid' => t \in valid
        /\ issued' \in Nat /\ issued <= issued'
    BY <1>1, <1>2 DEF LoggingIn, IInv, TypeOK, Token
  <2>2. \A d \in Clients : d # c => token'[d] = token[d]
    BY <1>3 DEF IInv, TypeOK
  <2> QED
    BY <1>1, <1>5, <2>1, <2>2, OthersKeep
<1> QED
  BY <1>7, <1>8, <1>9, <1>10, <1>11 DEF IInv

\* The other answers change no client: they move p and count a trip.
LEMMA AnswerInv ==
    ASSUME IInv, NEW p \in Callers,
           LoginFails(p) \/ FetchSucceeds(p) \/ FetchRefused(p) \/ FetchFails(p)
    PROVE  IInv'
<1>1. /\ pc[p] \in LoggingIn \cup Fetching
      /\ UNCHANGED <<active, token, creds, kept, syncMu, using, began>>
  BY DEF LoginFails, FetchSucceeds, FetchRefused, FetchFails, clients
<1>2. /\ issued' \in Token /\ issued <= issued' /\ valid' \subseteq 0 .. issued'
      /\ \A t \in 0 .. issued : t \in valid' => t \in valid
  <2>1. Issue \/ UNCHANGED server
    BY DEF LoginFails, FetchSucceeds, FetchRefused, FetchFails
  <2>2. CASE Issue
    BY <2>2 DEF Issue, IInv, TypeOK, Token
  <2>3. CASE UNCHANGED server
    BY <2>3 DEF server, IInv, TypeOK, Token
  <2> QED
    BY <2>1, <2>2, <2>3
<1>3. /\ pc' \in [Callers -> Label] /\ trips' \in [Callers -> Nat]
      /\ outcome' \in [Callers -> Outcome]
  BY DEF LoginFails, FetchSucceeds, FetchRefused, FetchFails, Returns, Goto, Trip, IInv, TypeOK,
         Label, Outcome
<1>4. \/ pc'[p] = "ready"
      \/ pc'[p] = "done" /\ p \notin Syncers
      \/ pc'[p] = "relogin" /\ pc[p] = "get" /\ creds[using[p]] /\ token[using[p]] \notin valid
           /\ valid' = valid
  BY DEF LoginFails, FetchSucceeds, FetchRefused, FetchFails, Returns, Goto, IInv, TypeOK, server
<1>5. trips'[p] = trips[p] \/ (pc[p] # "eager" /\ trips'[p] = trips[p] + 1)
  BY DEF LoginFails, FetchSucceeds, FetchRefused, FetchFails, Trip, IInv, TypeOK
<1>6. \A q \in Callers : q # p => pc'[q] = pc[q] /\ trips'[q] = trips[q]
  BY DEF LoginFails, FetchSucceeds, FetchRefused, FetchFails, Returns, Goto, Trip, IInv, TypeOK
<1>7. TypeOK'
  BY <1>1, <1>2, <1>3, <1>4, <1>6 DEF IInv, TypeOK, Fetching, LoggingIn
<1>8. LockInv' /\ OwnInv'
  BY <1>1, <1>4, <1>6 DEF IInv, LockInv, OwnInv, Callers, LoggingIn, Fetching, TypeOK
<1>9. KeptInv'
  BY <1>1, <1>2 DEF IInv, KeptInv, TypeOK, Token
<1>10. OneLiveToken'
  BY <1>1, <1>2 DEF IInv, KeptInv, OneLiveToken, TypeOK, Token
<1>11. BoundedTrips' /\ StepInv(p)'
  <2>1. trips[p] \in Nat /\ StepInv(p) /\ trips[p] <= 4
    BY DEF IInv, TypeOK, BoundedTrips
  <2>3. began[p] <= issued'
    BY <1>2, <2>1 DEF StepInv, IInv, TypeOK, Token
  <2>2. trips'[p] <= 4 /\ (pc'[p] = "relogin" => trips'[p] <= 2)
    BY <1>1, <1>4, <1>5, <2>1 DEF StepInv, LoggingIn, Fetching
  <2> QED
    BY <1>1, <1>4, <1>6, <2>1, <2>2, <2>3 DEF StepInv, LoggingIn, BoundedTrips, IInv
<1>12. \A q \in Callers : q # p => StepInv(q)'
  <2>1. pc[p] # "off" /\ valid' \subseteq Nat /\ issued' \in Nat
    BY <1>1, <1>2 DEF LoggingIn, Fetching, IInv, TypeOK, Token
  <2> QED
    BY <1>1, <1>2, <1>6, <2>1, OthersKeep
<1> QED
  BY <1>7, <1>8, <1>9, <1>10, <1>11, <1>12 DEF IInv

LEMMA ExpireInv ==
    ASSUME IInv, NEW t \in Token, Expire(t)
    PROVE  IInv'
<1>1. UNCHANGED <<active, token, creds, kept, issued, syncMu, pc, using, trips, began, outcome>>
      /\ valid' \subseteq valid
  BY DEF Expire, clients, calls
<1>2. TypeOK' /\ LockInv' /\ OwnInv' /\ KeptInv' /\ OneLiveToken' /\ BoundedTrips'
  BY <1>1 DEF IInv, TypeOK, LockInv, OwnInv, KeptInv, OneLiveToken, BoundedTrips
<1>3. ASSUME NEW p \in Callers PROVE StepInv(p)'
  BY <1>1 DEF IInv, StepInv
<1> QED
  BY <1>2, <1>3 DEF IInv

LEMMA NextInv == IInv /\ [Next]_vars => IInv'
<1> SUFFICES ASSUME IInv, [Next]_vars PROVE IInv'
  OBVIOUS
<1>1. CASE UNCHANGED vars
  BY <1>1 DEF vars, IInv, TypeOK, LockInv, OwnInv, KeptInv, OneLiveToken, BoundedTrips, StepInv
<1>2. CASE Next
  BY <1>2, ApplyInv, ProbeInv, BeginPassInv, LeaveInv, CallInv, LoginSucceedsInv, AnswerInv,
     ExpireInv DEF Next
<1> QED
  BY <1>1, <1>2

THEOREM Invariant == Spec => []IInv
BY InitInv, NextInv, PTL DEF Spec

-----------------------------------------------------------------------------
(* The theorems. *)

\* Every reachable state is well typed, and no fetch is sent without a token
\* (getOnce, after the lazy login of getJSON).
THEOREM TypeCorrect == Spec => []TypeOK
BY Invariant, PTL DEF IInv

\* A client never holds two sessions at the server (getJSON under syncMu).
THEOREM OneSession == Spec => []OneLiveToken
BY Invariant, PTL DEF IInv

\* A getJSON ends after two logins and two fetches at most.
THEOREM CallsAreBounded == Spec => []BoundedTrips
BY Invariant, PTL DEF IInv

\* With credentials, the token refused last was issued and stored during the
\* call: the retry is made with what the login after the first 401 stored.
THEOREM ExpiryStaysInside == Spec => ExpiryIsInvisible
<1>1. IInv /\ [Next]_vars =>
        [\A p \in Callers :
            outcome[p] # "unauthorized" /\ outcome'[p] = "unauthorized" /\ creds[using[p]]
               => token[using[p]] \in began[p] + 1 .. issued]_vars
  <2> SUFFICES ASSUME IInv, Next, NEW p \in Callers, outcome[p] # "unauthorized",
                      outcome'[p] = "unauthorized", creds[using[p]]
               PROVE  token[using[p]] \in began[p] + 1 .. issued
    BY DEF vars
  <2>1. \E q \in Callers : FetchRefused(q) /\ outcome' # outcome
    BY DEF Next, Apply, Probe, BeginPass, Call, Leave, LoginSucceeds, LoginFails, FetchSucceeds,
           FetchFails, Expire, Returns, calls, IInv, TypeOK, Callers
  <2>2. FetchRefused(p) /\ pc[p] = "reget"
    BY <2>1 DEF FetchRefused, Returns, IInv, TypeOK, Fetching
  <2> QED
    BY <2>2 DEF IInv, StepInv
<1> QED
  BY <1>1, Invariant, PTL DEF Spec, ExpiryIsInvisible

=============================================================================
