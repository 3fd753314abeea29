--------------------------- MODULE TileserveClient ---------------------------
(***************************************************************************)
(* internal/tileserve: a client of one tileserve-go server, and how the    *)
(* runner builds and shares clients.                                       *)
(*                                                                         *)
(* A Client is not safe for concurrent use: getJSON reads its token, and   *)
(* replaces it after a 401, with several round trips in between. What      *)
(* keeps two syncs apart is the runner's syncMu; RemoteMaps and TestAPI    *)
(* build a client of their own.                                            *)
(*                                                                         *)
(* Tokens are numbered in the order the server issues them; 0 is the one   *)
(* an administrator configured. The server (external) forgets a token at   *)
(* any moment, and never takes it back. Every request may fail.            *)
(***************************************************************************)
EXTENDS Naturals, FiniteSets

CONSTANTS
    Clients,    \* identities of *tileserve.Client values
    Syncers,    \* goroutines that run syncs: the scheduler's and a manual one
    Probers,    \* goroutines that serve RemoteMaps or TestAPI
    NoClient, NoToken, Nobody,
    MaxTokens   \* bound: tokens the server issues in a behaviour

ASSUME ClientsDistinct == NoClient \notin Clients
ASSUME CallersDistinct == Syncers \cap Probers = {} /\ Nobody \notin Syncers \cup Probers
ASSUME TokensDistinct  == NoToken \notin Nat /\ MaxTokens \in Nat

Callers    == Syncers \cup Probers
Token      == 0 .. MaxTokens
Configured == 0

VARIABLES
    active,     \* the client in Runner.clients
    token,      \* client -> Client.token
    creds,      \* client -> whether it has a username and a password
    kept,       \* history: client -> every token it has stored
    valid,      \* the tokens the server accepts
    issued,     \* how many tokens the server has issued
    syncMu,
    pc,         \* caller -> where it is
    using,      \* caller -> the client it works with
    trips,      \* history: caller -> requests sent by the getJSON in progress
    began,      \* history: caller -> the tokens issued before that getJSON began
    outcome     \* caller -> how its last getJSON ended

vars == <<active, token, creds, kept, valid, issued, syncMu, pc, using, trips, began, outcome>>
server  == <<valid, issued>>
clients == <<token, creds, kept>>
calls   == <<trips, began, outcome>>

Label    == {"off", "ready", "eager", "login", "get", "relogin", "reget", "done"}
LoggingIn == {"eager", "login", "relogin"}
Fetching  == {"get", "reget"}
Outcome  == {"none", "ok", "unauthorized", "error"}

Init ==
    /\ active = NoClient
    /\ token = [c \in Clients |-> NoToken]
    /\ creds = [c \in Clients |-> FALSE]
    /\ kept = [c \in Clients |-> {}]
    /\ valid = {Configured}
    /\ issued = 0
    /\ syncMu = Nobody
    /\ pc = [p \in Callers |-> "off"]
    /\ using = [p \in Callers |-> NoClient]
    /\ trips = [p \in Callers |-> 0]
    /\ began = [p \in Callers |-> 0]
    /\ outcome = [p \in Callers |-> "none"]

InUse == {using[p] : p \in Callers} \cup {active}

\* A new client: with the configured token, or with a username and password.
Built(c, withToken) ==
    /\ c \in Clients \ InUse
    /\ token' = [token EXCEPT ![c] = IF withToken THEN Configured ELSE NoToken]
    /\ creds' = [creds EXCEPT ![c] = ~withToken]
    /\ kept' = [kept EXCEPT ![c] = IF withToken THEN {Configured} ELSE {}]

Goto(p, label) == pc' = [pc EXCEPT ![p] = label]

-----------------------------------------------------------------------------
(* Who has a client. *)

\* apply swaps in a client that logs in on its first request.
Apply(c, withToken) ==
    /\ Built(c, withToken)
    /\ active' = c
    /\ UNCHANGED <<server, syncMu, pc, using, calls>>

\* Slip: a pass that reads the active clients but takes no lock.
UnlockedBeginPass(p) ==
    /\ p \in Syncers /\ pc[p] = "off" /\ active # NoClient
    /\ using' = [using EXCEPT ![p] = active]
    /\ Goto(p, "ready")
    /\ UNCHANGED <<active, clients, server, syncMu, calls>>

\* runSyncMaps: syncMu first, then the active clients.
BeginPass(p) ==
    /\ p \in Syncers /\ pc[p] = "off" /\ active # NoClient
    /\ syncMu = Nobody
    /\ syncMu' = p
    /\ using' = [using EXCEPT ![p] = active]
    /\ Goto(p, "ready")
    /\ UNCHANGED <<active, clients, server, calls>>

\* RemoteMaps and TestAPI build a client and, without a token, log in first.
Probe(p, c, withToken) ==
    /\ p \in Probers /\ pc[p] = "off"
    /\ Built(c, withToken)
    /\ using' = [using EXCEPT ![p] = c]
    /\ Goto(p, IF withToken THEN "ready" ELSE "eager")
    /\ UNCHANGED <<active, server, syncMu, calls>>

\* The pass is over, or the handler returns: TestAPI after the login alone.
Leave(p) ==
    /\ pc[p] \in {"ready", "done"}
    /\ Goto(p, "off")
    /\ using' = [using EXCEPT ![p] = NoClient]
    /\ syncMu' = IF p \in Syncers THEN Nobody ELSE syncMu
    /\ trips' = [trips EXCEPT ![p] = 0]
    /\ began' = [began EXCEPT ![p] = 0]
    /\ outcome' = [outcome EXCEPT ![p] = "none"]
    /\ UNCHANGED <<active, clients, server>>

-----------------------------------------------------------------------------
(* getJSON, one round trip per action. A syncer calls it once for every     *)
(* version of every map (GeoObjects), a prober once (Maps).                 *)

Returns(p, result) ==
    /\ Goto(p, IF p \in Syncers THEN "ready" ELSE "done")
    /\ outcome' = [outcome EXCEPT ![p] = result]

\* Where getJSON begins: nothing to send a token with, or lazily logging in.
Call(p) ==
    /\ pc[p] = "ready"
    /\ trips' = [trips EXCEPT ![p] = 0]
    /\ began' = [began EXCEPT ![p] = issued]
    /\ \/ /\ token[using[p]] # NoToken
          /\ Goto(p, "get")
          /\ outcome' = [outcome EXCEPT ![p] = "none"]
       \/ /\ token[using[p]] = NoToken /\ creds[using[p]]
          /\ Goto(p, "login")
          /\ outcome' = [outcome EXCEPT ![p] = "none"]
       \/ /\ token[using[p]] = NoToken /\ ~creds[using[p]]
          /\ Returns(p, "error")
    /\ UNCHANGED <<active, clients, server, syncMu, using>>

\* A round trip of the getJSON in progress; newClient's login is before it.
Trip(p) == trips' = IF pc[p] = "eager" THEN trips ELSE [trips EXCEPT ![p] = @ + 1]

AfterLogin(label) ==
    CASE label = "eager" -> "ready" [] label = "login" -> "get" [] label = "relogin" -> "reget"

\* The server issues one more token.
Issue ==
    /\ issued < MaxTokens
    /\ issued' = issued + 1
    /\ valid' = valid \cup {issued + 1}

\* Slip: the token of the answer is not stored.
ForgetfulLogin(p) ==
    /\ pc[p] \in LoggingIn
    /\ Issue
    /\ Goto(p, AfterLogin(pc[p]))
    /\ Trip(p)
    /\ UNCHANGED <<active, clients, syncMu, using, began, outcome>>

LoginSucceeds(p) ==
    /\ pc[p] \in LoggingIn
    /\ Issue
    /\ token' = [token EXCEPT ![using[p]] = issued + 1]
    /\ kept' = [kept EXCEPT ![using[p]] = @ \cup {issued + 1}]
    /\ Goto(p, AfterLogin(pc[p]))
    /\ Trip(p)
    /\ UNCHANGED <<active, creds, syncMu, using, began, outcome>>

\* Unreachable, refused, an answer without a token, or one that is lost after
\* the server issued the token. The client keeps the token it had.
LoginFails(p) ==
    /\ pc[p] \in LoggingIn
    /\ Issue \/ UNCHANGED server
    /\ Returns(p, "error")
    /\ Trip(p)
    /\ UNCHANGED <<active, clients, syncMu, using, began>>

FetchSucceeds(p) ==
    /\ pc[p] \in Fetching
    /\ token[using[p]] \in valid
    /\ Returns(p, "ok")
    /\ Trip(p)
    /\ UNCHANGED <<active, clients, server, syncMu, using, began>>

\* Slip: the second 401 is answered like the first.
EndlessRelogin(p) ==
    /\ pc[p] \in Fetching
    /\ token[using[p]] \notin valid
    /\ \/ creds[using[p]] /\ Goto(p, "relogin") /\ UNCHANGED outcome
       \/ ~creds[using[p]] /\ Returns(p, "unauthorized")
    /\ Trip(p)
    /\ UNCHANGED <<active, clients, server, syncMu, using, began>>

\* A 401: one login and one more fetch, if there are credentials to log in with.
FetchRefused(p) ==
    /\ pc[p] \in Fetching
    /\ token[using[p]] \notin valid
    /\ \/ /\ pc[p] = "get" /\ creds[using[p]]
          /\ Goto(p, "relogin")
          /\ UNCHANGED outcome
       \/ /\ pc[p] = "reget" \/ ~creds[using[p]]
          /\ Returns(p, "unauthorized")
    /\ Trip(p)
    /\ UNCHANGED <<active, clients, server, syncMu, using, began>>

\* Unreachable, another status, or a body that does not decode.
FetchFails(p) ==
    /\ pc[p] \in Fetching
    /\ Returns(p, "error")
    /\ Trip(p)
    /\ UNCHANGED <<active, clients, server, syncMu, using, began>>

\* The server no longer accepts t: it expired or was revoked.
Expire(t) ==
    /\ t \in valid
    /\ valid' = valid \ {t}
    /\ UNCHANGED <<active, clients, issued, syncMu, pc, using, calls>>

-----------------------------------------------------------------------------

Next ==
    \/ \E c \in Clients, withToken \in BOOLEAN :
          \/ Apply(c, withToken)
          \/ \E p \in Probers : Probe(p, c, withToken)
    \/ \E p \in Syncers : BeginPass(p)
    \/ \E p \in Callers :
          \/ Call(p) \/ Leave(p)
          \/ LoginSucceeds(p) \/ LoginFails(p)
          \/ FetchSucceeds(p) \/ FetchRefused(p) \/ FetchFails(p)
    \/ \E t \in Token : Expire(t)

Spec == Init /\ [][Next]_vars

-----------------------------------------------------------------------------
(* Properties. *)

\* Every variable has its type, and whoever is at a request has the client to
\* send it with and, for a fetch, a token to send: getOnce never sends an
\* empty bearer token, whatever a login answered.
TypeOK ==
    /\ active \in Clients \cup {NoClient}
    /\ token \in [Clients -> Token \cup {NoToken}]
    /\ creds \in [Clients -> BOOLEAN]
    /\ kept \in [Clients -> SUBSET Token]
    /\ issued \in Token /\ valid \subseteq 0 .. issued
    /\ syncMu \in Syncers \cup {Nobody}
    /\ pc \in [Callers -> Label]
    /\ using \in [Callers -> Clients \cup {NoClient}]
    /\ trips \in [Callers -> Nat]
    /\ began \in [Callers -> Token]
    /\ outcome \in [Callers -> Outcome]
    /\ \A p \in Callers : pc[p] # "off" => using[p] # NoClient
    /\ \A p \in Callers : pc[p] \in Fetching => token[using[p]] # NoToken

\* A client never holds two sessions at the server: of all tokens it has
\* stored, only the one it has now can still be accepted. It rests on syncMu,
\* since two syncs that met a 401 on one client would both log in.
OneLiveToken ==
    \A c \in Clients : kept[c] \cap valid \subseteq {token[c]}

\* However often the server forgets tokens, a getJSON ends after two logins
\* and two fetches at most.
BoundedTrips ==
    \A p \in Callers : trips[p] <= 4

\* A client with credentials reports a 401 only when the token refused was
\* issued, and stored by this client, during that very call: a token that was
\* there when the call began may expire as often as it likes, no sync sees it.
ExpiryIsInvisible ==
    [][\A p \in Callers :
          outcome[p] # "unauthorized" /\ outcome'[p] = "unauthorized" /\ creds[using[p]]
             => token[using[p]] \in began[p] + 1 .. issued]_vars

=============================================================================
