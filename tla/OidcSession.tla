----------------------------- MODULE OidcSession -----------------------------
(***************************************************************************)
(* The browser's side of single sign-on: frontend/src/auth/oidc.ts (the    *)
(* stored session and its renewal), api/client.ts (every API call carries  *)
(* the session's access token) and auth/AuthContext.tsx (who is shown as   *)
(* signed in).                                                             *)
(*                                                                         *)
(* JavaScript runs one callback at a time: what lies between two waits for *)
(* the network is one action, and reading or writing sessionStorage does   *)
(* not wait. The page may be unloaded at any moment; the stored session    *)
(* survives that, everything in flight is cut.                             *)
(*                                                                         *)
(* Sessions are numbered as the provider issues them: session n is access  *)
(* token n and refresh token n, 0 is none. The provider (external) rotates *)
(* refresh tokens, as renewAccessToken assumes it may. The backend accepts *)
(* or refuses any token: it has a clock and an opinion of its own.         *)
(***************************************************************************)
EXTENDS Naturals

CONSTANTS
    Requests,     \* API calls a page may have in flight at once
    Account,      \* refreshMe: GET /api/me, or POST /api/sso/login
    MaxSessions   \* bound: sessions the provider issues in a behaviour

ASSUME AccountDistinct == Account \notin Requests
ASSUME SessionsBounded == MaxSessions \in Nat

Calls   == Requests \cup {Account}
None    == 0
Session == 1 .. MaxSessions

VARIABLES
    user,        \* the session in sessionStorage
    expired,     \* user.expired
    page,        \* what the page is doing
    atCallback,  \* the page was loaded at SSO_CALLBACK_PATH
    manager,     \* initOidc found a provider
    me,          \* AuthContext shows someone signed in
    pc, sent,    \* call -> where apiFetch is, and the token it sent last
    asking,      \* the refresh token `renewing` has presented
    answer,      \* the session the provider issued for it
    signingOut,  \* logoutOidc looks for the provider's logout page
    offline,     \* the provider issues refresh tokens
    issued,      \* how many sessions the provider has issued
    live,        \* the refresh tokens it accepts
    used, twice, \* history: refresh tokens presented, and presented once more
    cut,         \* history: refresh tokens in flight when the page was unloaded
    loggedOut,   \* history: logged out since the last login
    overtaken,   \* history: a renewal was in flight at that logout
    late         \* history: me was loaded after its session had ended

store    == <<user, expired>>
shown    == <<page, atCallback, manager>>
fetches  == <<pc, sent>>
renewal  == <<asking, answer>>
provider == <<offline, issued, live>>
presents == <<used, twice, cut>>
logouts  == <<loggedOut, overtaken>>
vars == <<store, shown, me, fetches, renewal, signingOut, provider, presents, logouts, late>>

Label   == {"idle", "waiting", "sent", "again", "resent"}
Waiting == {"waiting", "again"}
Page    == {"blank", "loading", "redeeming", "redeemed", "ready", "stuck"}

Init ==
    /\ user = None /\ expired = FALSE
    /\ page = "blank" /\ atCallback = FALSE /\ manager = FALSE
    /\ me = FALSE
    /\ pc = [r \in Calls |-> "idle"] /\ sent = [r \in Calls |-> None]
    /\ asking = None /\ answer = None
    /\ signingOut = FALSE
    /\ offline \in BOOLEAN /\ issued = 0 /\ live = {}
    /\ used = {} /\ twice = {} /\ cut = {}
    /\ loggedOut = FALSE /\ overtaken = FALSE /\ late = FALSE

-----------------------------------------------------------------------------
(* The page. *)

\* AuthProvider mounts: the provider's settings first, then refreshMe.
Mount(configured) ==
    /\ page = "blank"
    /\ page' = "loading"
    /\ manager' = configured
    /\ UNCHANGED <<store, atCallback, me, fetches, renewal, signingOut, provider, presents, logouts, late>>

\* The page goes away: reloaded, left for the provider's login or logout
\* page, or come back from one. Only startLogin leads to the callback path.
Unload(toCallback) ==
    /\ page # "blank"
    /\ toCallback => atCallback \/ (page = "ready" /\ manager /\ ~me)
    /\ page' = "blank" /\ atCallback' = toCallback /\ manager' = FALSE
    /\ me' = FALSE /\ late' = FALSE /\ signingOut' = FALSE
    /\ pc' = [r \in Calls |-> "idle"] /\ sent' = [r \in Calls |-> None]
    /\ asking' = None /\ answer' = None
    /\ cut' = IF asking = None THEN cut ELSE cut \cup {asking}
    /\ UNCHANGED <<store, provider, used, twice, logouts>>

\* completeLogin: the code is redeemed for a session, which is stored.
Redeemed ==
    /\ page = "redeeming" /\ manager
    /\ issued < MaxSessions
    /\ issued' = issued + 1
    /\ live' = IF offline THEN live \cup {issued + 1} ELSE live
    /\ user' = issued + 1 /\ expired' = FALSE
    /\ page' = "redeemed"
    /\ loggedOut' = FALSE /\ overtaken' = FALSE
    /\ UNCHANGED <<atCallback, manager, me, fetches, renewal, signingOut, offline, presents, late>>

RedeemFails ==
    /\ page = "redeeming"
    /\ page' = "ready" /\ atCallback' = FALSE
    /\ UNCHANGED <<store, manager, me, fetches, renewal, signingOut, provider, presents, logouts, late>>

\* Slip: the token is only forgotten once the provider's logout page is known.
LogoutKeepsToken ==
    /\ page = "ready" /\ me
    /\ me' = FALSE
    /\ signingOut' = (user # None)
    /\ loggedOut' = TRUE /\ overtaken' = (asking # None)
    /\ UNCHANGED <<store, shown, fetches, renewal, provider, presents, late>>

\* logout: forget the session, then look for the provider's logout page.
Logout ==
    /\ page = "ready" /\ me
    /\ me' = FALSE
    /\ user' = None /\ expired' = FALSE
    /\ signingOut' = (user # None)
    /\ loggedOut' = TRUE /\ overtaken' = (asking # None)
    /\ UNCHANGED <<shown, fetches, renewal, provider, presents, late>>

\* signoutRedirect removes the user once more before it leaves the page.
SignoutRedirect ==
    /\ signingOut
    /\ signingOut' = FALSE
    /\ user' = None /\ expired' = FALSE /\ me' = FALSE
    /\ UNCHANGED <<shown, fetches, renewal, provider, presents, logouts, late>>

NoSignoutPage ==
    /\ signingOut
    /\ signingOut' = FALSE
    /\ UNCHANGED <<store, shown, me, fetches, renewal, provider, presents, logouts, late>>

-----------------------------------------------------------------------------
(* renewAccessToken. *)

\* Slip: every caller starts a renewal of its own.
NeverJoins == FALSE

\* A renewal is in flight: `renewing ??=` shares it.
Joins == asking # None

\* Nothing to renew with: no session, or one without a refresh token.
CannotRenew == ~Joins /\ (user = None \/ ~offline)

\* The call presents the stored refresh token, unless it joins one that did.
Presents ==
    IF Joins
    THEN UNCHANGED <<asking, answer, used, twice>>
    ELSE /\ asking' = user /\ answer' = None
         /\ used' = used \cup {user}
         /\ twice' = IF user \in used THEN twice \cup {user} ELSE twice

\* removeUser: the session is over, and onSsoSessionEnded tells AuthContext.
SessionOver ==
    /\ user' = None /\ expired' = FALSE
    /\ me' = IF user = None THEN me ELSE FALSE

Expiring ==
    /\ page # "blank" /\ manager /\ user # None
    /\ IF CannotRenew
       THEN SessionOver /\ UNCHANGED <<renewal, presents>>
       ELSE Presents /\ UNCHANGED <<store, me, cut>>
    /\ UNCHANGED <<shown, fetches, signingOut, provider, logouts, late>>

\* The provider consumes the refresh token and issues the next session.
Rotate ==
    /\ asking \in live /\ answer = None
    /\ issued < MaxSessions
    /\ issued' = issued + 1
    /\ live' = (live \ {asking}) \cup {issued + 1}
    /\ answer' = issued + 1
    /\ UNCHANGED <<store, shown, me, fetches, asking, signingOut, offline, presents, logouts, late>>

\* The callers that wait for the renewal go on with its result.
Resume(token) ==
    /\ pc' = [r \in Calls |->
                CASE pc[r] = "waiting" -> "sent"
                  [] pc[r] = "again" -> IF token = None THEN "idle" ELSE "resent"
                  [] OTHER -> pc[r]]
    /\ sent' = [r \in Calls |-> IF pc[r] \in Waiting /\ pc'[r] # "idle" THEN token ELSE sent[r]]

\* Slip: the callers get the access token the session had before.
RenewedResumesOld ==
    /\ answer # None
    /\ user' = answer /\ expired' = FALSE
    /\ asking' = None /\ answer' = None
    /\ Resume(user)
    /\ UNCHANGED <<shown, me, signingOut, provider, presents, logouts, late>>

\* The answer arrives: signinSilent stores it, whatever is stored by then.
Renewed ==
    /\ answer # None
    /\ user' = answer /\ expired' = FALSE
    /\ asking' = None /\ answer' = None
    /\ Resume(answer)
    /\ UNCHANGED <<shown, me, signingOut, provider, presents, logouts, late>>

\* What refreshMe and its caller do with the end of its call: ready is set
\* unless it throws, and the callback page moves on however it ends.
Settled(threw) ==
    /\ page' = CASE page = "redeemed" -> "ready"
                 [] page = "loading" /\ threw -> "stuck"
                 [] page = "loading" /\ ~threw -> IF atCallback THEN "redeeming" ELSE "ready"
                 [] OTHER -> page
    /\ atCallback' = (atCallback /\ page # "redeemed")

\* A call of the renewal's waiters ends in a 401 when the session is over.
AccountEnds == pc[Account] = "again"

\* Slip: nobody subscribed to the end of the session.
EndsUnnoticed ==
    /\ asking # None
    /\ user' = None /\ expired' = FALSE
    /\ asking' = None /\ answer' = None
    /\ Resume(None)
    /\ IF AccountEnds THEN Settled(FALSE) ELSE UNCHANGED <<page, atCallback>>
    /\ UNCHANGED <<manager, me, signingOut, provider, presents, logouts, late>>

\* Refused, or failed on the way there or back: the session is over.
RenewalFails ==
    /\ asking # None
    /\ user' = None /\ expired' = FALSE /\ me' = FALSE
    /\ asking' = None /\ answer' = None
    /\ Resume(None)
    /\ IF AccountEnds THEN Settled(FALSE) ELSE UNCHANGED <<page, atCallback>>
    /\ UNCHANGED <<manager, signingOut, provider, presents, logouts, late>>

-----------------------------------------------------------------------------
(* apiFetch. *)

\* refreshMe is called on mount and after completeLogin, the rest by pages.
MayCall(r) ==
    IF r = Account THEN page \in {"loading", "redeemed"} ELSE page = "ready"

At(r, label, token) ==
    /\ pc' = [pc EXCEPT ![r] = label]
    /\ sent' = [sent EXCEPT ![r] = token]

\* getAccessToken: the stored token, or a renewed one if it has expired.
Begin(r) ==
    /\ pc[r] = "idle" /\ MayCall(r)
    /\ \/ /\ ~manager \/ user = None
          /\ At(r, "sent", None)
          /\ UNCHANGED <<store, me, renewal, presents>>
       \/ /\ manager /\ user # None /\ ~expired
          /\ At(r, "sent", user)
          /\ UNCHANGED <<store, me, renewal, presents>>
       \/ /\ manager /\ user # None /\ expired /\ CannotRenew
          /\ SessionOver
          /\ At(r, "sent", None)
          /\ UNCHANGED <<renewal, presents>>
       \/ /\ manager /\ user # None /\ expired /\ ~CannotRenew
          /\ Presents
          /\ At(r, "waiting", None)
          /\ UNCHANGED <<store, me, cut>>
    /\ UNCHANGED <<shown, signingOut, provider, logouts, late>>

Ends(r, threw) ==
    /\ At(r, "idle", None)
    /\ IF r = Account THEN Settled(threw) ELSE UNCHANGED <<page, atCallback>>

\* A 200. refreshMe shows the account, whatever became of the session since.
Accepted(r) ==
    /\ pc[r] \in {"sent", "resent"} /\ sent[r] # None
    /\ Ends(r, FALSE)
    /\ me' = (me \/ r = Account)
    /\ late' = IF r = Account THEN user = None ELSE late
    /\ UNCHANGED <<store, manager, renewal, signingOut, provider, presents, logouts>>

\* A 401 that a renewal may cure: the call waits for one.
RefusedAtFirst(r) ==
    /\ pc[r] = "sent" /\ sent[r] # None /\ ~CannotRenew
    /\ Presents
    /\ pc' = [pc EXCEPT ![r] = "again"]
    /\ UNCHANGED <<store, shown, me, sent, signingOut, provider, cut, logouts, late>>

\* A 401 that is the answer: no token was sent, none can be had, or it is the
\* second. refreshMe then shows nobody.
Refused(r) ==
    /\ \/ pc[r] = "sent" /\ sent[r] # None /\ CannotRenew
          /\ user' = None /\ expired' = FALSE
       \/ pc[r] = "sent" /\ sent[r] = None /\ UNCHANGED store
       \/ pc[r] = "resent" /\ UNCHANGED store
    /\ Ends(r, FALSE)
    /\ me' = IF r = Account \/ (user # None /\ user' = None) THEN FALSE ELSE me
    /\ UNCHANGED <<manager, renewal, signingOut, provider, presents, logouts, late>>

\* No answer, or any other status.
Fails(r) ==
    /\ pc[r] \in {"sent", "resent"}
    /\ Ends(r, TRUE)
    /\ UNCHANGED <<store, manager, me, renewal, signingOut, provider, presents, logouts, late>>

-----------------------------------------------------------------------------
(* Time and the provider. *)

Expire ==
    /\ user # None /\ ~expired
    /\ expired' = TRUE
    /\ UNCHANGED <<user, shown, me, fetches, renewal, signingOut, provider, presents, logouts, late>>

Revoke(t) ==
    /\ t \in live
    /\ live' = live \ {t}
    /\ UNCHANGED <<store, shown, me, fetches, renewal, signingOut, offline, issued, presents, logouts, late>>

Next ==
    \/ \E b \in BOOLEAN : Mount(b) \/ Unload(b)
    \/ Redeemed \/ RedeemFails
    \/ Logout \/ SignoutRedirect \/ NoSignoutPage
    \/ Expiring \/ Rotate \/ Renewed \/ RenewalFails
    \/ \E r \in Calls : Begin(r) \/ Accepted(r) \/ RefusedAtFirst(r) \/ Refused(r) \/ Fails(r)
    \/ Expire \/ \E t \in Session : Revoke(t)

Spec == Init /\ [][Next]_vars

-----------------------------------------------------------------------------
(* Properties. *)

\* Every variable has its type, a call that waits for a renewal has one to
\* wait for, and nothing is in flight on a page that is not there.
TypeOK ==
    /\ user \in Session \cup {None} /\ expired \in BOOLEAN
    /\ page \in Page /\ atCallback \in BOOLEAN /\ manager \in BOOLEAN /\ me \in BOOLEAN
    /\ pc \in [Calls -> Label] /\ sent \in [Calls -> Session \cup {None}]
    /\ asking \in Session \cup {None} /\ answer \in Session \cup {None}
    /\ signingOut \in BOOLEAN /\ offline \in BOOLEAN
    /\ issued \in 0 .. MaxSessions /\ live \subseteq Session
    /\ used \subseteq Session /\ twice \subseteq Session /\ cut \subseteq Session
    /\ loggedOut \in BOOLEAN /\ overtaken \in BOOLEAN /\ late \in BOOLEAN
    /\ asking = None => answer = None /\ \A r \in Calls : pc[r] \notin Waiting
    /\ page = "blank" => asking = None /\ \A r \in Calls : pc[r] = "idle"

\* A refresh token is presented once: concurrent callers share a renewal and
\* a failed one ends the session, so a provider that rotates refresh tokens
\* never sees one again. The exception is a page unloaded with a renewal in
\* flight: the next page finds the consumed token in sessionStorage.
RefreshTokenOnce == twice \subseteq cut

\* A call is repeated after a 401 with another token than the refused one,
\* though any caller may have started the renewal, for whichever session.
RetryIsFresh ==
    [][\A r \in Calls :
          pc[r] = "again" /\ pc'[r] = "resent" => sent'[r] # sent[r]]_vars

\* After a logout nothing is stored until the next login, but what a renewal
\* brings back that was in flight at the logout.
LogoutHolds == loggedOut /\ user # None => overtaken

\* Someone is shown as signed in only while a session is stored, or because
\* the account was loaded with a token whose session ended on the way.
ShownHasSession == me /\ user = None => late

=============================================================================
