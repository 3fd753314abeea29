-------------------------- MODULE OidcSessionProofs --------------------------
(***************************************************************************)
(* Theorems about OidcSession, for any number of calls and sessions.       *)
(***************************************************************************)
EXTENDS OidcSession, TLAPS

\* Sessions are numbered as issued, and the next one is in nobody's hands.
IssuedInv ==
    /\ user <= issued /\ answer <= issued
    /\ \A t \in used : t <= issued
    /\ \A r \in Calls : sent[r] <= issued
    /\ answer # None => answer \notin used /\ answer # user /\ \A r \in Calls : sent[r] # answer

\* The stored refresh token was presented only if its renewal is in flight,
\* or was when a page was unloaded.
PresentedInv ==
    /\ asking # None => asking \in used
    /\ user \in used => user = asking \/ user \in cut
    /\ RefreshTokenOnce

\* After a logout no renewal was in flight at, none begins.
LogoutInv == loggedOut /\ ~overtaken => user = None /\ asking = None

IInv == TypeOK /\ IssuedInv /\ PresentedInv /\ LogoutInv /\ ShownHasSession

USE AccountDistinct, SessionsBounded

LEMMA InitInv == Init => IInv
<1> SUFFICES ASSUME Init PROVE IInv
  OBVIOUS
<1>1. TypeOK
  <2>1. pc \in [Calls -> Label] /\ sent \in [Calls -> Session \cup {None}]
    BY DEF Init, Label
  <2>2. \A r \in Calls : pc[r] = "idle" /\ pc[r] \notin Waiting
    BY DEF Init, Waiting
  <2>3. page \in Page /\ issued \in 0 .. MaxSessions
    BY DEF Init, Page
  <2> QED
    BY <2>1, <2>2, <2>3 DEF Init, TypeOK
<1>2. IssuedInv
  BY DEF Init, IssuedInv, None
<1>3. PresentedInv /\ LogoutInv /\ ShownHasSession
  BY DEF Init, PresentedInv, RefreshTokenOnce, LogoutInv, ShownHasSession
<1> QED
  BY <1>1, <1>2, <1>3 DEF IInv

\* Steps of the page, the clock and the provider, which present nothing and
\* wake no call.
LEMMA PageInv ==
    ASSUME IInv,
           \/ \E b \in BOOLEAN : Mount(b)
           \/ RedeemFails \/ NoSignoutPage \/ Expire
           \/ \E t \in Session : Revoke(t)
    PROVE  IInv'
<1>1. UNCHANGED <<user, me, pc, sent, asking, answer, offline, issued, used, twice, cut, loggedOut,
                  overtaken, late>>
  BY DEF Mount, RedeemFails, NoSignoutPage, Expire, Revoke, store, fetches, renewal, provider,
         presents, logouts
<1>2. /\ page' \in Page /\ (page' = "blank" => page = "blank")
      /\ expired' \in BOOLEAN /\ atCallback' \in BOOLEAN /\ manager' \in BOOLEAN
      /\ signingOut' \in BOOLEAN /\ live' \subseteq Session
  BY DEF Mount, RedeemFails, NoSignoutPage, Expire, Revoke, store, shown, provider, IInv, TypeOK,
         Page
<1>3. TypeOK'
  BY <1>1, <1>2 DEF IInv, TypeOK
<1> QED
  BY <1>1, <1>3 DEF IInv, IssuedInv, PresentedInv, LogoutInv, ShownHasSession, RefreshTokenOnce

LEMMA UnloadInv ==
    ASSUME IInv, NEW b \in BOOLEAN, Unload(b)
    PROVE  IInv'
<1>1. TypeOK'
  BY DEF IInv, TypeOK, Unload, store, provider, logouts, Page, None, Session, Label, Waiting
<1>2. IssuedInv' /\ PresentedInv'
  BY DEF IInv, TypeOK, IssuedInv, PresentedInv, RefreshTokenOnce, Unload, store, provider, None,
         Session
<1>3. LogoutInv' /\ ShownHasSession'
  BY DEF IInv, LogoutInv, ShownHasSession, Unload, store, logouts, None
<1> QED
  BY <1>1, <1>2, <1>3 DEF IInv

LEMMA RedeemedInv ==
    ASSUME IInv, Redeemed
    PROVE  IInv'
<1>1. TypeOK'
  <2>1. issued + 1 \in Session /\ issued + 1 \in 0 .. MaxSessions /\ page' = "redeemed"
    BY DEF Redeemed, IInv, TypeOK, Session
  <2>2. user' \in Session /\ live' \subseteq Session /\ issued' \in 0 .. MaxSessions
    BY <2>1 DEF Redeemed, IInv, TypeOK
  <2> QED
    BY <2>1, <2>2 DEF IInv, TypeOK, Redeemed, fetches, renewal, presents, Page
<1>2. IssuedInv' /\ PresentedInv'
  <2>1. user' = issued + 1 /\ issued' = issued + 1 /\ issued \in Nat
        /\ UNCHANGED <<sent, asking, answer, used, twice, cut>>
    BY DEF Redeemed, IInv, TypeOK, fetches, renewal, presents
  <2>2. issued + 1 \notin used /\ \A t \in used : t \in Nat
    BY <2>1 DEF IInv, TypeOK, IssuedInv, Session
  <2>3. IssuedInv'
    BY <2>1, <2>2 DEF IInv, TypeOK, IssuedInv, None, Session
  <2> QED
    BY <2>1, <2>2, <2>3 DEF IInv, PresentedInv, RefreshTokenOnce
<1>3. LogoutInv' /\ ShownHasSession'
  BY DEF IInv, TypeOK, LogoutInv, ShownHasSession, Redeemed, None
<1> QED
  BY <1>1, <1>2, <1>3 DEF IInv

LEMMA LogoutsInv ==
    ASSUME IInv, Logout \/ SignoutRedirect
    PROVE  IInv'
<1>1. TypeOK'
  BY DEF IInv, TypeOK, Logout, SignoutRedirect, shown, fetches, renewal, provider, presents,
         logouts, None
<1>2. IssuedInv' /\ PresentedInv'
  <2>1. user' = None /\ None \notin used
        /\ UNCHANGED <<sent, asking, answer, issued, used, twice, cut>>
    BY DEF Logout, SignoutRedirect, fetches, renewal, provider, presents, IInv, TypeOK, None,
           Session
  <2>2. IssuedInv'
    BY <2>1 DEF IInv, TypeOK, IssuedInv, None
  <2> QED
    BY <2>1, <2>2 DEF IInv, PresentedInv, RefreshTokenOnce
<1>3. LogoutInv' /\ ShownHasSession'
  BY DEF IInv, TypeOK, LogoutInv, ShownHasSession, Logout, SignoutRedirect, renewal, logouts
<1> QED
  BY <1>1, <1>2, <1>3 DEF IInv

\* A call to renewAccessToken that waits: what it may have presented was not
\* presented before, or was in flight at an unload.
LEMMA PresentsInv ==
    ASSUME IInv, Presents, ~CannotRenew, page # "blank",
           UNCHANGED <<user, me, page, offline, issued, cut, loggedOut, overtaken, late>>
    PROVE  /\ asking' \in Session /\ answer' \in Session \cup {None}
           /\ used' \subseteq Session /\ twice' \subseteq Session
           /\ \A t \in used' : t <= issued
           /\ answer' <= issued
           /\ answer' # None => answer' = answer /\ used' = used
           /\ PresentedInv' /\ LogoutInv' /\ ShownHasSession'
<1>1. CASE Joins
  BY <1>1 DEF Presents, Joins, IInv, TypeOK, IssuedInv, PresentedInv, RefreshTokenOnce, LogoutInv,
              ShownHasSession
<1>2. CASE ~Joins
  <2>1. user \in Session /\ asking = None
    BY <1>2 DEF CannotRenew, Joins, IInv, TypeOK
  <2>2. asking' = user /\ answer' = None /\ used' = used \cup {user}
    BY <1>2 DEF Presents
  <2>3. user \in used => user \in cut
    BY <2>1 DEF IInv, PresentedInv, None, Session
  <2>4. twice' \subseteq twice \cup {user} /\ (user \notin cut => twice' = twice)
    BY <1>2, <2>3 DEF Presents
  <2>5. PresentedInv'
    BY <2>1, <2>2, <2>3, <2>4 DEF IInv, PresentedInv, RefreshTokenOnce
  <2>6. LogoutInv' /\ ShownHasSession'
    BY <2>1, <2>2 DEF IInv, LogoutInv, ShownHasSession, None, Session
  <2> QED
    BY <2>1, <2>2, <2>4, <2>5, <2>6 DEF IInv, TypeOK, IssuedInv, None, Session
<1> QED
  BY <1>1, <1>2

LEMMA ExpiringInv ==
    ASSUME IInv, Expiring
    PROVE  IInv'
<1>1. UNCHANGED <<page, atCallback, manager, pc, sent, signingOut, offline, issued, live, loggedOut,
                  overtaken, late>>
  BY DEF Expiring, shown, fetches, provider, logouts
<1>2. CASE CannotRenew
  <2>1. SessionOver /\ UNCHANGED <<asking, answer, used, twice, cut>>
    BY <1>2 DEF Expiring, renewal, presents
  <2>2. user' = None /\ me' = FALSE
    BY <2>1 DEF SessionOver, Expiring
  <2>3. TypeOK' /\ LogoutInv' /\ ShownHasSession'
    BY <1>1, <2>1, <2>2 DEF IInv, TypeOK, SessionOver, LogoutInv, ShownHasSession
  <2>4. IssuedInv' /\ PresentedInv'
    BY <1>1, <2>1, <2>2 DEF IInv, TypeOK, IssuedInv, PresentedInv, RefreshTokenOnce, None, Session
  <2> QED
    BY <2>3, <2>4 DEF IInv
<1>3. CASE ~CannotRenew
  <2>1. Presents /\ page # "blank" /\ UNCHANGED <<user, expired, me, cut>>
    BY <1>3 DEF Expiring, store
  <2>2. /\ asking' \in Session /\ answer' \in Session \cup {None}
        /\ used' \subseteq Session /\ twice' \subseteq Session
        /\ \A t \in used' : t <= issued
        /\ answer' <= issued
        /\ answer' # None => answer' = answer /\ used' = used
        /\ PresentedInv' /\ LogoutInv' /\ ShownHasSession'
    BY <1>1, <1>3, <2>1, PresentsInv
  <2>3. TypeOK'
    BY <1>1, <2>1, <2>2 DEF IInv, TypeOK, None, Session
  <2>4. IssuedInv'
    BY <1>1, <2>1, <2>2 DEF IInv, IssuedInv
  <2> QED
    BY <2>2, <2>3, <2>4 DEF IInv
<1> QED
  BY <1>2, <1>3

LEMMA RotateInv ==
    ASSUME IInv, Rotate
    PROVE  IInv'
<1>1. issued' = issued + 1 /\ answer' = issued + 1 /\ issued' \in 0 .. MaxSessions
      /\ UNCHANGED <<user, expired, page, atCallback, manager, me, pc, sent, asking, signingOut,
                     offline, used, twice, cut, loggedOut, overtaken, late>>
  BY DEF Rotate, store, shown, fetches, presents, logouts, IInv, TypeOK
<1>2. asking # None /\ live' \subseteq Session
  BY DEF Rotate, IInv, TypeOK, None, Session
<1>3. TypeOK'
  BY <1>1, <1>2 DEF IInv, TypeOK, Session
<1>4. IssuedInv'
  BY <1>1 DEF IInv, TypeOK, IssuedInv, None, Session
<1>5. PresentedInv' /\ LogoutInv' /\ ShownHasSession'
  BY <1>1 DEF IInv, PresentedInv, RefreshTokenOnce, LogoutInv, ShownHasSession
<1> QED
  BY <1>3, <1>4, <1>5 DEF IInv

\* The callers a renewal wakes send what it brought, or have their answer.
LEMMA ResumeKeeps ==
    ASSUME IInv, NEW token \in Session \cup {None}, Resume(token), token <= issued
    PROVE  /\ pc' \in [Calls -> Label] /\ sent' \in [Calls -> Session \cup {None}]
           /\ \A r \in Calls : pc'[r] \notin Waiting
           /\ \A r \in Calls : sent'[r] <= issued
           /\ \A r \in Calls : pc[r] = "idle" => pc'[r] = "idle"
BY DEF Resume, IInv, TypeOK, IssuedInv, Label, Waiting

LEMMA RenewedInv ==
    ASSUME IInv, Renewed
    PROVE  IInv'
<1>1. /\ answer # None /\ answer \in Session /\ asking # None
      /\ user' = answer /\ expired' = FALSE /\ asking' = None /\ answer' = None /\ Resume(answer)
      /\ UNCHANGED <<page, atCallback, manager, me, signingOut, offline, issued, live, used, twice,
                     cut, loggedOut, overtaken, late>>
  BY DEF Renewed, shown, provider, presents, logouts, IInv, TypeOK
<1>2. /\ pc' \in [Calls -> Label] /\ sent' \in [Calls -> Session \cup {None}]
      /\ \A r \in Calls : pc'[r] \notin Waiting
      /\ \A r \in Calls : sent'[r] <= issued
      /\ \A r \in Calls : pc[r] = "idle" => pc'[r] = "idle"
  BY <1>1, ResumeKeeps DEF IInv, IssuedInv
<1>3. TypeOK'
  BY <1>1, <1>2 DEF IInv, TypeOK, None
<1>4. IssuedInv' /\ PresentedInv'
  BY <1>1, <1>2 DEF IInv, TypeOK, IssuedInv, PresentedInv, RefreshTokenOnce, None, Session
<1>5. LogoutInv' /\ ShownHasSession'
  BY <1>1 DEF IInv, LogoutInv, ShownHasSession
<1> QED
  BY <1>3, <1>4, <1>5 DEF IInv

\* Settled only moves a page that is there.
LEMMA SettledKeeps ==
    ASSUME IInv, NEW threw \in BOOLEAN, Settled(threw), page # "blank"
    PROVE  page' \in Page /\ page' # "blank" /\ atCallback' \in BOOLEAN
BY DEF Settled, IInv, TypeOK, Page

LEMMA RenewalFailsInv ==
    ASSUME IInv, RenewalFails
    PROVE  IInv'
<1>1. /\ asking # None /\ page # "blank"
      /\ user' = None /\ expired' = FALSE /\ me' = FALSE /\ asking' = None /\ answer' = None
      /\ Resume(None)
      /\ UNCHANGED <<manager, signingOut, offline, issued, live, used, twice, cut, loggedOut,
                     overtaken, late>>
  BY DEF RenewalFails, provider, presents, logouts, IInv, TypeOK
<1>2. page' \in Page /\ page' # "blank" /\ atCallback' \in BOOLEAN
  BY <1>1, SettledKeeps DEF RenewalFails, IInv, TypeOK
<1>3. /\ pc' \in [Calls -> Label] /\ sent' \in [Calls -> Session \cup {None}]
      /\ \A r \in Calls : pc'[r] \notin Waiting
      /\ \A r \in Calls : sent'[r] <= issued
  BY <1>1, ResumeKeeps DEF IInv, TypeOK, None
<1>4. TypeOK'
  BY <1>1, <1>2, <1>3 DEF IInv, TypeOK, None
<1>5. IssuedInv' /\ PresentedInv' /\ LogoutInv' /\ ShownHasSession'
  BY <1>1, <1>3 DEF IInv, TypeOK, IssuedInv, PresentedInv, RefreshTokenOnce, LogoutInv,
                    ShownHasSession, None, Session
<1> QED
  BY <1>4, <1>5 DEF IInv

LEMMA BeginInv ==
    ASSUME IInv, NEW r \in Calls, Begin(r)
    PROVE  IInv'
<1>1. /\ UNCHANGED <<page, atCallback, manager, signingOut, offline, issued, live, loggedOut,
                     overtaken, late>>
      /\ page # "blank" /\ pc[r] = "idle"
  BY DEF Begin, MayCall, shown, provider, logouts
<1>2. CASE /\ \E token \in {None, user} : At(r, "sent", token)
           /\ UNCHANGED <<user, expired, me, asking, answer, used, twice, cut>>
  <2>1. PICK token \in {None, user} : At(r, "sent", token)
    BY <1>2
  <2>2. TypeOK'
    BY <1>1, <1>2, <2>1 DEF IInv, TypeOK, At, Label, Waiting
  <2>3. IssuedInv'
    BY <1>1, <1>2, <2>1 DEF IInv, TypeOK, IssuedInv, At, None, Session
  <2> QED
    BY <1>1, <1>2, <2>2, <2>3
    DEF IInv, PresentedInv, RefreshTokenOnce, LogoutInv, ShownHasSession
<1>3. CASE /\ SessionOver /\ user # None /\ At(r, "sent", None)
           /\ UNCHANGED <<asking, answer, used, twice, cut>>
  <2>1. TypeOK'
    BY <1>1, <1>3 DEF IInv, TypeOK, SessionOver, At, Label, Waiting
  <2>2. IssuedInv'
    BY <1>1, <1>3 DEF IInv, TypeOK, IssuedInv, SessionOver, At, None, Session
  <2>3. PresentedInv' /\ LogoutInv' /\ ShownHasSession'
    BY <1>1, <1>3 DEF IInv, TypeOK, PresentedInv, RefreshTokenOnce, LogoutInv, ShownHasSession,
                      SessionOver, None, Session
  <2> QED
    BY <2>1, <2>2, <2>3 DEF IInv
<1>4. CASE /\ Presents /\ ~CannotRenew /\ At(r, "waiting", None)
           /\ UNCHANGED <<user, expired, me, cut>>
  <2>1. /\ asking' \in Session /\ answer' \in Session \cup {None}
        /\ used' \subseteq Session /\ twice' \subseteq Session
        /\ \A t \in used' : t <= issued
        /\ answer' <= issued
        /\ answer' # None => answer' = answer /\ used' = used
        /\ PresentedInv' /\ LogoutInv' /\ ShownHasSession'
    BY <1>1, <1>4, PresentsInv
  <2>2. TypeOK'
    BY <1>1, <1>4, <2>1 DEF IInv, TypeOK, At, Label, Waiting, None, Session
  <2>3. IssuedInv'
    BY <1>1, <1>4, <2>1 DEF IInv, TypeOK, IssuedInv, At, None, Session
  <2> QED
    BY <2>1, <2>2, <2>3 DEF IInv
<1> QED
  BY <1>2, <1>3, <1>4 DEF Begin, store, renewal, presents

LEMMA RefusedAtFirstInv ==
    ASSUME IInv, NEW r \in Calls, RefusedAtFirst(r)
    PROVE  IInv'
<1>1. /\ Presents /\ ~CannotRenew /\ page # "blank" /\ pc' = [pc EXCEPT ![r] = "again"]
      /\ UNCHANGED <<user, expired, page, atCallback, manager, me, sent, signingOut, offline,
                     issued, live, cut, loggedOut, overtaken, late>>
  BY DEF RefusedAtFirst, store, shown, provider, logouts, IInv, TypeOK
<1>2. /\ asking' \in Session /\ answer' \in Session \cup {None}
      /\ used' \subseteq Session /\ twice' \subseteq Session
      /\ \A t \in used' : t <= issued
      /\ answer' <= issued
      /\ answer' # None => answer' = answer /\ used' = used
      /\ PresentedInv' /\ LogoutInv' /\ ShownHasSession'
  BY <1>1, PresentsInv
<1>3. TypeOK'
  BY <1>1, <1>2 DEF IInv, TypeOK, Label, None, Session
<1>4. IssuedInv'
  BY <1>1, <1>2 DEF IInv, IssuedInv
<1> QED
  BY <1>2, <1>3, <1>4 DEF IInv

LEMMA EndsInv ==
    ASSUME IInv, NEW r \in Calls, Accepted(r) \/ Refused(r) \/ Fails(r)
    PROVE  IInv'
<1>1. /\ pc[r] \in {"sent", "resent"} /\ page # "blank"
      /\ \E threw \in BOOLEAN : Ends(r, threw)
      /\ UNCHANGED <<manager, asking, answer, signingOut, offline, issued, live, used, twice, cut,
                     loggedOut, overtaken>>
  BY DEF Accepted, Refused, Fails, renewal, provider, presents, logouts, IInv, TypeOK
<1>2. /\ At(r, "idle", None)
      /\ page' \in Page /\ page' # "blank" /\ atCallback' \in BOOLEAN
  BY <1>1, SettledKeeps DEF Ends, IInv, TypeOK
<1>3. /\ user' \in {user, None} /\ expired' \in BOOLEAN /\ me' \in BOOLEAN /\ late' \in BOOLEAN
      /\ ShownHasSession'
  <2>1. CASE Accepted(r)
    BY <2>1 DEF Accepted, store, IInv, TypeOK, ShownHasSession
  <2>2. CASE Refused(r)
    BY <2>2 DEF Refused, store, IInv, TypeOK, ShownHasSession
  <2>3. CASE Fails(r)
    BY <2>3 DEF Fails, store, IInv, TypeOK, ShownHasSession
  <2> QED
    BY <2>1, <2>2, <2>3
<1>4. TypeOK'
  BY <1>1, <1>2, <1>3 DEF IInv, TypeOK, At, Label, Waiting, None
<1>5. IssuedInv'
  BY <1>1, <1>2, <1>3 DEF IInv, TypeOK, IssuedInv, At, None, Session
<1>6. PresentedInv' /\ LogoutInv'
  BY <1>1, <1>3 DEF IInv, TypeOK, PresentedInv, RefreshTokenOnce, LogoutInv, None, Session
<1> QED
  BY <1>3, <1>4, <1>5, <1>6 DEF IInv

LEMMA NextInv == IInv /\ [Next]_vars => IInv'
<1> SUFFICES ASSUME IInv, [Next]_vars PROVE IInv'
  OBVIOUS
<1>1. CASE UNCHANGED vars
  BY <1>1 DEF vars, store, shown, fetches, renewal, provider, presents, logouts, IInv, TypeOK,
              IssuedInv, PresentedInv, RefreshTokenOnce, LogoutInv, ShownHasSession
<1>2. CASE Next
  BY <1>2, PageInv, UnloadInv, RedeemedInv, LogoutsInv, ExpiringInv, RotateInv, RenewedInv,
     RenewalFailsInv, BeginInv, RefusedAtFirstInv, EndsInv DEF Next
<1> QED
  BY <1>1, <1>2

THEOREM Invariant == Spec => []IInv
BY InitInv, NextInv, PTL DEF Spec

-----------------------------------------------------------------------------
(* The theorems. *)

\* Every reachable state is well typed, and no call waits for a renewal that
\* is not in flight (renewAccessToken's shared promise and its finally).
THEOREM TypeCorrect == Spec => []TypeOK
BY Invariant, PTL DEF IInv

\* A refresh token is presented twice only after a page was unloaded with
\* its renewal in flight (renewAccessToken).
THEOREM PresentedOnce == Spec => []RefreshTokenOnce
BY Invariant, PTL DEF IInv, PresentedInv

\* After a logout only a renewal that was in flight stores a session
\* (logoutOidc, and renewAccessToken's return when nobody is stored).
THEOREM LogoutEndsSession == Spec => []LogoutHolds
<1>1. IInv => LogoutHolds
  BY DEF IInv, LogoutInv, LogoutHolds
<1> QED
  BY <1>1, Invariant, PTL

\* Whoever is shown as signed in has a session, or had one when the account
\* was asked for (onSsoSessionEnded against refreshMe).
THEOREM ShownIsStored == Spec => []ShownHasSession
BY Invariant, PTL DEF IInv

\* A call refused once is repeated with another token (apiFetch).
THEOREM RetriesAreFresh == Spec => RetryIsFresh
<1>1. IInv /\ [Next]_vars =>
        [\A r \in Calls : pc[r] = "again" /\ pc'[r] = "resent" => sent'[r] # sent[r]]_vars
  <2> SUFFICES ASSUME IInv, Next, NEW r \in Calls, pc[r] = "again", pc'[r] = "resent"
               PROVE  sent'[r] # sent[r]
    BY DEF vars
  <2>1. Renewed \/ RenewalFails
    BY DEF Next, Mount, Unload, Redeemed, RedeemFails, Logout, SignoutRedirect, NoSignoutPage,
           Expiring, Rotate, Begin, Accepted, RefusedAtFirst, Refused, Fails, Ends, At, Expire,
           Revoke, fetches, IInv, TypeOK
  <2>2. CASE Renewed
    BY <2>2 DEF Renewed, Resume, Waiting, IInv, IssuedInv, TypeOK
  <2>3. CASE RenewalFails
    BY <2>3 DEF RenewalFails, Resume, IInv, TypeOK
  <2> QED
    BY <2>1, <2>2, <2>3
<1> QED
  BY <1>1, Invariant, PTL DEF Spec, RetryIsFresh

=============================================================================
