------------------------------- MODULE Process -------------------------------
(***************************************************************************)
(* The life of the process: main.go's run (open, serve, Runner.Run, shut   *)
(* down, close), the HTTP handlers that run beside it, and, when installed *)
(* as a Windows service, service_windows.go's stop.                        *)
(*                                                                         *)
(* What makes the shutdown hard is that a request's context is not the     *)
(* process's: cancelling the latter ends the loop's own work, while a      *)
(* manual sync or a change goes on, with the lock the loop may want next,  *)
(* and so does a request that waits for the SSO provider's discovery,      *)
(* which runs under the verifier cache's mutex.                            *)
(*                                                                         *)
(* Time passes in ticks. What the code bounds by a timeout or ends on      *)
(* cancellation does not outlast it; what a handler does has no bound.     *)
(***************************************************************************)
EXTENDS Naturals

CONSTANTS
    Handlers,           \* requests served at a time
    Loop,               \* the goroutine of run, which becomes Runner.Run's
    Nobody,
    Grace,              \* srv.Shutdown's timeout, in ticks
    DiscoveryTimeout,   \* oidcTimeout
    StopTimeout         \* stopTimeout

ASSUME ActorsDistinct == Loop \notin Handlers /\ Nobody \notin Handlers \cup {Loop}
ASSUME Timeouts ==
    /\ Grace \in Nat /\ DiscoveryTimeout \in Nat /\ StopTimeout \in Nat
    /\ Grace <= StopTimeout

Locks == {"writeMu", "syncMu"}

VARIABLES
    loop,       \* where run is
    cancelled,  \* its context
    serving,    \* the web server accepts requests
    open,       \* the databases are open
    holder,     \* lock of the Runner -> who holds it
    handling,   \* handler -> where it is
    verifying,  \* who holds ssoVerifierCache.mu
    cached,     \* the verifier has been built
    elapsed,    \* ticks the discovery in progress has taken
    waited,     \* history: handler -> ticks at the verifier cache, since a discovery failed
    grace,      \* ticks Shutdown still waits
    service,    \* the service's state, or "console"
    stopLeft,   \* ticks handleRequest still waits
    gaveUp,     \* history: Shutdown returned with handlers running
    spent,      \* history: ticks since the cancellation, not waiting for a lock
    blocked     \* history: ticks since the cancellation, waiting for one

http  == <<serving, handling>>
cache == <<verifying, cached, elapsed, waited>>
scm   == <<service, stopLeft>>
late  == <<spent, blocked>>
vars  == <<loop, cancelled, open, holder, http, cache, grace, scm, gaveUp, late>>

LoopLabel == {"opening", "first", "applying", "sleep", "tick", "due", "syncing", "shutdown",
              "returned"}
Service   == {"console", "running", "stopping", "stopped"}

\* The lock run waits for, where it waits for one: Run's first apply takes
\* writeMu, and every scheduled sync syncMu.
Wanted == CASE loop = "first" -> "writeMu" [] loop = "due" -> "syncMu" [] OTHER -> "none"

Busy      == {h \in Handlers : handling[h] # "none"}
Verifying == {h \in Handlers : handling[h] = "verify"}

\* A process just started.
Started ==
    /\ loop' = "opening" /\ cancelled' = FALSE /\ open' = FALSE
    /\ holder' = [l \in Locks |-> Nobody]
    /\ serving' = FALSE /\ handling' = [h \in Handlers |-> "none"]
    /\ verifying' = Nobody /\ cached' = FALSE /\ elapsed' = 0
    /\ waited' = [h \in Handlers |-> 0]
    /\ grace' = 0 /\ stopLeft' = 0 /\ gaveUp' = FALSE
    /\ spent' = 0 /\ blocked' = 0

Init ==
    /\ loop = "opening" /\ cancelled = FALSE /\ open = FALSE
    /\ holder = [l \in Locks |-> Nobody]
    /\ serving = FALSE /\ handling = [h \in Handlers |-> "none"]
    /\ verifying = Nobody /\ cached = FALSE /\ elapsed = 0
    /\ waited = [h \in Handlers |-> 0]
    /\ grace = 0 /\ stopLeft = 0 /\ gaveUp = FALSE
    /\ spent = 0 /\ blocked = 0
    /\ service \in {"console", "running"}

-----------------------------------------------------------------------------
(* run. *)

\* The bootstrap file, the config database and its contents are there.
Opened ==
    /\ loop = "opening"
    /\ loop' = "first"
    /\ open' = TRUE /\ serving' = TRUE
    /\ UNCHANGED <<cancelled, holder, handling, cache, grace, scm, gaveUp, late>>

OpenFails ==
    /\ loop = "opening"
    /\ loop' = "returned"
    /\ UNCHANGED <<cancelled, open, holder, http, cache, grace, scm, gaveUp, late>>

\* The address is taken: logged, and the sync goes on without a web server.
ListenFails ==
    /\ serving /\ loop # "shutdown" /\ Busy = {}
    /\ serving' = FALSE
    /\ UNCHANGED <<loop, cancelled, open, holder, handling, cache, grace, scm, gaveUp, late>>

LoopLocks ==
    /\ Wanted # "none" /\ holder[Wanted] = Nobody
    /\ holder' = [holder EXCEPT ![Wanted] = Loop]
    /\ loop' = IF loop = "first" THEN "applying" ELSE "syncing"
    /\ UNCHANGED <<cancelled, open, http, cache, grace, scm, gaveUp, late>>

\* The apply or the sync ends: whatever its outcome, at once when cancelled.
LoopUnlocks ==
    /\ loop \in {"applying", "syncing"}
    /\ holder' = [l \in Locks |-> IF holder[l] = Loop THEN Nobody ELSE holder[l]]
    /\ loop' = IF loop = "applying" THEN "tick" ELSE "sleep"
    /\ UNCHANGED <<cancelled, open, http, cache, grace, scm, gaveUp, late>>

\* tick: something is due, or nothing is or there is no configuration.
LooksForDue ==
    /\ loop = "tick"
    /\ loop' \in {"due", "sleep"}
    /\ UNCHANGED <<cancelled, open, holder, http, cache, grace, scm, gaveUp, late>>

\* The timer or wake: also when the context is done, for select has no order.
Wakes ==
    /\ loop = "sleep"
    /\ loop' = "tick"
    /\ UNCHANGED <<cancelled, open, holder, http, cache, grace, scm, gaveUp, late>>

\* Slip: the databases' deferred closes run before the web server's.
ClosesFirst ==
    /\ loop = "sleep" /\ cancelled
    /\ loop' = "shutdown"
    /\ serving' = FALSE /\ open' = FALSE /\ grace' = Grace
    /\ UNCHANGED <<cancelled, holder, handling, cache, scm, gaveUp, late>>

\* Slip: the web server gets as long as the service manager waits.
GenerousShutdown ==
    /\ loop = "sleep" /\ cancelled
    /\ loop' = "shutdown"
    /\ serving' = FALSE /\ grace' = StopTimeout
    /\ UNCHANGED <<cancelled, open, holder, handling, cache, scm, gaveUp, late>>

\* Run returns, and the first deferred call begins: srv.Shutdown.
Stops ==
    /\ loop = "sleep" /\ cancelled
    /\ loop' = "shutdown"
    /\ serving' = FALSE /\ grace' = Grace
    /\ UNCHANGED <<cancelled, open, holder, handling, cache, scm, gaveUp, late>>

\* Slip: Shutdown without a deadline.
PatientShutdown ==
    /\ loop = "shutdown" /\ Busy = {}
    /\ loop' = "returned"
    /\ open' = FALSE
    /\ UNCHANGED <<gaveUp, cancelled, holder, http, cache, grace, scm, late>>

\* Shutdown returns, with every handler done or its time up; then the other
\* deferred calls close the databases.
Closes ==
    /\ loop = "shutdown" /\ (Busy = {} \/ grace = 0)
    /\ loop' = "returned"
    /\ open' = FALSE
    /\ gaveUp' = (Busy # {})
    /\ UNCHANGED <<cancelled, holder, http, cache, grace, scm, late>>

-----------------------------------------------------------------------------
(* Requests. *)

\* requireUser: the token is taken to the verifier cache.
Arrive(h) ==
    /\ serving /\ handling[h] = "none"
    /\ handling' = [handling EXCEPT ![h] = "verify"]
    /\ waited' = [waited EXCEPT ![h] = 0]
    /\ UNCHANGED <<loop, cancelled, open, holder, serving, verifying, cached, elapsed, grace, scm,
                   gaveUp, late>>

\* c.mu.Lock(): sync.Mutex promises no order, a request that has just arrived
\* may have the mutex before one that was woken for it.
TakesCache(h) ==
    /\ handling[h] = "verify" /\ verifying = Nobody
    /\ verifying' = h
    /\ UNCHANGED <<loop, cancelled, open, holder, http, cached, elapsed, waited, grace, scm, gaveUp,
                   late>>

\* The mutex is let go of: everybody's wait begins anew if a discovery failed.
Leaves(found) ==
    /\ handling' = [handling EXCEPT ![verifying] = "serve"]
    /\ verifying' = Nobody
    /\ waited' = IF found THEN [waited EXCEPT ![verifying] = 0] ELSE [h \in Handlers |-> 0]

\* Slip: the request that holds the mutex tries again when discovery fails.
DiscoveryIsRetried(found) ==
    /\ verifying # Nobody
    /\ cached => found
    /\ IF found THEN Leaves(found) ELSE UNCHANGED <<handling, verifying, waited>>
    /\ elapsed' = 0
    /\ cached' = (cached \/ found)
    /\ UNCHANGED <<loop, cancelled, open, holder, serving, grace, scm, gaveUp, late>>

\* The cache has the verifier, or discovery built it, or failed: a failure is
\* the request's own, the next one to hold the mutex tries again.
Verified(found) ==
    /\ verifying # Nobody
    /\ cached => found
    /\ Leaves(found)
    /\ elapsed' = 0
    /\ cached' = (cached \/ found)
    /\ UNCHANGED <<loop, cancelled, open, holder, serving, grace, scm, gaveUp, late>>

\* The handler: a refusal to write to the security log, a change under
\* writeMu, which may purge under syncMu too, or a manual sync under syncMu.
Acquire(h, l) ==
    /\ handling[h] = "serve" /\ holder[l] = Nobody
    /\ l = "writeMu" => holder["syncMu"] # h
    /\ holder' = [holder EXCEPT ![l] = h]
    /\ UNCHANGED <<loop, cancelled, open, http, cache, grace, scm, gaveUp, late>>

Release(h, l) ==
    /\ holder[l] = h
    /\ l = "writeMu" => holder["syncMu"] # h
    /\ holder' = [holder EXCEPT ![l] = Nobody]
    /\ UNCHANGED <<loop, cancelled, open, http, cache, grace, scm, gaveUp, late>>

Answer(h) ==
    /\ handling[h] = "serve" /\ \A l \in Locks : holder[l] # h
    /\ handling' = [handling EXCEPT ![h] = "none"]
    /\ UNCHANGED <<loop, cancelled, open, holder, serving, cache, grace, scm, gaveUp, late>>

-----------------------------------------------------------------------------
(* Signals, the service, and time. *)

\* SIGINT or SIGTERM.
Signal ==
    /\ service = "console" /\ ~cancelled
    /\ cancelled' = TRUE
    /\ UNCHANGED <<loop, open, holder, http, cache, grace, scm, gaveUp, late>>

\* handleRequest: a Stop or Shutdown control.
Stop ==
    /\ service = "running"
    /\ service' = "stopping"
    /\ cancelled' = TRUE
    /\ stopLeft' = StopTimeout
    /\ UNCHANGED <<loop, open, holder, http, cache, grace, gaveUp, late>>

\* Execute ends: run did, asked or not, or the time to wait for it is up.
Stopped ==
    /\ \/ service \in {"running", "stopping"} /\ loop = "returned"
       \/ service = "stopping" /\ stopLeft = 0
    /\ service' = "stopped"
    /\ UNCHANGED <<loop, cancelled, open, holder, http, cache, grace, stopLeft, gaveUp, late>>

\* The process ends with everything in it, and is started again.
Exit ==
    /\ \/ service = "console" /\ loop = "returned" /\ service' = "console"
       \/ service = "stopped" /\ service' = "running"
    /\ Started

\* Cancelled work returns, a free lock is taken, a deadline is kept: none of
\* them lets time go by.
Prompt ==
    /\ cancelled => loop \notin {"opening", "applying", "sleep", "tick", "syncing"}
    /\ cancelled /\ Wanted # "none" => holder[Wanted] # Nobody
    /\ loop = "shutdown" => Busy # {} /\ grace > 0
    /\ Verifying # {} => verifying # Nobody /\ ~cached /\ elapsed < DiscoveryTimeout
    /\ service = "stopping" => loop # "returned" /\ stopLeft > 0
    /\ loop = "returned" => service = "running"
    /\ service # "stopped"

Tick ==
    /\ Prompt
    /\ grace' = IF loop = "shutdown" THEN grace - 1 ELSE grace
    /\ stopLeft' = IF service = "stopping" THEN stopLeft - 1 ELSE stopLeft
    /\ elapsed' = IF Verifying = {} THEN elapsed ELSE elapsed + 1
    /\ waited' = [h \in Handlers |-> IF h \in Verifying THEN waited[h] + 1 ELSE waited[h]]
    /\ IF cancelled /\ Wanted # "none"
       THEN /\ blocked' = IF blocked < StopTimeout THEN blocked + 1 ELSE blocked
            /\ UNCHANGED spent
       ELSE /\ spent' = IF cancelled /\ loop # "returned" THEN spent + 1 ELSE spent
            /\ UNCHANGED blocked
    /\ UNCHANGED <<loop, cancelled, open, holder, http, verifying, cached, service, gaveUp>>

-----------------------------------------------------------------------------

LoopStep ==
    \/ Opened \/ OpenFails \/ LoopUnlocks \/ LooksForDue \/ Wakes \/ Closes

Next ==
    \/ LoopStep \/ LoopLocks \/ Stops \/ ListenFails
    \/ \E h \in Handlers :
          \/ Arrive(h) \/ TakesCache(h) \/ Answer(h)
          \/ \E l \in Locks : Acquire(h, l) \/ Release(h, l)
    \/ \E found \in BOOLEAN : Verified(found)
    \/ Signal \/ Stop \/ Stopped \/ Exit
    \/ Tick

Spec == Init /\ [][Next]_vars

\* The loop is scheduled, gets a lock that becomes free again and again (a
\* sync.Mutex hands itself to a waiter that starved), and its select does not
\* ignore a done context for ever. Whoever holds a lock lets go of it, after a
\* purge under syncMu or a few. Nothing is assumed of handlers that hold none:
\* they may hang.
Fairness ==
    /\ WF_vars(LoopStep) /\ SF_vars(LoopLocks) /\ SF_vars(Stops)
    /\ \A h \in Handlers, l \in Locks : SF_vars(Release(h, l))
    /\ WF_vars(Tick)
    /\ WF_vars(\E h \in Handlers : TakesCache(h))
    /\ WF_vars(\E found \in BOOLEAN : Verified(found))
    /\ WF_vars(Stopped) /\ WF_vars(Exit)

FairSpec == Spec /\ Fairness

-----------------------------------------------------------------------------
(* Properties. *)

\* Every variable has its type, who holds the verifier cache's mutex is being
\* verified, and a lock is held by a handler at work or by the loop.
TypeOK ==
    /\ loop \in LoopLabel /\ cancelled \in BOOLEAN /\ serving \in BOOLEAN /\ open \in BOOLEAN
    /\ holder \in [Locks -> Handlers \cup {Loop, Nobody}]
    /\ handling \in [Handlers -> {"none", "verify", "serve"}]
    /\ verifying \in Verifying \cup {Nobody} /\ cached \in BOOLEAN
    /\ elapsed \in 0 .. DiscoveryTimeout
    /\ waited \in [Handlers -> Nat]
    /\ grace \in 0 .. Grace /\ stopLeft \in 0 .. StopTimeout
    /\ service \in Service /\ gaveUp \in BOOLEAN
    /\ spent \in Nat /\ blocked \in 0 .. StopTimeout
    /\ \A h \in Handlers, l \in Locks : holder[l] = h => handling[h] = "serve"

\* Handlers never meet closed databases, unless Shutdown's time ran out.
DatabasesOutliveHandlers ==
    \A h \in Handlers : handling[h] # "none" => open \/ gaveUp

\* Once told to stop, the process takes Shutdown's grace and what it has to
\* wait for a handler's lock, nothing else; so a service that reports Stopped
\* with run still at work was kept waiting for that lock all the rest of the
\* time.
StopWaitsForHandlersOnly ==
    /\ spent <= Grace
    /\ service = "stopped" /\ loop # "returned" => blocked >= StopTimeout - Grace

\* Whoever gets the mutex when, a request waits at the verifier cache for the
\* discoveries that fail meanwhile, each of which takes one oidcTimeout at
\* most, and no longer than one oidcTimeout more: that is for its own or for
\* the one that succeeds, after which nobody waits.
VerifyWaitIsBounded ==
    \A h \in Verifying : waited[h] <= DiscoveryTimeout

\* A process told to stop ends, though handlers that hold no lock hang.
StopCompletes == cancelled ~> ~cancelled

=============================================================================
