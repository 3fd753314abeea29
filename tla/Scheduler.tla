------------------------------ MODULE Scheduler ------------------------------
(***************************************************************************)
(* internal/runner/schedule.go with its clock: when Run's loop ticks, the  *)
(* maps it finds due and how long it sleeps. Runner abstracts all of this  *)
(* to choices; here syncs, locks and connections are only a duration.      *)
(*                                                                         *)
(* Run keeps the absolute start of every map's last sync. The model keeps  *)
(* its age, the time since, so that there is no running clock; ages stop   *)
(* at Cap, beyond every interval.                                          *)
(***************************************************************************)
EXTENDS Integers, FiniteSetsExt

CONSTANTS
    MapId,      \* map ids
    Intervals,  \* the positive intervals a map can be given
    Poll,       \* pollInterval
    MaxSync,    \* bound: how long a sync may take, its wait for syncMu included
    Cap,        \* bound: the largest age told apart
    MaxApplies, \* bound: applied changes and removals in a behaviour
    Skipped,    \* the map is disabled or not in the active config
    Never       \* age of a map with no lastSync entry

\* A map with no Interval: synced once, never due again.
Once == 0

ASSUME Durations ==
    /\ Intervals \subseteq Nat \ {0}
    /\ Poll \in Nat \ {0}
    /\ MaxSync \in Nat /\ MaxApplies \in Nat /\ Cap \in Nat
    /\ MaxSync < Cap
    /\ \A i \in Intervals : i + MaxSync < Cap

ASSUME Distinct == Skipped \notin Nat /\ Never \notin Nat

Schedules == [MapId -> Intervals \cup {Once, Skipped}]

VARIABLES
    configured, \* a database is active
    cfg,        \* how the active config schedules each map
    age,        \* map -> time since its last sync started
    wake,       \* Runner.wake
    applying,   \* an apply has swapped the config and has not pinged yet
    pc,         \* Run's loop: "tick", "sync" or "sleep"
    due,        \* tick's due
    dueIntervals,   \* map -> its interval when it was found due
    others,     \* what remains for the maps not due, as of the tick
    syncFor,    \* how long the sync has taken (tick's completed - syncStart)
    timer,      \* what is left of the sleep
    applies     \* what is left of MaxApplies

configVars == <<configured, cfg>>
tickVars   == <<due, dueIntervals, others, syncFor>>
applyVars  == <<applying, applies>>
vars == <<configVars, age, wake, pc, tickVars, timer, applyVars>>

TypeOK ==
    /\ configured \in BOOLEAN
    /\ cfg \in Schedules
    /\ age \in [MapId -> 0..Cap \cup {Never}]
    /\ wake \in BOOLEAN
    /\ applying \in BOOLEAN
    /\ pc \in {"tick", "sync", "sleep"}
    /\ due \subseteq MapId
    /\ dueIntervals \in Schedules
    /\ others \subseteq Nat
    /\ syncFor \in 0..MaxSync
    /\ timer \in Nat
    /\ applies \in 0..MaxApplies

Seen(m)    == age[m] # Never
Repeats(m) == cfg[m] \in Intervals

-----------------------------------------------------------------------------
\* Run's own first apply has succeeded or failed; no map was ever synced.
Init ==
    /\ configured \in BOOLEAN
    /\ cfg \in IF configured THEN Schedules ELSE {[m \in MapId |-> Skipped]}
    /\ age = [m \in MapId |-> Never]
    /\ wake = configured /\ applying = FALSE
    /\ pc = "tick"
    /\ due = {} /\ others = {} /\ syncFor = 0
    /\ dueIntervals = [m \in MapId |-> Skipped]
    /\ timer = 0
    /\ applies = 0

\* Slip: strictly more than an interval must have passed.
DueAfterInterval(m) ==
    \/ cfg[m] # Skipped /\ ~Seen(m)
    \/ Repeats(m) /\ Seen(m) /\ age[m] > cfg[m]

\* Slip: only a map never seen is due.
DueOnce(m) == cfg[m] # Skipped /\ ~Seen(m)

\* scheduleTick's first case.
IsDue(m) ==
    \/ cfg[m] # Skipped /\ ~Seen(m)
    \/ Repeats(m) /\ Seen(m) /\ age[m] >= cfg[m]

DueNow == {m \in MapId : IsDue(m)}

\* Slip: the whole interval, whatever part of it has passed.
FullIntervals == {cfg[m] : m \in {n \in MapId : Repeats(n) /\ ~IsDue(n)}}

\* scheduleTick's second case: every map it would wait for.
Remaining == {cfg[m] - age[m] : m \in {n \in MapId : Repeats(n) /\ ~IsDue(n)}}

\* otherWait, or pollInterval when there is nothing to wait for.
Wait(S) == IF S = {} THEN Poll ELSE Min(S)

\* tick up to runSyncMaps. When nothing is due it returns at once.
Tick ==
    /\ pc = "tick"
    /\ LET now == IF configured THEN DueNow ELSE {}
           rem == IF configured THEN Remaining ELSE {}
       IN /\ due' = now
          /\ dueIntervals' = [m \in MapId |-> IF m \in now THEN cfg[m] ELSE Skipped]
          /\ others' = rem
          /\ IF now = {} THEN pc' = "sleep" /\ timer' = Wait(rem)
                         ELSE pc' = "sync" /\ timer' = 0
    /\ syncFor' = 0
    /\ UNCHANGED <<configVars, age, wake, applyVars>>

\* Slip: the next interval is counted from the end of the sync.
FoldedFromEnd == {dueIntervals[m] : m \in {n \in due : dueIntervals[n] \in Intervals}}

\* max(interval - (completed - syncStart), 0) for the maps just synced.
Folded ==
    { IF syncFor < dueIntervals[m] THEN dueIntervals[m] - syncFor ELSE 0 :
         m \in {n \in due : dueIntervals[n] \in Intervals} }

\* runSyncMaps has returned, whatever became of the sync: lastSync of every due
\* map is the tick's start, and their next due times are folded into the wait.
SyncDone ==
    /\ pc = "sync"
    /\ age' = [m \in MapId |-> IF m \in due THEN syncFor ELSE age[m]]
    /\ timer' = Wait(others \cup Folded)
    /\ pc' = "sleep"
    /\ UNCHANGED <<configVars, wake, tickVars, applyVars>>

TimerFires ==
    /\ pc = "sleep"
    /\ timer = 0
    /\ pc' = "tick"
    /\ UNCHANGED <<configVars, age, wake, tickVars, timer, applyVars>>

WakeReceived ==
    /\ pc = "sleep"
    /\ wake
    /\ wake' = FALSE
    /\ timer' = 0
    /\ pc' = "tick"
    /\ UNCHANGED <<configVars, age, tickVars, applyVars>>

\* The pointer swap of a successful apply, of one edit or of several whose own
\* apply failed. writeMu admits one apply at a time.
Swap ==
    /\ applies < MaxApplies /\ ~applying
    /\ applies' = applies + 1
    /\ applying' = TRUE
    /\ configured' = TRUE
    /\ cfg' \in Schedules
    /\ UNCHANGED <<age, wake, pc, tickVars, timer>>

\* Slip: wake has no buffer, so the ping is dropped unless Run is in its select.
PingUnbuffered ==
    /\ applying
    /\ applying' = FALSE
    /\ wake' = (wake \/ pc = "sleep")
    /\ UNCHANGED <<configVars, age, pc, tickVars, timer, applies>>

\* The previous connection is closed, which takes any time, then the ping.
Ping ==
    /\ applying
    /\ applying' = FALSE
    /\ wake' = TRUE
    /\ UNCHANGED <<configVars, age, pc, tickVars, timer, applies>>

\* removeActiveMap: DeleteMap, under writeMu and before its own apply, takes the
\* map out of the active config without a ping; lastSync keeps its entry.
RemoveActiveMap(m) ==
    /\ applies < MaxApplies /\ ~applying
    /\ applies' = applies + 1
    /\ cfg[m] # Skipped
    /\ cfg' = [cfg EXCEPT ![m] = Skipped]
    /\ UNCHANGED <<configured, age, wake, applying, pc, tickVars, timer>>

Older(a) == IF a = Never \/ a = Cap THEN a ELSE a + 1

\* One unit of time, in a sync or asleep. The tick's own computation and the
\* wake-up of a select that can go on take none.
TimePasses ==
    /\ \/ /\ pc = "sync"
          /\ syncFor < MaxSync
          /\ syncFor' = syncFor + 1
          /\ UNCHANGED timer
       \/ /\ pc = "sleep"
          /\ timer > 0 /\ ~wake
          /\ timer' = timer - 1
          /\ UNCHANGED syncFor
    /\ age' = [m \in MapId |-> Older(age[m])]
    /\ UNCHANGED <<configVars, wake, pc, due, dueIntervals, others, applyVars>>

Next ==
    \/ Tick \/ SyncDone \/ TimerFires \/ WakeReceived
    \/ Swap \/ Ping \/ \E m \in MapId : RemoveActiveMap(m)
    \/ TimePasses

Spec == Init /\ [][Next]_vars

\* Run's goroutine is scheduled, a sync ends within MaxSync, time goes on.
\* Nothing is assumed of Swap, Ping and RemoveActiveMap.
Fairness == WF_vars(Tick \/ SyncDone \/ TimerFires \/ WakeReceived) /\ WF_vars(TimePasses)

FairSpec == Spec /\ Fairness

-----------------------------------------------------------------------------
\* No ping waits for Run, and none is still to come: an apply releases mu, closes
\* the previous connection and only then pings, and until it does Run may sleep
\* on what the config before it asked for.
Settled == ~wake /\ ~applying

Asleep == pc = "sleep" /\ Settled

\* While Run sleeps and every apply has pinged, no map of the active config has
\* yet to be synced for the first time: a ping sent while Run was syncing, or
\* between its tick and its select, is not lost.
NoneWaitsUnseen ==
    Asleep /\ configured => \A m \in MapId : cfg[m] # Skipped => Seen(m)

\* A map that comes due while others sync is late, but never by more than that
\* sync took: the sleep is computed from remaining times as of the tick, and an
\* interval changed since has a ping behind it once its apply is over.
LateByTheSyncAtMost ==
    Asleep => \A m \in MapId :
        Repeats(m) /\ Seen(m) /\ timer > 0 => age[m] + timer <= cfg[m] + syncFor

\* A slow sync does not shorten nor lengthen the next interval of the maps it
\* synced: their next tick is no later than their start plus their interval,
\* the one they have now unless the apply that changed it has yet to ping.
SyncedStayOnTime ==
    Asleep /\ timer > 0 => \A m \in due :
        Repeats(m) => age[m] + timer <= cfg[m]

\* The loop never ticks forever within one instant, with a zero wait and
\* nothing to do: time always goes on.
NoSpin == []<><<TimePasses>>_vars

\* A map with an interval keeps being synced for as long as it has one.
KeepsSyncing ==
    \A m \in MapId : []<>(~Repeats(m) \/ (pc = "sync" /\ m \in due))

=============================================================================
