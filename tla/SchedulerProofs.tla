--------------------------- MODULE SchedulerProofs ---------------------------
(***************************************************************************)
(* Theorems about Scheduler, for any maps, intervals, poll interval and    *)
(* duration of a sync.                                                     *)
(***************************************************************************)
EXTENDS Scheduler, WellFoundedInduction, TLAPS

USE Durations, Distinct DEF Settled

\* Unless a ping is pending or still to come, the maps found due were found so
\* by the config that is active now, less what was removed.
DueInv ==
    /\ due \subseteq {m \in MapId : dueIntervals[m] # Skipped}
    /\ pc = "sync" /\ Settled =>
          \A m \in due : cfg[m] # Skipped => dueIntervals[m] = cfg[m]

\* Nothing is left to be seen once this sync is over.
SeenInv ==
    pc \in {"sync", "sleep"} /\ Settled /\ configured =>
        \A m \in MapId : cfg[m] # Skipped => Seen(m) \/ (pc = "sync" /\ m \in due)

\* While others sync, a map that was not due still has its remaining time
\* among others, old by what the sync took.
OthersInv ==
    pc = "sync" /\ Settled => \A m \in MapId \ due :
        Repeats(m) /\ Seen(m) => \E r \in others : age[m] + r <= cfg[m] + syncFor

\* Nothing is configured before the first apply.
IdleInv == ~configured => \A m \in MapId : cfg[m] = Skipped

Lateness == LateByTheSyncAtMost /\ SyncedStayOnTime

IInv == TypeOK /\ DueInv /\ SeenInv /\ OthersInv /\ IdleInv /\ Lateness

-----------------------------------------------------------------------------
(* Wait. *)

\* A non-empty set of naturals has a least element, which is its Min.
LEMMA LeastNatural ==
    ASSUME NEW S \in SUBSET Nat, S # {}
    PROVE  Min(S) \in S /\ \A n \in S : Min(S) <= n
<1>1. PICK x \in S : \A y \in S : ~ (<<y, x>> \in OpToRel(<, Nat))
  BY NatLessThanWellFounded, WFMin
<1>2. OpToRel(<, Nat) = {p \in Nat \X Nat : p[1] < p[2]}
  BY Zenon DEF OpToRel
<1>3. \A y \in S : ~ (y < x)
  BY <1>1, <1>2
<1>4. \E z \in S : \A y \in S : z =< y
  BY <1>3
<1> QED
  BY <1>4 DEF Min

\* Run sleeps for a time, and no longer than for any map it waits for.
LEMMA WaitIsLeast ==
    ASSUME NEW S \in SUBSET Nat
    PROVE  Wait(S) \in Nat /\ \A n \in S : Wait(S) <= n
BY LeastNatural DEF Wait

LEMMA RepeatsIsNat ==
    ASSUME NEW m \in MapId, Repeats(m)
    PROVE  cfg[m] \in Nat /\ cfg[m] # Skipped
<1>1. cfg[m] \in Intervals
  BY DEF Repeats
<1> QED
  BY <1>1

LEMMA SeenIsNat ==
    ASSUME TypeOK, NEW m \in MapId, Seen(m)
    PROVE  age[m] \in Nat
<1>1. age[m] \in 0 .. Cap \cup {Never} /\ age[m] # Never
  BY DEF TypeOK, Seen
<1> QED
  BY <1>1

\* What is left for a map that is not due is positive.
LEMMA RemainingIsNat ==
    ASSUME TypeOK
    PROVE  /\ Remaining \in SUBSET Nat
           /\ \A m \in MapId : Repeats(m) /\ ~IsDue(m) =>
                 /\ Seen(m) /\ cfg[m] \in Nat /\ age[m] \in Nat
                 /\ cfg[m] - age[m] \in Remaining
<1>1. ASSUME NEW m \in MapId, Repeats(m), ~IsDue(m)
      PROVE  Seen(m) /\ cfg[m] \in Nat /\ age[m] \in Nat /\ cfg[m] - age[m] \in Nat
  <2>1. cfg[m] \in Nat /\ cfg[m] # Skipped
    BY <1>1, RepeatsIsNat
  <2>2. Seen(m) /\ ~(age[m] >= cfg[m])
    BY <1>1, <2>1 DEF IsDue
  <2>3. age[m] \in Nat
    BY <2>2, SeenIsNat
  <2> QED
    BY <2>1, <2>2, <2>3
<1> QED
  BY <1>1 DEF Remaining

\* So is what is left for a map just synced, unless its sync took too long.
LEMMA FoldedIsNat ==
    ASSUME TypeOK
    PROVE  /\ Folded \in SUBSET Nat
           /\ \A m \in due : dueIntervals[m] \in Intervals =>
                 \/ syncFor >= dueIntervals[m] /\ 0 \in Folded
                 \/ syncFor < dueIntervals[m] /\ dueIntervals[m] - syncFor \in Folded
<1>1. ASSUME NEW m \in due, dueIntervals[m] \in Intervals
      PROVE  /\ dueIntervals[m] \in Nat /\ syncFor \in Nat
             /\ syncFor < dueIntervals[m] => dueIntervals[m] - syncFor \in Nat
  <2>1. dueIntervals[m] \in Nat
    BY <1>1
  <2>2. syncFor \in Nat
    BY DEF TypeOK
  <2> QED
    BY <2>1, <2>2
<1> QED
  BY <1>1 DEF Folded

-----------------------------------------------------------------------------

LEMMA InitInv == Init => IInv
<1> SUFFICES ASSUME Init PROVE IInv
  OBVIOUS
<1>1. cfg \in Schedules /\ IdleInv
  BY DEF Init, IdleInv, Schedules
<1>2. TypeOK
  <2>1. age \in [MapId -> 0 .. Cap \cup {Never}] /\ dueIntervals \in Schedules
    BY DEF Init, Schedules
  <2>2. configured \in BOOLEAN /\ wake \in BOOLEAN /\ applying \in BOOLEAN
    BY Zenon DEF Init
  <2> QED
    BY <1>1, <2>1, <2>2 DEF Init, TypeOK
<1>3. DueInv /\ SeenInv /\ OthersInv /\ Lateness
  BY DEF Init, DueInv, SeenInv, OthersInv, Lateness, LateByTheSyncAtMost, SyncedStayOnTime, Asleep
<1> QED
  BY <1>1, <1>2, <1>3 DEF IInv

LEMMA TickInv ==
    ASSUME IInv, Tick
    PROVE  IInv'
<1> DEFINE now == IF configured THEN DueNow ELSE {}
           rem == IF configured THEN Remaining ELSE {}
<1>1. /\ due' = now /\ others' = rem /\ syncFor' = 0
      /\ dueIntervals' = [m \in MapId |-> IF m \in now THEN cfg[m] ELSE Skipped]
      /\ UNCHANGED <<configured, cfg, age, wake, applying, applies>>
      /\ IF now = {} THEN pc' = "sleep" /\ timer' = Wait(rem) ELSE pc' = "sync" /\ timer' = 0
  BY DEF Tick, configVars, applyVars
<1>2. rem \in SUBSET Nat /\ now \subseteq MapId /\ \A m \in now : cfg[m] # Skipped
  BY RemainingIsNat DEF IInv, DueNow, IsDue, Repeats
<1>3. timer' \in Nat /\ (now = {} => \A r \in rem : timer' <= r)
  BY <1>1, <1>2, WaitIsLeast
<1>4. TypeOK'
  <2>1. dueIntervals' \in Schedules
    BY <1>1, <1>2 DEF IInv, TypeOK, Schedules
  <2>2. pc' \in {"tick", "sync", "sleep"}
    BY <1>1
  <2> QED
    BY <1>1, <1>2, <1>3, <2>1, <2>2 DEF IInv, TypeOK
<1>5. DueInv'
  BY <1>1, <1>2 DEF DueInv
<1>6. SeenInv'
  <2>1. configured => \A m \in MapId : cfg[m] # Skipped => Seen(m) \/ m \in now
    BY DEF DueNow, IsDue
  <2> QED
    BY <1>1, <2>1 DEF SeenInv, Seen
<1>7. ASSUME NEW m \in MapId, m \notin now, Repeats(m)
      PROVE  Seen(m) /\ cfg[m] \in Nat /\ age[m] \in Nat /\ cfg[m] - age[m] \in rem
  <2>1. configured
    BY <1>7 DEF IInv, IdleInv, Repeats
  <2>2. ~IsDue(m)
    BY <1>7, <2>1 DEF DueNow
  <2> QED
    BY <1>7, <2>1, <2>2, RemainingIsNat DEF IInv
<1>8. OthersInv'
  <2> SUFFICES ASSUME NEW m \in MapId \ due', Repeats(m)'
               PROVE  \E r \in others' : age'[m] + r <= cfg'[m] + syncFor'
    BY DEF OthersInv
  <2>1. Seen(m) /\ cfg[m] \in Nat /\ age[m] \in Nat /\ cfg[m] - age[m] \in rem
    BY <1>1, <1>7 DEF Repeats
  <2> QED
    BY <1>1, <2>1
<1>9. IdleInv'
  BY <1>1 DEF IInv, IdleInv
<1>10. Lateness'
  <2>1. CASE now # {}
    BY <1>1, <2>1 DEF Lateness, LateByTheSyncAtMost, SyncedStayOnTime, Asleep
  <2>2. CASE now = {}
    <3>1. ASSUME NEW m \in MapId, Repeats(m)
          PROVE  age[m] + timer' <= cfg[m]
      BY <1>3, <1>7, <2>2, <3>1
    <3>2. \A m \in MapId : Repeats(m)' => age'[m] + timer' <= cfg'[m] + syncFor'
      <4>1. ASSUME NEW m \in MapId, Repeats(m)
            PROVE  age[m] + timer' <= cfg[m] + 0
        BY <3>1, <4>1, RepeatsIsNat
      <4> QED
        BY <1>1, <4>1 DEF Repeats
    <3> QED
      BY <1>1, <2>2, <3>2 DEF Lateness, LateByTheSyncAtMost, SyncedStayOnTime
  <2> QED
    BY <2>1, <2>2
<1> QED
  BY <1>4, <1>5, <1>6, <1>8, <1>9, <1>10 DEF IInv

LEMMA SyncDoneInv ==
    ASSUME IInv, SyncDone
    PROVE  IInv'
<1>1. /\ UNCHANGED <<configured, cfg, wake, due, dueIntervals, others, syncFor, applying, applies>>
      /\ pc = "sync" /\ pc' = "sleep" /\ timer' = Wait(others \cup Folded)
      /\ age' = [m \in MapId |-> IF m \in due THEN syncFor ELSE age[m]]
  BY DEF SyncDone, configVars, tickVars, applyVars
<1>2. syncFor \in Nat /\ syncFor \in 0 .. Cap /\ others \in SUBSET Nat
  BY DEF IInv, TypeOK
<1>3. timer' \in Nat /\ \A n \in others \cup Folded : timer' <= n
  BY <1>1, <1>2, FoldedIsNat, WaitIsLeast DEF IInv
<1>4. TypeOK'
  BY <1>1, <1>2, <1>3 DEF IInv, TypeOK
<1>5. DueInv' /\ IdleInv' /\ OthersInv'
  BY <1>1 DEF IInv, DueInv, IdleInv, OthersInv
<1>6. SeenInv'
  BY <1>1, <1>2 DEF IInv, SeenInv, Seen, TypeOK
<1>7. ASSUME NEW m \in due, Settled, Repeats(m), timer' > 0
      PROVE  age'[m] + timer' <= cfg[m]
  <2>1. m \in MapId /\ dueIntervals[m] = cfg[m] /\ cfg[m] \in Intervals /\ cfg[m] \in Nat
    BY <1>1, <1>7 DEF IInv, TypeOK, DueInv, Repeats
  <2>2. syncFor < cfg[m] /\ cfg[m] - syncFor \in Folded
    BY <1>2, <1>3, <1>7, <2>1, FoldedIsNat DEF IInv
  <2>3. age'[m] = syncFor
    BY <1>1, <1>7, <2>1
  <2>4. timer' <= cfg[m] - syncFor
    BY <1>3, <2>2
  <2> QED
    BY <1>2, <1>3, <2>1, <2>3, <2>4
<1>8. ASSUME NEW m \in MapId \ due, Settled, Repeats(m), Seen(m)
      PROVE  age'[m] + timer' <= cfg[m] + syncFor
  <2>1. PICK r \in others : age[m] + r <= cfg[m] + syncFor
    BY <1>1, <1>8 DEF IInv, OthersInv
  <2>2. age'[m] = age[m] /\ age[m] \in Nat /\ cfg[m] \in Nat
    BY <1>1, <1>8, RepeatsIsNat, SeenIsNat DEF IInv
  <2> QED
    BY <1>2, <1>3, <2>1, <2>2
<1>9. Lateness'
  <2>1. SyncedStayOnTime'
    BY <1>1, <1>7 DEF SyncedStayOnTime, Asleep, Repeats
  <2>2. ASSUME Asleep', NEW m \in MapId, Repeats(m)', Seen(m)', timer' > 0
        PROVE  age'[m] + timer' <= cfg[m] + syncFor
    <3>1. Settled /\ Repeats(m)
      BY <1>1, <2>2 DEF Asleep, Repeats
    <3>2. cfg[m] \in Nat /\ age'[m] \in Nat
      <4>1. cfg[m] \in Nat
        BY <2>2, <3>1, RepeatsIsNat
      <4>2. age'[m] \in 0 .. Cap \cup {Never} /\ age'[m] # Never
        BY <1>4, <2>2 DEF TypeOK, Seen
      <4> QED
        BY <4>1, <4>2
    <3>3. CASE m \in due
      BY <1>2, <1>3, <1>7, <2>2, <3>1, <3>2, <3>3
    <3>4. CASE m \notin due
      BY <1>1, <1>8, <2>2, <3>1, <3>4 DEF Seen
    <3> QED
      BY <3>3, <3>4
  <2> QED
    BY <1>1, <2>1, <2>2 DEF Lateness, LateByTheSyncAtMost
<1> QED
  BY <1>4, <1>5, <1>6, <1>9 DEF IInv

LEMMA WakeInv ==
    ASSUME IInv, TimerFires \/ WakeReceived
    PROVE  IInv'
<1>1. /\ UNCHANGED <<configured, cfg, age, due, dueIntervals, others, syncFor, applying, applies>>
      /\ pc' = "tick" /\ timer' \in Nat /\ wake' \in BOOLEAN
  <2>1. timer \in Nat /\ wake \in BOOLEAN
    BY DEF IInv, TypeOK
  <2>2. CASE TimerFires
    BY <2>1, <2>2 DEF TimerFires, configVars, tickVars, applyVars
  <2>3. CASE WakeReceived
    BY <2>3 DEF WakeReceived, configVars, tickVars, applyVars
  <2> QED
    BY <2>2, <2>3
<1>2. TypeOK'
  BY <1>1 DEF IInv, TypeOK
<1>3. DueInv' /\ SeenInv' /\ OthersInv' /\ IdleInv' /\ Lateness'
  BY <1>1 DEF IInv, DueInv, SeenInv, OthersInv, IdleInv, Lateness, LateByTheSyncAtMost,
              SyncedStayOnTime, Asleep
<1> QED
  BY <1>2, <1>3 DEF IInv

LEMMA SwapInv ==
    ASSUME IInv, Swap
    PROVE  IInv'
<1>1. /\ UNCHANGED <<age, wake, pc, due, dueIntervals, others, syncFor, timer>>
      /\ configured' = TRUE /\ cfg' \in Schedules /\ applying' = TRUE
      /\ applies' \in 0 .. MaxApplies
  BY DEF Swap, tickVars, IInv, TypeOK
<1>2. TypeOK'
  BY <1>1 DEF IInv, TypeOK
<1>3. DueInv' /\ SeenInv' /\ OthersInv' /\ IdleInv' /\ Lateness'
  BY <1>1 DEF IInv, DueInv, SeenInv, OthersInv, IdleInv, Lateness, LateByTheSyncAtMost,
              SyncedStayOnTime, Asleep
<1> QED
  BY <1>2, <1>3 DEF IInv

LEMMA PingInv ==
    ASSUME IInv, Ping
    PROVE  IInv'
<1>1. /\ UNCHANGED <<configured, cfg, age, pc, due, dueIntervals, others, syncFor, timer, applies>>
      /\ wake' = TRUE /\ applying' = FALSE
  BY DEF Ping, configVars, tickVars
<1>2. TypeOK'
  BY <1>1 DEF IInv, TypeOK
<1>3. DueInv' /\ SeenInv' /\ OthersInv' /\ IdleInv' /\ Lateness'
  BY <1>1 DEF IInv, DueInv, SeenInv, OthersInv, IdleInv, Lateness, LateByTheSyncAtMost,
              SyncedStayOnTime, Asleep
<1> QED
  BY <1>2, <1>3 DEF IInv

LEMMA RemoveInv ==
    ASSUME IInv, NEW k \in MapId, RemoveActiveMap(k)
    PROVE  IInv'
<1>1. /\ UNCHANGED <<configured, age, wake, applying, pc, due, dueIntervals, others, syncFor, timer>>
      /\ cfg' = [cfg EXCEPT ![k] = Skipped] /\ applies' \in 0 .. MaxApplies
  BY DEF RemoveActiveMap, tickVars, IInv, TypeOK
<1>2. cfg' \in Schedules /\ \A m \in MapId : cfg'[m] = Skipped \/ cfg'[m] = cfg[m]
  BY <1>1 DEF IInv, TypeOK, Schedules
<1>3. TypeOK'
  BY <1>1, <1>2 DEF IInv, TypeOK
<1>4. \A m \in MapId : Repeats(m)' => Repeats(m) /\ cfg'[m] = cfg[m]
  BY <1>2 DEF Repeats
<1>5. DueInv' /\ SeenInv' /\ IdleInv'
  BY <1>1, <1>2 DEF IInv, TypeOK, DueInv, SeenInv, IdleInv, Seen
<1>6. OthersInv'
  BY <1>1, <1>4 DEF IInv, OthersInv, Seen
<1>7. Lateness'
  BY <1>1, <1>4 DEF IInv, TypeOK, Lateness, LateByTheSyncAtMost, SyncedStayOnTime, Asleep, Seen
<1> QED
  BY <1>3, <1>5, <1>6, <1>7 DEF IInv

LEMMA TimeInv ==
    ASSUME IInv, TimePasses
    PROVE  IInv'
<1>1. /\ UNCHANGED <<configured, cfg, wake, pc, due, dueIntervals, others, applying, applies>>
      /\ age' = [m \in MapId |-> Older(age[m])]
  BY DEF TimePasses, configVars, applyVars
<1>2. \/ pc = "sync" /\ syncFor' = syncFor + 1 /\ syncFor' \in 0 .. MaxSync /\ timer' = timer
      \/ pc = "sleep" /\ timer > 0 /\ timer' = timer - 1 /\ syncFor' = syncFor
  BY DEF TimePasses, IInv, TypeOK
<1>3. ASSUME NEW m \in MapId
      PROVE  /\ age'[m] \in 0 .. Cap \cup {Never}
             /\ Seen(m)' <=> Seen(m)
             /\ Seen(m) => age[m] \in Nat /\ age'[m] \in Nat /\ age'[m] <= age[m] + 1
  BY <1>1 DEF Older, Seen, IInv, TypeOK
<1>4. TypeOK'
  BY <1>1, <1>2, <1>3 DEF IInv, TypeOK
<1>5. DueInv' /\ IdleInv'
  BY <1>1 DEF IInv, DueInv, IdleInv
<1>6. SeenInv'
  BY <1>1, <1>3 DEF IInv, SeenInv
<1>7. OthersInv'
  <2> SUFFICES ASSUME pc = "sync", Settled, NEW m \in MapId \ due, Repeats(m), Seen(m)
               PROVE  \E r \in others : age'[m] + r <= cfg[m] + syncFor'
    BY <1>1, <1>3 DEF OthersInv, Repeats
  <2>1. PICK r \in others : age[m] + r <= cfg[m] + syncFor
    BY DEF IInv, OthersInv
  <2>2. r \in Nat /\ cfg[m] \in Nat /\ syncFor \in Nat
    BY RepeatsIsNat DEF IInv, TypeOK
  <2> QED
    BY <1>2, <1>3, <2>1, <2>2
<1>8. Lateness'
  <2>1. timer \in Nat /\ syncFor \in Nat /\ due \subseteq MapId
    BY DEF IInv, TypeOK
  <2>2. ASSUME Asleep, timer' > 0, NEW m \in MapId, Repeats(m), Seen(m)
        PROVE  /\ age'[m] + timer' <= cfg[m] + syncFor'
               /\ m \in due => age'[m] + timer' <= cfg[m]
    <3>1. cfg[m] \in Nat /\ timer' = timer - 1 /\ syncFor' = syncFor /\ timer > 0
      BY <1>2, <2>2 DEF Repeats, Asleep
    <3>2. age[m] + timer <= cfg[m] + syncFor /\ (m \in due => age[m] + timer <= cfg[m])
      BY <2>2, <3>1 DEF IInv, Lateness, LateByTheSyncAtMost, SyncedStayOnTime
    <3> QED
      BY <1>3, <2>1, <2>2, <3>1, <3>2
  <2>3. ASSUME Asleep, NEW m \in due, Repeats(m)
        PROVE  Seen(m)
    BY <2>3 DEF IInv, SeenInv, IdleInv, Asleep, Repeats, TypeOK
  <2> QED
    BY <1>1, <1>3, <2>1, <2>2, <2>3
    DEF Lateness, LateByTheSyncAtMost, SyncedStayOnTime, Asleep, Repeats
<1> QED
  BY <1>4, <1>5, <1>6, <1>7, <1>8 DEF IInv

LEMMA NextInv == IInv /\ [Next]_vars => IInv'
<1> SUFFICES ASSUME IInv, [Next]_vars PROVE IInv'
  OBVIOUS
<1>1. CASE UNCHANGED vars
  BY <1>1 DEF vars, configVars, tickVars, applyVars, IInv, TypeOK, DueInv, SeenInv, OthersInv, IdleInv, Lateness,
              LateByTheSyncAtMost, SyncedStayOnTime, Asleep, Repeats, Seen
<1>2. CASE Next
  BY <1>2, TickInv, SyncDoneInv, WakeInv, SwapInv, PingInv, RemoveInv, TimeInv DEF Next
<1> QED
  BY <1>1, <1>2

THEOREM Invariant == Spec => []IInv
BY InitInv, NextInv, PTL DEF Spec

-----------------------------------------------------------------------------
(* The theorems. *)

\* Every variable has its type; Run never sleeps for a negative time.
THEOREM TypeCorrect == Spec => []TypeOK
BY Invariant, PTL DEF IInv

\* While Run sleeps, and no apply is between its swap and its ping, no map of the
\* active config waits for its first sync (the pings of apply, and scheduleTick).
THEOREM NoneUnseen == Spec => []NoneWaitsUnseen
<1>1. IInv => NoneWaitsUnseen
  BY DEF IInv, SeenInv, NoneWaitsUnseen, Asleep
<1> QED
  BY <1>1, Invariant, PTL

\* A map that came due while others were syncing is late by no more than that
\* sync (tick's otherWait), by the schedule of the last apply that has pinged.
THEOREM LateByTheSync == Spec => []LateByTheSyncAtMost
BY Invariant, PTL DEF IInv, Lateness

\* The maps a tick synced are not late at all (tick's remaining), by the schedule
\* of the last apply that has pinged.
THEOREM SyncedOnTime == Spec => []SyncedStayOnTime
BY Invariant, PTL DEF IInv, Lateness

=============================================================================
