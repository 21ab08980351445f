------------------------- MODULE AlertMonitorProofs -------------------------
(***************************************************************************)
(* Proofs about AlertMonitor, for every set of addresses and every value   *)
(* of the bounds.  Each invariant is inductive given TypeOK (and, for the  *)
(* last two, ChecksAreGrowth), so each theorem has the same shape: the     *)
(* initial states satisfy it, every action preserves it, PTL concludes.    *)
(***************************************************************************)
EXTENDS AlertMonitor, TLAPS

\* The elapsed times stay within their cap however long a call takes.
LEMMA LaterType ==
  ASSUME TypeOK, NEW d \in Nat
  PROVE  Later(d) \in [IPs -> 0..EndSilence + 1]
<1>1. EndSilence \in Nat
  BY ConstantsAssumption
<1>2. ASSUME NEW ip \in IPs
      PROVE  (IF ip \notin active THEN 0
              ELSE IF silence[ip] + d > EndSilence THEN EndSilence + 1
              ELSE silence[ip] + d) \in 0..EndSilence + 1
  <2>1. silence[ip] \in 0..EndSilence + 1
    BY DEF TypeOK
  <2>2. QED
    BY <1>1, <2>1
<1>3. QED
  BY <1>2 DEF Later

\* A listed row has a persistence within the history of the view.
LEMMA RowType ==
  ASSUME NEW v \in Views, NEW ip \in Listed(v)
  PROVE  /\ v[ip] \in Rows
         /\ v[ip].persist \in 0..MaxPersist
         /\ v[ip].stale \in BOOLEAN
BY DEF Views, Listed, Rows

\* Sending an alert keeps the types of the notification state.
LEMMA NotifyType ==
  ASSUME TypeOK, NEW ip \in IPs, Notify(ip)
  PROVE  /\ active' \in SUBSET IPs
         /\ silence' \in [IPs -> 0..EndSilence + 1]
         /\ balance' \in [IPs -> Int]
         /\ notified' \in SUBSET IPs
<1>1. PICK d \in Delays : silence' = [Later(d) EXCEPT ![ip] = 0]
  BY DEF Notify
<1>2. d \in Nat /\ EndSilence \in Nat
  BY ConstantsAssumption DEF Delays
<1>3. Later(d) \in [IPs -> 0..EndSilence + 1]
  BY <1>2, LaterType
<1>4. silence' \in [IPs -> 0..EndSilence + 1]
  BY <1>1, <1>2, <1>3
<1>5. QED
  BY <1>4 DEF Notify, TypeOK

\* Taking an address off the watch keeps the types of the watch state.
LEMMA UnwatchType ==
  ASSUME TypeOK, NEW ip \in IPs, Unwatch(ip)
  PROVE  /\ pending' \in SUBSET IPs
         /\ checksPassed' \in [IPs -> 0..RequiredChecks]
         /\ lastPers' \in [IPs -> 0..MaxPersist]
         /\ watchedFrom' \in [IPs -> 0..MaxPersist]
BY ConstantsAssumption DEF Unwatch, TypeOK

-----------------------------------------------------------------------------
\* Type correctness of the monitoring loop of alert.py, restarts included.
THEOREM TypeCorrect == Spec => []TypeOK
<1>1. Init => TypeOK
  <2> SUFFICES ASSUME Init PROVE TypeOK
    OBVIOUS
  <2>1. view \in Views /\ fetched \in Views
    BY DEF Init, Views
  <2>2. QED
    BY <2>1, ConstantsAssumption DEF Init, TypeOK
<1>2. TypeOK /\ [Next]_vars => TypeOK'
  <2> SUFFICES ASSUME TypeOK, [Next]_vars PROVE TypeOK'
    OBVIOUS
  <2>0. /\ RequiredChecks \in Nat \ {0}
        /\ MaxPersist \in Nat
        /\ EndSilence \in Nat
        /\ MaxRestarts \in Nat
        /\ Delays \subseteq Nat
    BY ConstantsAssumption DEF Delays
  <2>1. CASE GetAttacks
    <3>1. fetched' \in Views
      BY <2>1 DEF GetAttacks, Views
    <3>2. silence' \in [IPs -> 0..EndSilence + 1]
      BY <2>0, <2>1, LaterType DEF GetAttacks
    <3>3. QED
      BY <2>1, <3>1, <3>2 DEF GetAttacks, TypeOK, watchVars, Listed
  <2>2. ASSUME NEW ip \in IPs, SkipStaleRow(ip) PROVE TypeOK'
    BY <2>2 DEF SkipStaleRow, AtRow, TypeOK, watchVars, attackVars
  <2>3. ASSUME NEW ip \in IPs, RefreshActive(ip) PROVE TypeOK'
    BY <2>0, <2>3 DEF RefreshActive, AtRow, TypeOK, watchVars
  <2>4. ASSUME NEW ip \in IPs, AlertImmediate(ip) PROVE TypeOK'
    BY <2>4, NotifyType, UnwatchType
       DEF AlertImmediate, NewRow, AtRow, TypeOK
  <2>5. ASSUME NEW ip \in IPs, StartWatch(ip) PROVE TypeOK'
    <3>1. fetched[ip].persist \in 0..MaxPersist
      BY <2>5, RowType DEF StartWatch, NewRow, AtRow, TypeOK
    <3>2. QED
      BY <2>0, <2>5, <3>1
         DEF StartWatch, NewRow, AtRow, TypeOK, attackVars
  <2>6. ASSUME NEW ip \in IPs, KeepWatching(ip) PROVE TypeOK'
    <3>1. fetched[ip].persist \in 0..MaxPersist
      BY <2>6, RowType DEF KeepWatching, NewRow, AtRow, TypeOK
    <3>2. ChecksAfter(ip) \in 0..RequiredChecks
      BY <2>0, <2>6 DEF KeepWatching, ChecksAfter, TypeOK
    <3>3. QED
      BY <2>6, <3>1, <3>2
         DEF KeepWatching, NewRow, AtRow, TypeOK, attackVars
  <2>7. ASSUME NEW ip \in IPs, Confirm(ip) PROVE TypeOK'
    BY <2>7, NotifyType, UnwatchType DEF Confirm, NewRow, AtRow, TypeOK
  <2>8. CASE DropVanishedPending
    BY <2>0, <2>8 DEF DropVanishedPending, TypeOK, attackVars
  <2>9. ASSUME NEW ip \in IPs, EndAttack(ip) PROVE TypeOK'
    <3>1. silence' \in [IPs -> 0..EndSilence + 1]
      BY <2>0, <2>9, LaterType DEF EndAttack
    <3>2. QED
      BY <2>9, <3>1 DEF EndAttack, AtActive, TypeOK, watchVars
  <2>10. ASSUME NEW ip \in IPs, KeepActive(ip) PROVE TypeOK'
    BY <2>10 DEF KeepActive, AtActive, TypeOK, watchVars, attackVars
  <2>11. CASE Sleep
    BY <2>11 DEF Sleep, TypeOK, watchVars, attackVars
  <2>12. CASE Wake
    <3>1. silence' \in [IPs -> 0..EndSilence + 1]
      BY <2>12, LaterType DEF Wake
    <3>2. QED
      BY <2>12, <3>1 DEF Wake, TypeOK, watchVars
  <2>13. CASE Restart
    <3>1. fetched' \in Views
      BY <2>13 DEF Restart, Views
    <3>2. QED
      BY <2>0, <2>13, <3>1 DEF Restart, TypeOK
  <2>14. CASE UNCHANGED vars
    BY <2>14 DEF vars, loopVars, watchVars, attackVars, TypeOK
  <2>15. QED
    BY <2>1, <2>2, <2>3, <2>4, <2>5, <2>6, <2>7, <2>8, <2>9, <2>10, <2>11,
       <2>12, <2>13, <2>14 DEF Next, Loop, RowStep, CleanupStep
<1>3. QED
  BY <1>1, <1>2, PTL DEF Spec

-----------------------------------------------------------------------------
\* No address is under watch and notified at once (alert.py:95-98, 121, 161).
THEOREM WatchAndAlertExclusive == Spec => []OneBookPerAddress
<1>1. Init => OneBookPerAddress
  BY DEF Init, OneBookPerAddress
<1>2. TypeOK /\ OneBookPerAddress /\ [Next]_vars => OneBookPerAddress'
  <2> SUFFICES ASSUME TypeOK, OneBookPerAddress, [Next]_vars
               PROVE  OneBookPerAddress'
    OBVIOUS
  <2> USE DEF OneBookPerAddress
  <2>1. CASE GetAttacks
    BY <2>1 DEF GetAttacks, watchVars
  <2>2. ASSUME NEW ip \in IPs, SkipStaleRow(ip) PROVE OneBookPerAddress'
    BY <2>2 DEF SkipStaleRow, watchVars, attackVars
  <2>3. ASSUME NEW ip \in IPs, RefreshActive(ip) PROVE OneBookPerAddress'
    BY <2>3 DEF RefreshActive, watchVars
  <2>4. ASSUME NEW ip \in IPs, AlertImmediate(ip) PROVE OneBookPerAddress'
    BY <2>4 DEF AlertImmediate, Notify, Unwatch
  <2>5. ASSUME NEW ip \in IPs, StartWatch(ip) PROVE OneBookPerAddress'
    BY <2>5 DEF StartWatch, NewRow, attackVars
  <2>6. ASSUME NEW ip \in IPs, KeepWatching(ip) PROVE OneBookPerAddress'
    BY <2>6 DEF KeepWatching, attackVars
  <2>7. ASSUME NEW ip \in IPs, Confirm(ip) PROVE OneBookPerAddress'
    BY <2>7 DEF Confirm, Notify, Unwatch
  <2>8. CASE DropVanishedPending
    BY <2>8 DEF DropVanishedPending, attackVars
  <2>9. ASSUME NEW ip \in IPs, CleanupStep(ip) PROVE OneBookPerAddress'
    BY <2>9 DEF CleanupStep, EndAttack, KeepActive, AtActive, watchVars,
                attackVars
  <2>10. CASE Sleep \/ Wake \/ UNCHANGED vars
    BY <2>10 DEF Sleep, Wake, vars, watchVars, attackVars
  <2>11. CASE Restart
    BY <2>11 DEF Restart
  <2>12. QED
    BY <2>1, <2>2, <2>3, <2>4, <2>5, <2>6, <2>7, <2>8, <2>9, <2>10, <2>11
       DEF Next, Loop, RowStep
<1>3. QED
  BY <1>1, <1>2, TypeCorrect, PTL DEF Spec

\* Alerts and end notices of an address alternate (alert.py:95-98, 177-186).
THEOREM AlertsAndEndsAlternate == Spec => []AlertsAndEndsPair
<1>1. Init => AlertsAndEndsPair
  BY DEF Init, AlertsAndEndsPair
<1>2. TypeOK /\ AlertsAndEndsPair /\ [Next]_vars => AlertsAndEndsPair'
  <2> SUFFICES ASSUME TypeOK, AlertsAndEndsPair, [Next]_vars
               PROVE  AlertsAndEndsPair'
    OBVIOUS
  <2> USE DEF AlertsAndEndsPair
  <2>1. CASE GetAttacks
    BY <2>1 DEF GetAttacks
  <2>2. ASSUME NEW ip \in IPs, SkipStaleRow(ip) \/ StartWatch(ip)
                                \/ KeepWatching(ip) \/ KeepActive(ip)
        PROVE  AlertsAndEndsPair'
    BY <2>2 DEF SkipStaleRow, StartWatch, KeepWatching, KeepActive, attackVars
  <2>3. ASSUME NEW ip \in IPs, RefreshActive(ip) PROVE AlertsAndEndsPair'
    BY <2>3 DEF RefreshActive
  <2>4. ASSUME NEW ip \in IPs, ip \notin active, Notify(ip)
        PROVE  AlertsAndEndsPair'
    BY <2>4 DEF Notify, TypeOK
  <2>5. ASSUME NEW ip \in IPs, AlertImmediate(ip) \/ Confirm(ip)
        PROVE  AlertsAndEndsPair'
    BY <2>4, <2>5 DEF AlertImmediate, Confirm, NewRow
  <2>6. CASE DropVanishedPending \/ Sleep \/ Wake \/ UNCHANGED vars
    BY <2>6 DEF DropVanishedPending, Sleep, Wake, vars, attackVars
  <2>7. ASSUME NEW ip \in IPs, EndAttack(ip) PROVE AlertsAndEndsPair'
    <3>1. ip \in active
      BY <2>7 DEF EndAttack, AtActive, TypeOK
    <3>2. QED
      BY <2>7, <3>1 DEF EndAttack, TypeOK
  <2>8. CASE Restart
    BY <2>8 DEF Restart
  <2>9. QED
    BY <2>1, <2>2, <2>3, <2>5, <2>6, <2>7, <2>8
       DEF Next, Loop, RowStep, CleanupStep
<1>3. QED
  BY <1>1, <1>2, TypeCorrect, PTL DEF Spec

\* The rows a cycle is done with are tracked, and its cleanup keeps them so.
THEOREM FreshRowsAreTracked == Spec => []NoCriticalRowIgnored
<1>1. Init => NoCriticalRowIgnored
  BY DEF Init, NoCriticalRowIgnored, Handled
<1>2. TypeOK /\ NoCriticalRowIgnored /\ [Next]_vars => NoCriticalRowIgnored'
  <2> SUFFICES ASSUME TypeOK, NoCriticalRowIgnored, [Next]_vars
               PROVE  NoCriticalRowIgnored'
    OBVIOUS
  <2> USE DEF NoCriticalRowIgnored, Handled, Fresh
  <2>1. CASE GetAttacks
    BY <2>1 DEF GetAttacks, Listed
  <2>2. ASSUME NEW ip \in IPs, SkipStaleRow(ip) PROVE NoCriticalRowIgnored'
    BY <2>2 DEF SkipStaleRow, AtRow, watchVars, attackVars, Listed, Status
  <2>3. ASSUME NEW ip \in IPs, RefreshActive(ip) PROVE NoCriticalRowIgnored'
    BY <2>3 DEF RefreshActive, AtRow, watchVars, Listed, Status
  <2>4. ASSUME NEW ip \in IPs, AtRow(ip), Notify(ip), Unwatch(ip)
        PROVE  NoCriticalRowIgnored'
    BY <2>4 DEF AtRow, Notify, Unwatch, Listed, Status
  <2>5. ASSUME NEW ip \in IPs, AlertImmediate(ip) \/ Confirm(ip)
        PROVE  NoCriticalRowIgnored'
    BY <2>4, <2>5 DEF AlertImmediate, Confirm, NewRow
  <2>6. ASSUME NEW ip \in IPs, StartWatch(ip) PROVE NoCriticalRowIgnored'
    BY <2>6 DEF StartWatch, NewRow, AtRow, attackVars, Listed, Status
  <2>7. ASSUME NEW ip \in IPs, KeepWatching(ip) PROVE NoCriticalRowIgnored'
    BY <2>7 DEF KeepWatching, NewRow, AtRow, attackVars, Listed, Status
  <2>8. CASE DropVanishedPending
    BY <2>8 DEF DropVanishedPending, attackVars, Listed, Status
  <2>9. ASSUME NEW ip \in IPs, EndAttack(ip) PROVE NoCriticalRowIgnored'
    BY <2>9 DEF EndAttack, AtActive, Over, watchVars, Listed, Status
  <2>10. ASSUME NEW ip \in IPs, KeepActive(ip) PROVE NoCriticalRowIgnored'
    BY <2>10 DEF KeepActive, AtActive, watchVars, attackVars, Listed, Status
  <2>11. CASE Sleep \/ Wake
    BY <2>11 DEF Sleep, Wake, watchVars, attackVars, Listed, Status
  <2>12. CASE Restart
    BY <2>12 DEF Restart
  <2>13. CASE UNCHANGED vars
    BY <2>13 DEF vars, loopVars, watchVars, attackVars, Listed, Status
  <2>14. QED
    BY <2>1, <2>2, <2>3, <2>5, <2>6, <2>7, <2>8, <2>9, <2>10, <2>11, <2>12,
       <2>13 DEF Next, Loop, RowStep, CleanupStep
<1>3. QED
  BY <1>1, <1>2, TypeCorrect, PTL DEF Spec

\* After a cleanup only addresses of that cycle's rows are still pending.
THEOREM NoWatchAcrossAGap == Spec => []WatchIsUnbroken
<1>1. Init => WatchIsUnbroken
  BY DEF Init, WatchIsUnbroken
<1>2. WatchIsUnbroken /\ [Next]_vars => WatchIsUnbroken'
  <2> SUFFICES ASSUME WatchIsUnbroken, [Next]_vars PROVE WatchIsUnbroken'
    OBVIOUS
  <2> USE DEF WatchIsUnbroken, Listed
  <2>1. CASE GetAttacks
    BY <2>1 DEF GetAttacks
  <2>2. ASSUME NEW ip \in IPs, RowStep(ip) PROVE WatchIsUnbroken'
    BY <2>2 DEF RowStep, SkipStaleRow, RefreshActive, AlertImmediate,
                StartWatch, KeepWatching, Confirm, NewRow, AtRow
  <2>3. CASE DropVanishedPending
    BY <2>3 DEF DropVanishedPending
  <2>4. ASSUME NEW ip \in IPs, CleanupStep(ip) PROVE WatchIsUnbroken'
    BY <2>4 DEF CleanupStep, EndAttack, KeepActive, AtActive, watchVars
  <2>5. CASE Sleep \/ Wake \/ UNCHANGED vars
    BY <2>5 DEF Sleep, Wake, vars, loopVars, watchVars
  <2>6. CASE Restart
    BY <2>6 DEF Restart
  <2>7. QED
    BY <2>1, <2>2, <2>3, <2>4, <2>5, <2>6 DEF Next, Loop
<1>3. QED
  BY <1>1, <1>2, PTL DEF Spec

-----------------------------------------------------------------------------
\* Every check passed stands for a minute of growth since the watch began.
THEOREM ChecksCountGrowth == Spec => []ChecksAreGrowth
<1>1. Init => ChecksAreGrowth
  BY DEF Init, ChecksAreGrowth
<1>2. TypeOK /\ ChecksAreGrowth /\ [Next]_vars => ChecksAreGrowth'
  <2> SUFFICES ASSUME TypeOK, ChecksAreGrowth, [Next]_vars
               PROVE  ChecksAreGrowth'
    OBVIOUS
  <2> USE DEF ChecksAreGrowth
  <2>0. RequiredChecks \in Nat \ {0} /\ ConstantMinutes \in Nat
    BY ConstantsAssumption
  <2>1. ASSUME UNCHANGED watchVars PROVE ChecksAreGrowth'
    BY <2>1 DEF watchVars
  <2>2. ASSUME NEW ip \in IPs, AlertImmediate(ip) \/ Confirm(ip)
        PROVE  ChecksAreGrowth'
    BY <2>2 DEF AlertImmediate, Confirm, Unwatch, TypeOK
  <2>3. ASSUME NEW ip \in IPs, StartWatch(ip) PROVE ChecksAreGrowth'
    <3>1. /\ fetched[ip].persist \in 0..MaxPersist
          /\ fetched[ip].persist >= ConstantMinutes
      BY <2>3, RowType DEF StartWatch, NewRow, AtRow, TypeOK, Status
    <3>2. MaxPersist \in Nat
      BY ConstantsAssumption
    <3>3. QED
      BY <2>0, <2>3, <3>1, <3>2 DEF StartWatch, TypeOK
  <2>4. ASSUME NEW ip \in IPs, KeepWatching(ip) PROVE ChecksAreGrowth'
    <3>1. fetched[ip].persist \in 0..MaxPersist
      BY <2>4, RowType DEF KeepWatching, NewRow, AtRow, TypeOK
    <3>2. CASE Rises(ip)
      <4>1. lastPers'[ip] >= watchedFrom'[ip] + checksPassed'[ip]
        BY <2>4, <3>1, <3>2 DEF KeepWatching, ChecksAfter, Rises, TypeOK
      <4>2. QED
        BY <2>4, <3>2, <4>1 DEF KeepWatching, TypeOK
    <3>3. CASE ~Rises(ip)
      BY <2>4, <3>3 DEF KeepWatching, ChecksAfter, TypeOK
    <3>4. QED
      BY <3>2, <3>3
  <2>5. CASE DropVanishedPending
    BY <2>5 DEF DropVanishedPending, TypeOK
  <2>6. CASE Restart
    BY <2>6 DEF Restart
  <2>7. QED
    BY <2>1, <2>2, <2>3, <2>4, <2>5, <2>6
       DEF Next, Loop, RowStep, CleanupStep, GetAttacks, SkipStaleRow,
           RefreshActive, EndAttack, KeepActive, AtActive, Sleep, Wake, vars
<1>3. QED
  BY <1>1, <1>2, TypeCorrect, PTL DEF Spec

\* A sustained attack is confirmed only after REQUIRED_CHECKS minutes of growth
\* within one watch (alert.py:141-161).
THEOREM ConfirmationNeedsGrowth == Spec => ConfirmedByGrowth
<1> DEFINE A == \A ip \in IPs :
       Alerted(ip) /\ Status(fetched[ip]) = "Critical_Constant_Attack" =>
         /\ ip \in pending
         /\ watchedFrom[ip] >= ConstantMinutes
         /\ fetched[ip].persist >= watchedFrom[ip] + RequiredChecks
<1>1. TypeOK /\ ChecksAreGrowth /\ [Next]_vars => [A]_vars
  <2> SUFFICES ASSUME TypeOK, ChecksAreGrowth, Next, NEW ip \in IPs,
                      Alerted(ip),
                      Status(fetched[ip]) = "Critical_Constant_Attack"
               PROVE  /\ ip \in pending
                      /\ watchedFrom[ip] >= ConstantMinutes
                      /\ fetched[ip].persist >= watchedFrom[ip] + RequiredChecks
    OBVIOUS
  <2>1. \E p \in IPs : AlertImmediate(p) \/ Confirm(p)
    BY DEF Alerted, Next, Loop, RowStep, CleanupStep, GetAttacks,
           SkipStaleRow, RefreshActive, StartWatch, KeepWatching,
           DropVanishedPending, EndAttack, KeepActive, Sleep, Wake, Restart,
           attackVars
  <2>2. AlertImmediate(ip) \/ Confirm(ip)
    BY <2>1 DEF AlertImmediate, Confirm, Notify, Alerted
  <2>3. Confirm(ip)
    BY <2>2 DEF AlertImmediate, NewRow
  <2>4. fetched[ip].persist \in 0..MaxPersist
    BY <2>3, RowType DEF Confirm, NewRow, AtRow, TypeOK
  <2>5. /\ ip \in pending
        /\ checksPassed[ip] < RequiredChecks
        /\ watchedFrom[ip] >= ConstantMinutes
        /\ lastPers[ip] >= watchedFrom[ip] + checksPassed[ip]
        /\ ChecksAfter(ip) >= RequiredChecks
    BY <2>3 DEF Confirm, ChecksAreGrowth
  <2>6. Rises(ip) /\ checksPassed[ip] + 1 >= RequiredChecks
    BY <2>5, ConstantsAssumption DEF ChecksAfter, TypeOK
  <2>7. QED
    BY <2>4, <2>5, <2>6, ConstantsAssumption DEF Rises, TypeOK
<1>2. QED
  BY <1>1, TypeCorrect, ChecksCountGrowth, PTL DEF Spec, ConfirmedByGrowth

\* The view counts minutes of a sliding window, so a watch that starts too close
\* to MaxPersist can never confirm, however long the attack goes on.
THEOREM LateWatchNeverConfirms ==
  Spec => [][\A ip \in IPs :
               watchedFrom[ip] > MaxPersist - RequiredChecks
               /\ Status(fetched[ip]) = "Critical_Constant_Attack"
               => ~Alerted(ip)]_vars
<1> DEFINE A == \A ip \in IPs :
       Alerted(ip) /\ Status(fetched[ip]) = "Critical_Constant_Attack" =>
         /\ ip \in pending
         /\ watchedFrom[ip] >= ConstantMinutes
         /\ fetched[ip].persist >= watchedFrom[ip] + RequiredChecks
<1> DEFINE B == \A ip \in IPs :
               watchedFrom[ip] > MaxPersist - RequiredChecks
               /\ Status(fetched[ip]) = "Critical_Constant_Attack"
               => ~Alerted(ip)
<1>1. TypeOK /\ [Next]_vars /\ [A]_vars => [B]_vars
  <2> SUFFICES ASSUME TypeOK, Next, A, NEW ip \in IPs,
                      watchedFrom[ip] > MaxPersist - RequiredChecks,
                      Status(fetched[ip]) = "Critical_Constant_Attack",
                      Alerted(ip)
               PROVE  FALSE
    BY DEF Alerted, vars, attackVars
  <2>1. \E p \in IPs : AlertImmediate(p) \/ Confirm(p)
    BY DEF Alerted, Next, Loop, RowStep, CleanupStep, GetAttacks,
           SkipStaleRow, RefreshActive, StartWatch, KeepWatching,
           DropVanishedPending, EndAttack, KeepActive, Sleep, Wake, Restart,
           attackVars
  <2>2. AlertImmediate(ip) \/ Confirm(ip)
    BY <2>1 DEF AlertImmediate, Confirm, Notify, Alerted
  <2>3. fetched[ip].persist \in 0..MaxPersist
    BY <2>2, RowType DEF AlertImmediate, Confirm, NewRow, AtRow, TypeOK
  <2>4. fetched[ip].persist >= watchedFrom[ip] + RequiredChecks
    OBVIOUS
  <2>5. QED
    BY <2>3, <2>4, ConstantsAssumption DEF TypeOK
<1>2. QED
  BY <1>1, TypeCorrect, ConfirmationNeedsGrowth, PTL DEF Spec, ConfirmedByGrowth
=============================================================================
