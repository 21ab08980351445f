---------------------------- MODULE AlertMonitor ----------------------------
(***************************************************************************)
(* The monitoring loop of alert.py: every CHECK_INTERVAL it queries the    *)
(* ClickHouse view view_ddos_baseline_optimized, walks over the rows,      *)
(* moves source addresses between the dictionaries pending_check and       *)
(* active_attacks, sends Telegram messages, and cleans both dictionaries.  *)
(*                                                                         *)
(* The loop is one thread, but each row and each Telegram call is a step   *)
(* of its own here, because a call may time out (and let time pass), its   *)
(* failure is swallowed, and the process may be restarted between any two  *)
(* of them, which loses both dictionaries.                                 *)
(*                                                                         *)
(* Abstractions.  One unit of time is CHECK_INTERVAL.  last_seen is kept   *)
(* as the time elapsed since then, capped just above EndSilence.  start    *)
(* and max_pps only feed the wording of messages and are left out.  A      *)
(* dictionary is its set of keys and a total function for its values,      *)
(* reset to 0 for the absent keys.  The except clause around the loop's    *)
(* body is left out: every column the view returns can be converted and    *)
(* both HTTP calls catch their own exceptions.                             *)
(***************************************************************************)
EXTENDS Integers

CONSTANTS
  IPs,              \* the source addresses the view may list
  NoRow,            \* "the view has no row for this address"
  RequiredChecks,   \* REQUIRED_CHECKS
  ConstantMinutes,  \* the view's threshold for Critical_Constant_Attack
  MaxPersist,       \* bound: the most minutes the view's history can count
  EndSilence,       \* the 60 s of silence, in units of CHECK_INTERVAL
  MaxDelay,         \* bound: units of time one HTTP call may take
  MaxRestarts       \* bound: restarts of the process in a run

Rows == {r \in [persist : 0..MaxPersist, stale : BOOLEAN] :
            r.stale => r.persist = 0}

ASSUME ConstantsAssumption ==
  /\ RequiredChecks \in Nat \ {0}
  /\ ConstantMinutes \in Nat
  /\ MaxPersist \in Nat
  /\ EndSilence \in Nat
  /\ MaxDelay \in Nat
  /\ MaxRestarts \in Nat
  /\ NoRow \notin Rows

VARIABLES
  pc,            \* where the loop is: "query", "rows", "cleanup", "sleep"
  view,          \* what the view really held when it was last queried
  fetched,       \* rows: what get_attacks() returned in this cycle
  todo,          \* the addresses the current loop has not reached yet
  pending,       \* keys of pending_check
  checksPassed,  \* pending_check[ip]['checks_passed']
  lastPers,      \* pending_check[ip]['last_pers']
  active,        \* keys of active_attacks
  silence,       \* time.time() - active_attacks[ip]['last_seen']
  restarts,      \* restarts so far
  \* History variables: the code never reads them.
  watchedFrom,   \* persistence in the row that put the address under watch
  balance,       \* alerts minus end notices sent by this process, per address
  notified       \* addresses whose alert reached the operator

loopVars == <<pc, view, fetched, todo, restarts>>
watchVars == <<pending, checksPassed, lastPers, watchedFrom>>
attackVars == <<active, silence, balance, notified>>
vars == <<loopVars, watchVars, attackVars>>

Views == [IPs -> Rows \cup {NoRow}]
Listed(v) == {ip \in IPs : v[ip] # NoRow}
Fresh(v) == {ip \in Listed(v) : ~v[ip].stale}

\* The view gives every listed row one of three critical statuses; alert.py
\* treats Null_Packet_Flood and Volumetric_Burst alike.
Status(row) == IF row.persist >= ConstantMinutes
               THEN "Critical_Constant_Attack" ELSE "Critical_Immediate"

\* time.time() - last_seen of every active attack after d more units.
Later(d) == [ip \in IPs |->
               IF ip \notin active THEN 0
               ELSE IF silence[ip] + d > EndSilence THEN EndSilence + 1
               ELSE silence[ip] + d]

Delays == 0..MaxDelay

-----------------------------------------------------------------------------
Init ==
  /\ pc = "query"
  /\ view = [ip \in IPs |-> NoRow]
  /\ fetched = [ip \in IPs |-> NoRow]
  /\ todo = {}
  /\ pending = {}
  /\ checksPassed = [ip \in IPs |-> 0]
  /\ lastPers = [ip \in IPs |-> 0]
  /\ watchedFrom = [ip \in IPs |-> 0]
  /\ active = {}
  /\ silence = [ip \in IPs |-> 0]
  /\ restarts = 0
  /\ balance = [ip \in IPs |-> 0]
  /\ notified = {}

\* Mutant: a failed query leaves the rows of the previous cycle in place.
GetAttacksOrOldRows ==
  /\ pc = "query"
  /\ view' \in Views
  /\ fetched' \in {view', fetched}
  /\ todo' = Listed(fetched')
  /\ pc' = "rows"
  /\ \E d \in Delays : silence' = Later(d)
  /\ UNCHANGED <<watchVars, active, balance, notified, restarts>>

(* rows = get_attacks(): an exception or a status other than 200 gives the
   empty list, exactly what a view without attacks gives. *)
GetAttacks ==
  /\ pc = "query"
  /\ view' \in Views
  /\ \/ fetched' = view'
     \/ fetched' = [ip \in IPs |-> NoRow]
  /\ todo' = Listed(fetched')
  /\ pc' = "rows"
  /\ \E d \in Delays : silence' = Later(d)
  /\ UNCHANGED <<watchVars, active, balance, notified, restarts>>

\* The loop reaches the row of ip; rows come in no order the code relies on.
AtRow(ip) ==
  /\ pc = "rows"
  /\ ip \in todo
  /\ todo' = todo \ {ip}
  /\ UNCHANGED <<pc, view, fetched, restarts>>

\* Mutant: a persistence of 0 is taken for a missing one.
SkipRowWithoutMinutes(ip) ==
  /\ AtRow(ip)
  /\ fetched[ip].persist = 0
  /\ UNCHANGED <<watchVars, attackVars>>

SkipStaleRow(ip) ==
  /\ AtRow(ip)
  /\ fetched[ip].stale
  /\ UNCHANGED <<watchVars, attackVars>>

RefreshActive(ip) ==
  /\ AtRow(ip)
  /\ ~fetched[ip].stale
  /\ ip \in active
  /\ silence' = [silence EXCEPT ![ip] = 0]
  /\ UNCHANGED <<watchVars, active, balance, notified>>

\* Mutant: the check "already notified" is missing.
NewRowUnchecked(ip, s) ==
  /\ AtRow(ip)
  /\ ~fetched[ip].stale
  /\ Status(fetched[ip]) = s

\* A fresh row of an address not yet notified, with the status s.
NewRow(ip, s) ==
  /\ AtRow(ip)
  /\ ~fetched[ip].stale
  /\ ip \notin active
  /\ Status(fetched[ip]) = s

Unwatch(ip) ==
  /\ pending' = pending \ {ip}
  /\ checksPassed' = [checksPassed EXCEPT ![ip] = 0]
  /\ lastPers' = [lastPers EXCEPT ![ip] = 0]
  /\ watchedFrom' = [watchedFrom EXCEPT ![ip] = 0]

\* send_telegram of an alert, which may be lost, and then active_attacks[ip] = ...
Notify(ip) ==
  /\ \E d \in Delays : silence' = [Later(d) EXCEPT ![ip] = 0]
  /\ active' = active \cup {ip}
  /\ balance' = [balance EXCEPT ![ip] = @ + 1]
  /\ notified' \in {notified, notified \cup {ip}}

\* Mutant: the immediate alert forgets to delete pending_check[ip].
AlertImmediateKeepingWatch(ip) ==
  /\ NewRow(ip, "Critical_Immediate")
  /\ Notify(ip)
  /\ UNCHANGED watchVars

AlertImmediate(ip) ==
  /\ NewRow(ip, "Critical_Immediate")
  /\ Notify(ip)
  /\ Unwatch(ip)

StartWatch(ip) ==
  /\ NewRow(ip, "Critical_Constant_Attack")
  /\ ip \notin pending
  /\ pending' = pending \cup {ip}
  /\ checksPassed' = [checksPassed EXCEPT ![ip] = 0]
  /\ lastPers' = [lastPers EXCEPT ![ip] = fetched[ip].persist]
  /\ watchedFrom' = [watchedFrom EXCEPT ![ip] = fetched[ip].persist]
  /\ UNCHANGED attackVars

\* Mutant: an unchanged persistence counts as growth.
RisesOrStays(ip) == fetched[ip].persist >= lastPers[ip]

Rises(ip) == fetched[ip].persist > lastPers[ip]
ChecksAfter(ip) == checksPassed[ip] + (IF Rises(ip) THEN 1 ELSE 0)

KeepWatching(ip) ==
  /\ NewRow(ip, "Critical_Constant_Attack")
  /\ ip \in pending
  /\ ChecksAfter(ip) < RequiredChecks
  /\ checksPassed' = [checksPassed EXCEPT ![ip] = ChecksAfter(ip)]
  /\ lastPers' = IF Rises(ip) THEN [lastPers EXCEPT ![ip] = fetched[ip].persist]
                              ELSE lastPers
  /\ UNCHANGED <<pending, watchedFrom, attackVars>>

\* Mutant: confirmed one check too early.
ConfirmEarly(ip) ==
  /\ NewRow(ip, "Critical_Constant_Attack")
  /\ ip \in pending
  /\ ChecksAfter(ip) >= RequiredChecks - 1
  /\ Notify(ip)
  /\ Unwatch(ip)

Confirm(ip) ==
  /\ NewRow(ip, "Critical_Constant_Attack")
  /\ ip \in pending
  /\ ChecksAfter(ip) >= RequiredChecks
  /\ Notify(ip)
  /\ Unwatch(ip)

\* Mutant: pending addresses that vanished are kept.
KeepVanishedPending ==
  /\ pc = "rows"
  /\ todo = {}
  /\ todo' = active
  /\ pc' = "cleanup"
  /\ UNCHANGED <<view, fetched, restarts, watchVars, attackVars>>

\* Mutant: the cleanup walks over the keys of both dictionaries.
CleanBothTogether ==
  /\ pc = "rows"
  /\ todo = {}
  /\ todo' = active \cup pending
  /\ pc' = "cleanup"
  /\ UNCHANGED <<view, fetched, restarts, watchVars, attackVars>>

(* All rows done: the pending addresses the cycle did not list are deleted. *)
DropVanishedPending ==
  /\ pc = "rows"
  /\ todo = {}
  /\ LET kept == pending \cap Listed(fetched)
         Kept(f) == [ip \in IPs |-> IF ip \in kept THEN f[ip] ELSE 0]
     IN  /\ pending' = kept
         /\ checksPassed' = Kept(checksPassed)
         /\ lastPers' = Kept(lastPers)
         /\ watchedFrom' = Kept(watchedFrom)
  /\ todo' = active
  /\ pc' = "cleanup"
  /\ UNCHANGED <<view, fetched, restarts, attackVars>>

\* list(active_attacks.keys()) is walked once.
AtActive(ip) ==
  /\ pc = "cleanup"
  /\ ip \in todo
  /\ todo' = todo \ {ip}
  /\ UNCHANGED <<pc, view, fetched, restarts, watchVars>>

Over(ip) == ip \notin Listed(fetched) /\ silence[ip] > EndSilence

EndAttack(ip) ==
  /\ AtActive(ip)
  /\ Over(ip)
  /\ active' = active \ {ip}
  /\ balance' = [balance EXCEPT ![ip] = @ - 1]
  /\ notified' \in {notified, notified \ {ip}}
  /\ \E d \in Delays : silence' = [Later(d) EXCEPT ![ip] = 0]

KeepActive(ip) ==
  /\ AtActive(ip)
  /\ ~Over(ip)
  /\ UNCHANGED attackVars

Sleep ==
  /\ pc = "cleanup"
  /\ todo = {}
  /\ pc' = "sleep"
  /\ UNCHANGED <<view, fetched, todo, restarts, watchVars, attackVars>>

Wake ==
  /\ pc = "sleep"
  /\ pc' = "query"
  /\ silence' = Later(1)
  /\ UNCHANGED <<view, fetched, todo, restarts, watchVars, active, balance,
                 notified>>

(* The process dies at any point and is started again: both dictionaries are
   plain variables, so nothing of them survives. *)
Restart ==
  /\ restarts < MaxRestarts
  /\ restarts' = restarts + 1
  /\ pc' = "query"
  /\ todo' = {}
  /\ fetched' = [ip \in IPs |-> NoRow]
  /\ pending' = {}
  /\ active' = {}
  /\ checksPassed' = [ip \in IPs |-> 0]
  /\ lastPers' = [ip \in IPs |-> 0]
  /\ watchedFrom' = [ip \in IPs |-> 0]
  /\ silence' = [ip \in IPs |-> 0]
  /\ balance' = [ip \in IPs |-> 0]
  /\ UNCHANGED <<view, notified>>

-----------------------------------------------------------------------------
RowStep(ip) ==
  \/ SkipStaleRow(ip)
  \/ RefreshActive(ip)
  \/ AlertImmediate(ip)
  \/ StartWatch(ip)
  \/ KeepWatching(ip)
  \/ Confirm(ip)

CleanupStep(ip) == EndAttack(ip) \/ KeepActive(ip)

Loop ==
  \/ GetAttacks
  \/ \E ip \in IPs : RowStep(ip)
  \/ DropVanishedPending
  \/ \E ip \in IPs : CleanupStep(ip)
  \/ Sleep
  \/ Wake

Next == Loop \/ Restart

Spec == Init /\ [][Next]_vars

\* Every HTTP call has a timeout, so the loop always goes on.
FairSpec == Spec /\ WF_vars(Loop)
-----------------------------------------------------------------------------
(* Properties *)

\* Types, and: what is left to do are rows of this cycle, or open attacks.
TypeOK ==
  /\ pc \in {"query", "rows", "cleanup", "sleep"}
  /\ view \in Views
  /\ fetched \in Views
  /\ todo \in SUBSET IPs
  /\ pc = "rows" => todo \subseteq Listed(fetched)
  /\ pc = "cleanup" => todo \subseteq active
  /\ pending \in SUBSET IPs
  /\ checksPassed \in [IPs -> 0..RequiredChecks]
  /\ lastPers \in [IPs -> 0..MaxPersist]
  /\ watchedFrom \in [IPs -> 0..MaxPersist]
  /\ active \in SUBSET IPs
  /\ silence \in [IPs -> 0..EndSilence + 1]
  /\ restarts \in 0..MaxRestarts
  /\ balance \in [IPs -> Int]
  /\ notified \in SUBSET IPs

\* An address is never under watch and notified at once: every alert also
\* leaves pending_check, and the row of a notified address is never watched
\* (alert.py:95-98, 121, 161).
OneBookPerAddress == pending \cap active = {}

\* Per address the process sends alert, end, alert, end, ...: no second alert
\* while the attack is open and no end notice without an alert, whatever the
\* order of statuses, silences and failures (alert.py:95-98, 177-186).
AlertsAndEndsPair ==
  \A ip \in IPs : balance[ip] = IF ip \in active THEN 1 ELSE 0

\* The rows of the cycle that the row loop is done with.
Handled == IF pc = "query" THEN {}
           ELSE IF pc = "rows" THEN Fresh(fetched) \ todo
           ELSE Fresh(fetched)

\* A fresh critical row is never forgotten by its cycle: once its row is done
\* the address is watched or notified, notified if its status asks for an
\* immediate alert, and the cleanup that follows does not undo it.
NoCriticalRowIgnored ==
  \A ip \in Handled :
    \/ ip \in active
    \/ ip \in pending /\ Status(fetched[ip]) = "Critical_Constant_Attack"

\* A watch survives no gap: after a cycle's cleanup only addresses of that
\* cycle's rows are still pending (alert.py:168-171).
WatchIsUnbroken ==
  pc \in {"cleanup", "sleep", "query"} => pending \subseteq Listed(fetched)

\* What the checks count: the persistence has grown by at least one minute for
\* each check passed since the row that started the watch.
ChecksAreGrowth ==
  \A ip \in pending :
    /\ checksPassed[ip] < RequiredChecks
    /\ watchedFrom[ip] >= ConstantMinutes
    /\ lastPers[ip] >= watchedFrom[ip] + checksPassed[ip]

Alerted(ip) == ip \notin active /\ ip \in active'

\* A sustained attack is confirmed only for an address whose persistence grew by
\* REQUIRED_CHECKS minutes within one unbroken watch.
ConfirmedByGrowth ==
  [][\A ip \in IPs :
       Alerted(ip) /\ Status(fetched[ip]) = "Critical_Constant_Attack" =>
         /\ ip \in pending
         /\ watchedFrom[ip] >= ConstantMinutes
         /\ fetched[ip].persist >= watchedFrom[ip] + RequiredChecks]_vars

\* An attack the view no longer lists is closed for good: no address stays
\* under watch or notified for ever, even if queries keep failing.
StoppedAttackIsClosed ==
  \A ip \in IPs :
    <>[](view[ip] = NoRow) => <>[](ip \notin active \cup pending)

\* alert.py:20 calls active_attacks the attacks already notified.
ActiveMeansNotified == active \subseteq notified

Ended(ip) == ip \in active /\ ip \notin active' /\ restarts' = restarts

\* alert.py:173 says of the cleanup that it deletes active attacks that ended.
EndedMeansOver == [][\A ip \in IPs : Ended(ip) => view[ip] = NoRow]_vars
=============================================================================
