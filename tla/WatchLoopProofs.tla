-------------------------- MODULE WatchLoopProofs ---------------------------
(***************************************************************************)
(* Proofs about the watch loop, for any files, roots and callers of tick().*)
(*                                                                         *)
(* TypeOK, OneSweep and LossRecorded are inductive on top of each other.   *)
(* NoLostChange is not: a forced wake that takes what is owed with it      *)
(* forgets it at the end, whether or not its own sweep was turned away, so *)
(* what is owed stands for nothing while that wake is carried out.  Kept   *)
(* says so, and Carried what a sweep in flight and a debt stand for.       *)
(***************************************************************************)
EXTENDS WatchLoop, TLAPS

-----------------------------------------------------------------------------
(* Scopes.                                                                 *)

LEMMA ScopeTypes ==
    /\ NoScope \in Scope /\ Everything \in Scope
    /\ \A a, b \in Scope : Union(a, b) \in Scope /\ Widen(a, b) \in Scope
    /\ \A f \in Files : EventScopes(f) \subseteq Scope
<1>1. NoScope \in Scope /\ Everything \in Scope
  BY DEF NoScope, Everything, Scope
<1>2. ASSUME NEW a \in Scope, NEW b \in Scope
      PROVE  Union(a, b) \in Scope /\ Widen(a, b) \in Scope
  BY <1>1 DEF Union, Widen, Under, Scope, Everything
<1>3. ASSUME NEW f \in Files PROVE EventScopes(f) \subseteq Scope
  <2>1. RootOf[f] \in Roots
    BY WatchAssumption
  <2>2. ASSUME NEW p \in {"path", "root", "none"} PROVE EventScope(f, p) \in Scope
    BY <1>1, <2>1 DEF EventScope, Under, Scope, Everything
  <2> QED
    BY <2>2, WatchAssumption DEF EventScopes
<1> QED
  BY <1>1, <1>2, <1>3

(* No scope ever covers less for having been widened (Scope::union).       *)
LEMMA WidenCovers ==
    ASSUME NEW a \in Scope, NEW b \in Scope, NEW f \in Files
    PROVE  /\ Covers(a, f) => Covers(Widen(a, b), f)
           /\ Covers(b, f) => Covers(Widen(a, b), f)
<1>1. ~ Covers(NoScope, f)
  BY DEF Covers, NoScope
<1>2. /\ Covers(a, f) => Covers(Union(a, b), f)
      /\ Covers(b, f) => Covers(Union(a, b), f)
  <2>1. CASE a.all \/ b.all
    BY <2>1 DEF Union, Everything, Covers
  <2>2. CASE ~ a.all /\ ~ b.all
    BY <2>2 DEF Union, Under, Covers, Scope
  <2> QED
    BY <2>1, <2>2
<1> QED
  BY <1>1, <1>2 DEF Widen

(* However the backend places an event, its scope covers its file.         *)
LEMMA EventCovers ==
    ASSUME NEW f \in Files, NEW sc \in EventScopes(f) PROVE Covers(sc, f)
<1>1. PICK p \in Placings : sc = EventScope(f, p)
  BY DEF EventScopes
<1>2. p \in {"path", "root", "none"}
  BY WatchAssumption
<1> QED
  BY <1>1, <1>2 DEF EventScope, Under, Everything, Covers

-----------------------------------------------------------------------------
(* Type correctness.                                                       *)

LEMMA LoopIsThread == Loop \in Threads /\ Tickers \subseteq Threads /\ Loop \notin Tickers
BY WatchAssumption DEF Threads

LEMMA TypeInit == Init => TypeOK
<1> SUFFICES ASSUME Init PROVE TypeOK
  OBVIOUS
<1>1. /\ pc \in [Threads -> LoopPoints \cup TickPoints]
      /\ pc[Loop] \in LoopPoints /\ \A t \in Tickers : pc[t] \in TickPoints
  BY LoopIsThread DEF Init, LoopPoints, TickPoints
<1>2. hand \in [Threads -> Scope]
  BY ScopeTypes DEF Init
<1>3. owed \in [retry : BOOLEAN, due : BOOLEAN, scope : Scope]
  BY ScopeTypes DEF Init, NoOwed
<1>4. ticks \in 0 .. MaxTicks /\ losses \in 0 .. MaxLost
  BY WatchAssumption DEF Init
<1> QED
  BY <1>1, <1>2, <1>3, <1>4, ScopeTypes DEF Init, TypeOK, Triggers

(* A thread moved to one of its own places keeps pc in its type.           *)
LEMMA PcTypes ==
    ASSUME TypeOK, NEW t \in Threads, NEW l,
           t = Loop => l \in LoopPoints, t # Loop => l \in TickPoints,
           pc' = [pc EXCEPT ![t] = l]
    PROVE  /\ pc' \in [Threads -> LoopPoints \cup TickPoints]
           /\ pc'[Loop] \in LoopPoints /\ \A u \in Tickers : pc'[u] \in TickPoints
BY LoopIsThread DEF TypeOK, Threads

LEMMA ReleaseTypes ==
    ASSUME TypeOK, NEW t \in Threads, Release(t)
    PROVE  /\ pc' \in [Threads -> LoopPoints \cup TickPoints]
           /\ pc'[Loop] \in LoopPoints /\ \A u \in Tickers : pc'[u] \in TickPoints
           /\ hand' \in [Threads -> Scope] /\ holder' \in SUBSET Threads
           /\ deferred' \in Scope
<1>1. \A u \in Threads : pc'[u] = IF u = t THEN "post"
                                  ELSE IF pc[u] = "join" THEN "joined" ELSE pc[u]
  BY DEF Release
<1>2. pc[Loop] # "join"
  BY DEF TypeOK, LoopPoints
<1>3. pc'[Loop] \in LoopPoints
  BY <1>1, <1>2, LoopIsThread DEF TypeOK, LoopPoints
<1>4. \A u \in Tickers : pc'[u] \in TickPoints
  BY <1>1, LoopIsThread DEF TypeOK, TickPoints
<1>5. pc' \in [Threads -> LoopPoints \cup TickPoints]
  <2>1. \A u \in Threads : pc'[u] \in LoopPoints \cup TickPoints
    BY <1>3, <1>4 DEF Threads
  <2> QED
    BY <2>1 DEF Release
<1> QED
  BY <1>3, <1>4, <1>5, ScopeTypes DEF Release, TypeOK

LEMMA SweepTypes ==
    ASSUME TypeOK, NEW t \in Threads, NEW forced, NEW sc, StartSweep(t, forced, sc)
    PROVE  /\ pc' \in [Threads -> LoopPoints \cup TickPoints]
           /\ pc'[Loop] \in LoopPoints /\ \A u \in Tickers : pc'[u] \in TickPoints
           /\ hand' \in [Threads -> Scope] /\ holder' \in SUBSET Threads
           /\ deferred' \in Scope
           /\ unread' \in SUBSET Files /\ reading' \in SUBSET unread' /\ unwatched' \in BOOLEAN
<1>1. "sweeping" \in LoopPoints /\ "sweeping" \in TickPoints
  BY DEF LoopPoints, TickPoints
<1>2. pc' = [pc EXCEPT ![t] = "sweeping"]
  BY DEF StartSweep
<1>3. /\ pc' \in [Threads -> LoopPoints \cup TickPoints]
      /\ pc'[Loop] \in LoopPoints /\ \A u \in Tickers : pc'[u] \in TickPoints
  BY <1>1, <1>2, PcTypes
<1> QED
  BY <1>3 DEF StartSweep, TypeOK

LEMMA TypeNext == TypeOK /\ [Next]_vars => TypeOK'
<1> SUFFICES ASSUME TypeOK, [Next]_vars PROVE TypeOK'
  OBVIOUS
<1> USE LoopIsThread
<1>1. ASSUME NEW f \in Files, NEW sc \in EventScopes(f), Signal(f, sc) PROVE TypeOK'
  <2>1. pending' \in Scope
    BY <1>1, ScopeTypes DEF Signal, TypeOK
  <2> QED
    BY <1>1, <2>1 DEF Signal, TypeOK, run, current, timers
<1>2. CASE SignalRegistrationLost
  <2>1. losses' \in 0 .. MaxLost
    BY <1>2, WatchAssumption DEF SignalRegistrationLost, TypeOK
  <2> QED
    BY <1>2, <2>1 DEF SignalRegistrationLost, TypeOK, run, current, timers
<1>3. CASE RetryDue
  <2>1. owed' \in [retry : BOOLEAN, due : BOOLEAN, scope : Scope]
    BY <1>3 DEF RetryDue, TypeOK
  <2> QED
    BY <1>3, <2>1 DEF RetryDue, TypeOK, wake, run, current, observed
<1>4. CASE BackstopDue
  BY <1>4 DEF BackstopDue, TypeOK, wake, run, current, observed
<1>5. CASE Startup
  <2>1. CASE holder = {} /\ StartSweep(Loop, FALSE, Everything)
    BY <1>5, <2>1, SweepTypes DEF Startup, TypeOK, wake, current, timers
  <2>2. CASE Goto("check") /\ UNCHANGED <<holder, deferred, hand, observed>>
    <3>1. "check" \in LoopPoints
      BY DEF LoopPoints
    <3> QED
      BY <1>5, <2>2, <3>1, PcTypes DEF Startup, Goto, TypeOK, wake, current, timers, observed
  <2> QED
    BY <1>5, <2>1, <2>2 DEF Startup
<1>6. CASE Check
  <2>1. {"done", "wait"} \subseteq LoopPoints
    BY DEF LoopPoints
  <2> QED
    BY <1>6, <2>1, PcTypes DEF Check, Goto, TypeOK, wake, run, current, timers, observed
<1>7. CASE Wait
  <2>1. {"done", "woken", "debounce", "parked"} \subseteq LoopPoints
    BY DEF LoopPoints
  <2>2. /\ pc' \in [Threads -> LoopPoints \cup TickPoints]
        /\ pc'[Loop] \in LoopPoints /\ \A t \in Tickers : pc'[t] \in TickPoints
    BY <1>7, <2>1, PcTypes DEF Wait, Goto
  <2>3. lost' \in BOOLEAN /\ trigger' \in Triggers /\ scope' \in Scope
    BY <1>7, ScopeTypes DEF Wait, TypeOK, Triggers
  <2> QED
    BY <1>7, <2>2, <2>3 DEF Wait, TypeOK, run, timers, observed
<1>8. CASE Notified
  <2>1. "wait" \in LoopPoints
    BY DEF LoopPoints
  <2> QED
    BY <1>8, <2>1, PcTypes DEF Notified, Goto, TypeOK, wake, run, current, timers, observed
<1>9. CASE TimedOut
  <2>1. {"done", "woken"} \subseteq LoopPoints
    BY DEF LoopPoints
  <2>2. /\ pc' \in [Threads -> LoopPoints \cup TickPoints]
        /\ pc'[Loop] \in LoopPoints /\ \A t \in Tickers : pc'[t] \in TickPoints
    BY <1>9, <2>1, PcTypes DEF TimedOut, Goto
  <2>3. trigger' \in Triggers /\ scope' \in Scope
    BY <1>9, ScopeTypes DEF TimedOut, TypeOK, Triggers
  <2> QED
    BY <1>9, <2>2, <2>3 DEF TimedOut, TypeOK, wake, run, timers, observed
<1>10. CASE Debounced
  <2>1. {"done", "woken"} \subseteq LoopPoints
    BY DEF LoopPoints
  <2>2. /\ pc' \in [Threads -> LoopPoints \cup TickPoints]
        /\ pc'[Loop] \in LoopPoints /\ \A t \in Tickers : pc'[t] \in TickPoints
    BY <1>10, <2>1, PcTypes DEF Debounced, Goto
  <2>3. trigger' \in Triggers /\ scope' \in Scope /\ pending' \in Scope
    BY <1>10, ScopeTypes DEF Debounced, TypeOK, Triggers
  <2> QED
    BY <1>10, <2>2, <2>3 DEF Debounced, TypeOK, run, timers, observed
<1>11. CASE Reconcile
  <2>1. {"done", "check", "fold"} \subseteq LoopPoints
    BY DEF LoopPoints
  <2>2. /\ pc' \in [Threads -> LoopPoints \cup TickPoints]
        /\ pc'[Loop] \in LoopPoints /\ \A t \in Tickers : pc'[t] \in TickPoints
    BY <1>11, <2>1, PcTypes DEF Reconcile, Goto
  <2>3. lost' \in BOOLEAN /\ unwatched' \in BOOLEAN
    BY <1>11 DEF Reconcile, TypeOK
  <2> QED
    BY <1>11, <2>2, <2>3 DEF Reconcile, TypeOK, run, current, timers
<1>12. CASE Fold
  <2>1. {"claim", "check"} \subseteq LoopPoints
    BY DEF LoopPoints
  <2>2. /\ pc' \in [Threads -> LoopPoints \cup TickPoints]
        /\ pc'[Loop] \in LoopPoints /\ \A t \in Tickers : pc'[t] \in TickPoints
    BY <1>12, <2>1, PcTypes DEF Fold, Goto
  <2>3. scope' \in Scope
    BY <1>12, ScopeTypes DEF Fold, FoldedScope, TypeOK
  <2>4. /\ trigger' \in Triggers
        /\ owed' \in [retry : BOOLEAN, due : BOOLEAN, scope : Scope]
    BY <1>12, ScopeTypes DEF Fold, TypeOK, Triggers, NoOwed
  <2>5. isRetry' \in BOOLEAN /\ backstop' \in BOOLEAN
    BY <1>12 DEF Fold, TypeOK
  <2> QED
    BY <1>12, <2>2, <2>3, <2>4, <2>5 DEF Fold, TypeOK, wake, run, observed
<1>13. CASE Claim
  <2>1. CASE holder = {} /\ StartSweep(Loop, ForcesScan(trigger), scope) /\ UNCHANGED owes
    BY <1>13, <2>1, SweepTypes DEF Claim, TypeOK, wake, timers
  <2>2. CASE /\ holder # {}
             /\ deferred' = IF ForcesScan(trigger) THEN Widen(deferred, scope) ELSE deferred
             /\ owes' = FALSE
             /\ Goto("settle")
             /\ UNCHANGED <<holder, hand, observed>>
    <3>1. "settle" \in LoopPoints
      BY DEF LoopPoints
    <3>2. deferred' \in Scope
      BY <2>2, ScopeTypes DEF TypeOK
    <3> QED
      BY <1>13, <2>2, <3>1, <3>2, PcTypes, ZenonT(30) DEF Claim, Goto, TypeOK, wake, timers, observed
  <2> QED
    BY <1>13, <2>1, <2>2 DEF Claim
<1>14. CASE Settle
  <2>1. "check" \in LoopPoints
    BY DEF LoopPoints
  <2>2. owed' \in [retry : BOOLEAN, due : BOOLEAN, scope : Scope]
    BY <1>14, ScopeTypes DEF Settle, TurnedAway, NoOwed, TypeOK
  <2> QED
    BY <1>14, <2>1, <2>2, PcTypes DEF Settle, Goto, TypeOK, wake, run, observed
<1>15. ASSUME NEW t \in Threads, Cancelled(t) PROVE TypeOK'
  <2>1. "cancelled" \in LoopPoints /\ "cancelled" \in TickPoints
    BY DEF LoopPoints, TickPoints
  <2> QED
    BY <1>15, <2>1, PcTypes DEF Cancelled, TypeOK, run, current, timers, observed
<1>16. ASSUME NEW t \in Threads, NEW o \in Outcomes, EndSweep(t, o) PROVE TypeOK'
  <2>1. owes' \in BOOLEAN
    BY <1>16 DEF EndSweep, TypeOK
  <2>2. unread' \in SUBSET Files /\ reading' \in SUBSET unread'
    BY <1>16 DEF EndSweep, TypeOK
  <2>3. Release(t)
    BY <1>16 DEF EndSweep
  <2> QED
    BY <1>16, <2>1, <2>2, <2>3, ReleaseTypes DEF EndSweep, TypeOK, wake, timers
<1>17. ASSUME NEW t \in Threads, Post(t) PROVE TypeOK'
  <2>1. "settle" \in LoopPoints /\ "idle" \in TickPoints
    BY DEF LoopPoints, TickPoints
  <2>2. pending' \in Scope /\ hand' \in [Threads -> Scope]
    BY <1>17, ScopeTypes DEF Post, TypeOK
  <2>3. /\ pc' \in [Threads -> LoopPoints \cup TickPoints]
        /\ pc'[Loop] \in LoopPoints /\ \A u \in Tickers : pc'[u] \in TickPoints
    BY <1>17, <2>1, PcTypes DEF Post
  <2> QED
    BY <1>17, <2>2, <2>3 DEF Post, TypeOK, run, current, timers, observed
<1>18. ASSUME NEW t \in Tickers, Tick(t) PROVE TypeOK'
  <2>1. t \in Threads /\ t # Loop
    OBVIOUS
  <2>2. ticks' \in 0 .. MaxTicks
    BY <1>18, WatchAssumption DEF Tick, TypeOK
  <2>3. CASE holder = {} /\ StartSweep(t, FALSE, Everything)
    BY <1>18, <2>1, <2>2, <2>3, SweepTypes DEF Tick, TypeOK, wake, current, timers
  <2>4. CASE /\ holder # {}
             /\ pc' = [pc EXCEPT ![t] = "join"]
             /\ UNCHANGED <<run, hand, observed>>
    <3>1. "join" \in TickPoints
      BY DEF TickPoints
    <3> QED
      BY <1>18, <2>1, <2>2, <2>4, <3>1, PcTypes
         DEF Tick, TypeOK, wake, run, current, timers, observed
  <2> QED
    BY <1>18, <2>3, <2>4 DEF Tick
<1>19. ASSUME NEW t \in Tickers, Joined(t) PROVE TypeOK'
  <2>1. t \in Threads /\ t # Loop /\ "idle" \in TickPoints
    BY DEF TickPoints
  <2> QED
    BY <1>19, <2>1, PcTypes DEF Joined, TypeOK, wake, run, current, timers, observed
<1>20. CASE Stop
  BY <1>20 DEF Stop, TypeOK, run, current, timers, observed
<1>21. CASE StopReturns
  BY <1>21 DEF StopReturns, TypeOK, wake, run, current, timers, observed
<1>22. CASE UNCHANGED vars
  BY <1>22 DEF vars, TypeOK
<1> QED
  BY <1>1, <1>2, <1>3, <1>4, <1>5, <1>6, <1>7, <1>8, <1>9, <1>10, <1>11, <1>12, <1>13,
     <1>14, <1>15, <1>16, <1>17, <1>18, <1>19, <1>20, <1>21, <1>22 DEF Next

(* The loop, its callers and both slots keep their types; the loop never   *)
(* waits in a join (claim_or_defer and run_or_join are different).         *)
THEOREM WatchTypeCorrect == Spec => []TypeOK
<1>1. Init => TypeOK
  BY TypeInit
<1>2. TypeOK /\ [Next]_vars => TypeOK'
  BY TypeNext
<1> QED
  BY <1>1, <1>2, PTL DEF Spec

-----------------------------------------------------------------------------
(* One sweep at a time.                                                    *)

LEMMA SweepStarts ==
    ASSUME TypeOK, OneSweep, NEW t \in Threads, NEW forced, NEW sc,
           holder = {}, StartSweep(t, forced, sc)
    PROVE  OneSweep'
BY DEF StartSweep, OneSweep, TypeOK

LEMMA SweepEnds ==
    ASSUME TypeOK, OneSweep, NEW t \in Threads, pc[t] \in {"sweeping", "cancelled"}, Release(t)
    PROVE  OneSweep'
<1>1. holder = {t} /\ holder' = {}
  BY DEF OneSweep, Release
<1>2. \A u \in Threads : u # t => pc[u] \notin {"sweeping", "cancelled"}
  BY <1>1 DEF OneSweep
<1>3. \A u \in Threads : pc'[u] \notin {"sweeping", "cancelled"}
  BY <1>2 DEF Release
<1> QED
  BY <1>1, <1>3 DEF OneSweep

(* A thread that is not sweeping and moves elsewhere changes nothing.      *)
LEMMA SweepMoves ==
    ASSUME TypeOK, OneSweep, NEW t \in Threads, NEW l, holder' = holder,
           pc' = [pc EXCEPT ![t] = l],
           (pc[t] \in {"sweeping", "cancelled"}) <=> (l \in {"sweeping", "cancelled"})
    PROVE  OneSweep'
BY DEF OneSweep, TypeOK

LEMMA OneSweepNext == TypeOK /\ OneSweep /\ [Next]_vars => OneSweep'
<1> SUFFICES ASSUME TypeOK, OneSweep, [Next]_vars PROVE OneSweep'
  OBVIOUS
<1> USE LoopIsThread
<1>1. ASSUME holder' = holder, pc' = pc PROVE OneSweep'
  BY <1>1 DEF OneSweep
<1>2. ASSUME NEW f \in Files, NEW sc \in EventScopes(f), Signal(f, sc) PROVE OneSweep'
  BY <1>1, <1>2 DEF Signal, run
<1>3. CASE SignalRegistrationLost \/ RetryDue \/ BackstopDue \/ Stop \/ StopReturns
  BY <1>1, <1>3 DEF SignalRegistrationLost, RetryDue, BackstopDue, Stop, StopReturns, run
<1>4. CASE UNCHANGED vars
  BY <1>1, <1>4 DEF vars
<1>5. CASE Startup
  BY <1>5, SweepStarts, SweepMoves DEF Startup, Goto
<1>6. CASE Check \/ Wait \/ Notified \/ TimedOut \/ Debounced
  BY <1>6, SweepMoves DEF Check, Wait, Notified, TimedOut, Debounced, Goto, run
<1>7. CASE Reconcile \/ Fold \/ Settle
  BY <1>7, SweepMoves DEF Reconcile, Fold, Settle, Goto, run
<1>8. CASE Claim
  BY <1>8, SweepStarts, SweepMoves DEF Claim, Goto
<1>9. ASSUME NEW t \in Threads, Cancelled(t) PROVE OneSweep'
  BY <1>9, SweepMoves DEF Cancelled, run
<1>10. ASSUME NEW t \in Threads, NEW o \in Outcomes, EndSweep(t, o) PROVE OneSweep'
  BY <1>10, SweepEnds DEF EndSweep
<1>11. ASSUME NEW t \in Threads, Post(t) PROVE OneSweep'
  BY <1>11, SweepMoves DEF Post, run
<1>12. ASSUME NEW t \in Tickers, Tick(t) PROVE OneSweep'
  <2>1. t \in Threads
    OBVIOUS
  <2> QED
    BY <1>12, <2>1, SweepStarts, SweepMoves DEF Tick, run
<1>13. ASSUME NEW t \in Tickers, Joined(t) PROVE OneSweep'
  <2>1. t \in Threads
    OBVIOUS
  <2> QED
    BY <1>13, <2>1, SweepMoves DEF Joined, run
<1> QED
  BY <1>2, <1>3, <1>4, <1>5, <1>6, <1>7, <1>8, <1>9, <1>10, <1>11, <1>12, <1>13 DEF Next

(* At most one thread sweeps, and the run slot is held exactly while it    *)
(* does, however many callers of tick() race the loop.                     *)
THEOREM WatchOneSweep == Spec => []OneSweep
<1>1. Init => OneSweep
  BY DEF Init, OneSweep
<1>2. TypeOK /\ OneSweep /\ [Next]_vars => OneSweep'
  BY OneSweepNext
<1> QED
  BY <1>1, <1>2, WatchTypeCorrect, PTL DEF Spec

-----------------------------------------------------------------------------
(* A lost registration stays recorded.                                     *)

LEMMA LossNext == TypeOK /\ LossRecorded /\ [Next]_vars => LossRecorded'
<1> SUFFICES ASSUME TypeOK, LossRecorded, [Next]_vars PROVE LossRecorded'
  OBVIOUS
<1> USE LoopIsThread
<1>1. ASSUME unwatched' = unwatched, stopped => stopped', lost' = lost,
             pc'[Loop] = pc[Loop] /\ trigger' = trigger
      PROVE  LossRecorded'
  BY <1>1 DEF LossRecorded
<1>2. ASSUME unwatched' = unwatched, stopped => stopped', lost' = lost, pc[Loop] # "woken"
      PROVE  LossRecorded'
  BY <1>2 DEF LossRecorded
<1>3. ASSUME NEW f \in Files, NEW sc \in EventScopes(f), Signal(f, sc) PROVE LossRecorded'
  BY <1>1, <1>3 DEF Signal, current
<1>4. CASE SignalRegistrationLost
  BY <1>4 DEF SignalRegistrationLost, LossRecorded
<1>5. CASE RetryDue \/ BackstopDue \/ Stop \/ StopReturns
  BY <1>1, <1>5 DEF RetryDue, BackstopDue, Stop, StopReturns, wake, current, observed
<1>6. CASE UNCHANGED vars
  BY <1>1, <1>6 DEF vars
<1>7. CASE Startup
  BY <1>2, <1>7 DEF Startup, StartSweep, wake, observed
<1>8. CASE Check \/ Notified \/ TimedOut \/ Debounced
  BY <1>2, <1>8 DEF Check, Notified, TimedOut, Debounced, wake, observed
<1>9. CASE Wait
  <2>1. CASE ~ stopped /\ lost
    <3>1. pc'[Loop] = "woken" /\ trigger' = "RegistrationLost"
      BY <1>9, <2>1 DEF Wait, Goto, TypeOK
    <3> QED
      BY <3>1 DEF LossRecorded
  <2>2. CASE stopped \/ ~ lost
    BY <1>2, <1>9, <2>2 DEF Wait, observed
  <2> QED
    BY <2>1, <2>2
<1>10. CASE Reconcile
  <2>1. CASE stopped
    BY <1>10, <2>1 DEF Reconcile, LossRecorded
  <2>2. CASE ~ stopped
    <3>1. unwatched' => lost' \/ ~ (lost \/ trigger = "RegistrationLost")
      BY <1>10, <2>2 DEF Reconcile
    <3>2. unwatched' => unwatched
      BY <1>10, <2>2 DEF Reconcile, TypeOK
    <3> QED
      BY <2>2, <3>1, <3>2 DEF LossRecorded
  <2> QED
    BY <2>1, <2>2
<1>11. CASE Fold \/ Settle
  BY <1>2, <1>11 DEF Fold, Settle, wake, observed
<1>12. CASE Claim
  BY <1>2, <1>12 DEF Claim, StartSweep, wake, observed
<1>13. ASSUME NEW t \in Threads, Cancelled(t) PROVE LossRecorded'
  BY <1>13 DEF Cancelled, LossRecorded
<1>14. ASSUME NEW t \in Threads, NEW o \in Outcomes, EndSweep(t, o) PROVE LossRecorded'
  <2>1. t = Loop => pc[Loop] # "woken"
    BY <1>14 DEF EndSweep
  <2>2. t # Loop => pc'[Loop] = pc[Loop]
    BY <1>14 DEF EndSweep, Release, TypeOK, LoopPoints
  <2> QED
    BY <1>1, <1>2, <1>14, <2>1, <2>2 DEF EndSweep, wake
<1>15. ASSUME NEW t \in Threads, Post(t) PROVE LossRecorded'
  <2>1. t = Loop => pc[Loop] # "woken"
    BY <1>15 DEF Post
  <2>2. t # Loop => pc'[Loop] = pc[Loop]
    BY <1>15 DEF Post, TypeOK
  <2> QED
    BY <1>1, <1>2, <1>15, <2>1, <2>2 DEF Post, current, observed
<1>16. ASSUME NEW t \in Tickers, Tick(t) \/ Joined(t) PROVE LossRecorded'
  <2>1. pc'[Loop] = pc[Loop]
    BY <1>16 DEF Tick, Joined, StartSweep, TypeOK
  <2> QED
    BY <1>1, <1>16, <2>1 DEF Tick, Joined, StartSweep, wake, current, observed
<1> QED
  BY <1>3, <1>4, <1>5, <1>6, <1>7, <1>8, <1>9, <1>10, <1>11, <1>12, <1>13, <1>14, <1>15,
     <1>16 DEF Next

(* A registration reported lost is never forgotten before it is            *)
(* reconciled, by either reader of the bit (wait_for_wake and              *)
(* reconcile_when_due).                                                    *)
THEOREM WatchLossRecorded == Spec => []LossRecorded
<1>1. Init => LossRecorded
  BY DEF Init, LossRecorded
<1>2. TypeOK /\ LossRecorded /\ [Next]_vars => LossRecorded'
  BY LossNext
<1> QED
  BY <1>1, <1>2, WatchTypeCorrect, PTL DEF Spec

-----------------------------------------------------------------------------
(* No change is lost.                                                      *)

Carrying == {"claim", "sweeping", "cancelled", "post", "settle"}

(* The forced wake being carried out has taken what is owed with it.       *)
Folded == ForcesScan(trigger) /\ pc[Loop] \in Carrying

OnItsWay(f) ==
    \/ stopped
    \/ Covers(pending, f)
    \/ InHand(f)
    \/ f \in reading
    \/ holder # {} /\ Covers(deferred, f)
    \/ \E t \in Threads : pc[t] = "post" /\ Covers(hand[t], f)
    \/ ~ Folded /\ owed.retry /\ Covers(owed.scope, f)

Kept == \A f \in unread : OnItsWay(f)

(* What a forced sweep reads its scope covers, so that a sweep that fails  *)
(* leaves it in hand; only a cancelled one does not, and it stops the loop.*)
Carried ==
    /\ \A f \in reading : Loop \in holder /\ ForcesScan(trigger) /\ Covers(scope, f)
    /\ \A t \in Threads : pc[t] = "cancelled" => stopped

(* The wake the loop starts with is the startup one.                       *)
Fresh == pc[Loop] = "startup" => trigger = "Startup"

WatchInv == TypeOK /\ OneSweep /\ Carried /\ Fresh /\ Kept

LEMMA KeptInit == Init => Carried /\ Fresh /\ Kept
BY DEF Init, Carried, Fresh, Kept

LEMMA FreshNext == TypeOK /\ Fresh /\ [Next]_vars => Fresh'
<1> SUFFICES ASSUME TypeOK, Fresh, [Next]_vars PROVE Fresh'
  OBVIOUS
<1> USE LoopIsThread
<1>1. ASSUME pc'[Loop] = "startup" => pc[Loop] = "startup" /\ trigger' = trigger PROVE Fresh'
  BY <1>1 DEF Fresh
<1>2. ASSUME NEW f \in Files, NEW sc \in EventScopes(f), Signal(f, sc) PROVE Fresh'
  BY <1>1, <1>2 DEF Signal, current
<1>3. CASE SignalRegistrationLost \/ RetryDue \/ BackstopDue \/ Stop \/ StopReturns
  BY <1>1, <1>3 DEF SignalRegistrationLost, RetryDue, BackstopDue, Stop, StopReturns, current
<1>4. CASE UNCHANGED vars
  BY <1>1, <1>4 DEF vars
<1>5. ASSUME NEW l, l # "startup", Goto(l) PROVE Fresh'
  BY <1>1, <1>5 DEF Goto, TypeOK
<1>6. CASE Check \/ Wait \/ Notified \/ TimedOut \/ Debounced
  BY <1>5, <1>6 DEF Check, Wait, Notified, TimedOut, Debounced
<1>7. CASE Reconcile \/ Fold \/ Settle
  BY <1>5, <1>7 DEF Reconcile, Fold, Settle
<1>8. CASE Startup \/ Claim
  BY <1>5, <1>8 DEF Startup, Claim, StartSweep, Goto
<1>9. ASSUME NEW t \in Threads, Cancelled(t) PROVE Fresh'
  BY <1>1, <1>9 DEF Cancelled, current, TypeOK
<1>10. ASSUME NEW t \in Threads, NEW o \in Outcomes, EndSweep(t, o) PROVE Fresh'
  BY <1>1, <1>10 DEF EndSweep, Release
<1>11. ASSUME NEW t \in Threads, Post(t) PROVE Fresh'
  BY <1>1, <1>11 DEF Post, current, TypeOK
<1>12. ASSUME NEW t \in Tickers, Tick(t) \/ Joined(t) PROVE Fresh'
  BY <1>1, <1>12 DEF Tick, Joined, StartSweep, current, TypeOK
<1> QED
  BY <1>2, <1>3, <1>4, <1>6, <1>7, <1>8, <1>9, <1>10, <1>11, <1>12 DEF Next

LEMMA CarriedNext == TypeOK /\ OneSweep /\ Carried /\ [Next]_vars => Carried'
<1> SUFFICES ASSUME TypeOK, OneSweep, Carried, [Next]_vars PROVE Carried'
  OBVIOUS
<1> USE LoopIsThread
<1>1. ASSUME reading' \subseteq reading, holder' = holder, trigger' = trigger, scope' = scope,
             pc' = pc, stopped => stopped'
      PROVE  Carried'
  BY <1>1 DEF Carried, Covers, ForcesScan
<1>2. ASSUME NEW f \in Files, NEW sc \in EventScopes(f), Signal(f, sc) PROVE Carried'
  BY <1>1, <1>2 DEF Signal, run, current
<1>3. CASE SignalRegistrationLost \/ RetryDue \/ BackstopDue \/ Stop \/ StopReturns
  BY <1>1, <1>3 DEF SignalRegistrationLost, RetryDue, BackstopDue, Stop, StopReturns, wake,
                    run, current, observed
<1>4. CASE UNCHANGED vars
  BY <1>1, <1>4 DEF vars
<1>5. ASSUME Loop \notin holder, stopped' = stopped, reading' = reading,
             NEW l, l # "cancelled", Goto(l)
      PROVE  Carried'
  BY <1>5 DEF Carried, Goto, TypeOK
<1>6. ASSUME pc[Loop] \notin {"sweeping", "cancelled"} PROVE Loop \notin holder
  BY <1>6 DEF OneSweep
<1>7. CASE Startup
  <2>1. CASE holder = {} /\ StartSweep(Loop, FALSE, Everything)
    BY <1>7, <2>1 DEF Startup, StartSweep, Carried, TypeOK, wake
  <2>2. CASE Goto("check") /\ UNCHANGED <<holder, deferred, hand, observed>>
    BY <1>5, <1>6, <1>7, <2>2 DEF Startup, wake, observed
  <2> QED
    BY <1>7, <2>1, <2>2 DEF Startup
<1>8. CASE Check \/ Notified
  BY <1>5, <1>6, <1>8 DEF Check, Notified, wake, observed
<1>9. CASE Wait
  BY <1>5, <1>6, <1>9 DEF Wait, observed
<1>10. CASE TimedOut \/ Debounced
  BY <1>5, <1>6, <1>10 DEF TimedOut, Debounced, wake, observed
<1>11. CASE Reconcile \/ Fold \/ Settle
  BY <1>5, <1>6, <1>11 DEF Reconcile, Fold, Settle, wake, observed
<1>12. CASE Claim
  <2>1. CASE holder = {} /\ StartSweep(Loop, ForcesScan(trigger), scope) /\ UNCHANGED owes
    <3>1. \A f \in reading' : ForcesScan(trigger) /\ Covers(scope, f)
      BY <2>1 DEF StartSweep
    <3>2. Loop \in holder' /\ trigger' = trigger /\ scope' = scope /\ stopped' = stopped
      BY <1>12, <2>1 DEF Claim, StartSweep, wake
    <3>3. \A t \in Threads : pc'[t] = "cancelled" => pc[t] = "cancelled"
      BY <2>1 DEF StartSweep, TypeOK
    <3> QED
      BY <3>1, <3>2, <3>3 DEF Carried, Covers, ForcesScan
  <2>2. CASE holder # {} /\ Goto("settle") /\ UNCHANGED <<holder, hand, observed>>
    BY <1>5, <1>6, <1>12, <2>2 DEF Claim, wake, observed
  <2> QED
    BY <1>12, <2>1, <2>2 DEF Claim
<1>13. ASSUME NEW t \in Threads, Cancelled(t) PROVE Carried'
  BY <1>13 DEF Cancelled, Carried, run, current, observed, Covers, ForcesScan
<1>14. ASSUME NEW t \in Threads, NEW o \in Outcomes, EndSweep(t, o) PROVE Carried'
  <2>1. reading' = {} /\ stopped' = stopped
    BY <1>14 DEF EndSweep, wake
  <2>2. \A u \in Threads : pc'[u] = "cancelled" => pc[u] = "cancelled"
    BY <1>14 DEF EndSweep, Release
  <2> QED
    BY <2>1, <2>2 DEF Carried
<1>15. ASSUME NEW t \in Threads, Post(t) PROVE Carried'
  <2>1. \A u \in Threads : pc'[u] = "cancelled" => pc[u] = "cancelled"
    BY <1>15 DEF Post, TypeOK
  <2> QED
    BY <1>15, <2>1 DEF Post, Carried, run, current, observed, Covers, ForcesScan
<1>16. ASSUME NEW t \in Tickers, Tick(t) PROVE Carried'
  <2>1. \A u \in Threads : pc'[u] = "cancelled" => pc[u] = "cancelled"
    BY <1>16 DEF Tick, StartSweep, TypeOK
  <2>2. CASE holder = {} /\ StartSweep(t, FALSE, Everything)
    BY <1>16, <2>1, <2>2 DEF Tick, StartSweep, Carried, wake
  <2>3. CASE UNCHANGED <<run, hand, observed>>
    BY <1>16, <2>1, <2>3 DEF Tick, Carried, wake, run, current, observed, Covers, ForcesScan
  <2> QED
    BY <1>16, <2>2, <2>3 DEF Tick
<1>17. ASSUME NEW t \in Tickers, Joined(t) PROVE Carried'
  <2>1. \A u \in Threads : pc'[u] = "cancelled" => pc[u] = "cancelled"
    BY <1>17 DEF Joined, TypeOK
  <2> QED
    BY <1>17, <2>1 DEF Joined, Carried, wake, run, current, observed, Covers, ForcesScan
<1> QED
  BY <1>2, <1>3, <1>4, <1>7, <1>8, <1>9, <1>10, <1>11, <1>12, <1>13, <1>14, <1>15, <1>16,
     <1>17 DEF Next

(* Where a change can be, and where it can be after a step.                *)
LEMMA Ways ==
    ASSUME NEW f \in Files
    PROVE  OnItsWay(f) <=>
             \/ stopped
             \/ Covers(pending, f)
             \/ Covers(scope, f) /\ trigger = "FsEvent" /\ pc[Loop] \in {"woken", "fold", "claim"}
             \/ Covers(scope, f) /\ owes /\ pc[Loop] \in {"post", "settle"}
             \/ f \in reading
             \/ holder # {} /\ Covers(deferred, f)
             \/ \E t \in Threads : pc[t] = "post" /\ Covers(hand[t], f)
             \/ /\ ~ (trigger = "FsEvent" /\ pc[Loop] \in Carrying)
                /\ owed.retry /\ Covers(owed.scope, f)
BY DEF OnItsWay, InHand, Folded, ForcesScan

LEMMA WaysNext ==
    ASSUME NEW f \in Files
    PROVE  OnItsWay(f)' <=>
             \/ stopped'
             \/ Covers(pending', f)
             \/ /\ Covers(scope', f) /\ trigger' = "FsEvent"
                /\ pc'[Loop] \in {"woken", "fold", "claim"}
             \/ Covers(scope', f) /\ owes' /\ pc'[Loop] \in {"post", "settle"}
             \/ f \in reading'
             \/ holder' # {} /\ Covers(deferred', f)
             \/ \E t \in Threads : pc'[t] = "post" /\ Covers(hand'[t], f)
             \/ /\ ~ (trigger' = "FsEvent" /\ pc'[Loop] \in Carrying)
                /\ owed'.retry /\ Covers(owed'.scope, f)
BY DEF OnItsWay, InHand, Folded, ForcesScan, Covers

LEMMA KeptNext == WatchInv /\ [Next]_vars => Kept'
<1> SUFFICES ASSUME TypeOK, OneSweep, Carried, Fresh, Kept, [Next]_vars,
                    NEW f \in Files, f \in unread'
             PROVE  OnItsWay(f)'
  <2>1. ASSUME TypeOK, [Next]_vars PROVE unread' \subseteq Files
    BY <2>1, TypeNext DEF TypeOK
  <2> QED
    BY <2>1 DEF WatchInv, Kept
<1> USE LoopIsThread
<1>a. f \in unread => OnItsWay(f)
  BY DEF Kept
<1>b. ~ Covers(NoScope, f)
  BY DEF Covers, NoScope
<1>1. ASSUME NEW g \in Files, NEW sc \in EventScopes(g), Signal(g, sc) PROVE OnItsWay(f)'
  <2>1. sc \in Scope /\ pending \in Scope
    BY ScopeTypes DEF TypeOK
  <2>2. Covers(pending, f) => Covers(pending', f)
    BY <1>1, <2>1, WidenCovers DEF Signal
  <2>3. CASE f = g
    BY <1>1, <2>1, <2>3, EventCovers, WidenCovers, WaysNext DEF Signal
  <2>4. CASE f # g
    <3>1. OnItsWay(f)
      BY <1>1, <1>a, <2>4 DEF Signal
    <3> QED
      BY <1>1, <2>2, <2>4, <3>1, Ways, WaysNext DEF Signal, run, current, timers
  <2> QED
    BY <2>3, <2>4
<1>2. CASE SignalRegistrationLost
  BY <1>2, <1>a, Ways, WaysNext DEF SignalRegistrationLost, run, current, timers
<1>3. CASE RetryDue
  <2>1. owed'.retry = owed.retry /\ owed'.scope = owed.scope
    BY <1>3 DEF RetryDue, TypeOK
  <2> QED
    BY <1>3, <1>a, <2>1, Ways, WaysNext DEF RetryDue, wake, run, current, observed
<1>4. CASE BackstopDue \/ Stop \/ StopReturns
  BY <1>4, <1>a, Ways, WaysNext
     DEF BackstopDue, Stop, StopReturns, wake, run, current, timers, observed
<1>5. CASE UNCHANGED vars
  BY <1>5, <1>a, Ways, WaysNext DEF vars
<1>6. ASSUME NEW l, Goto(l), l \notin Carrying, pc[Loop] \notin Carrying,
             pc[Loop] \notin {"woken", "fold"},
             stopped => stopped', Covers(pending, f) => Covers(pending', f),
             f \in unread, reading' = reading, holder' = holder, deferred' = deferred,
             hand' = hand, owed' = owed
      PROVE  OnItsWay(f)'
  <2>1. pc'[Loop] = l /\ \A t \in Threads : pc[t] = "post" => pc'[t] = "post"
    BY <1>6 DEF Goto, TypeOK, Carrying
  <2> QED
    BY <1>6, <1>a, <2>1, Ways, WaysNext DEF Carrying
<1>7. CASE Startup
  <2>1. CASE holder = {} /\ StartSweep(Loop, FALSE, Everything)
    <3>1. f \notin reading
      BY <2>1 DEF Carried
    <3>2. \A t \in Threads : pc[t] = "post" => pc'[t] = "post"
      BY <1>7, <2>1 DEF Startup, StartSweep, TypeOK
    <3>3. trigger # "FsEvent"
      BY <1>7 DEF Fresh, Startup
    <3> QED
      BY <1>7, <1>a, <2>1, <3>1, <3>2, <3>3, Ways, WaysNext
         DEF Startup, StartSweep, wake, current, timers, Carrying
  <2>2. CASE Goto("check") /\ UNCHANGED <<holder, deferred, hand, observed>>
    BY <1>6, <1>7, <2>2 DEF Startup, Carrying, wake, timers, observed
  <2> QED
    BY <1>7, <2>1, <2>2 DEF Startup
<1>8. CASE Check \/ Notified
  BY <1>6, <1>8 DEF Check, Notified, Carrying, wake, run, timers, observed
<1>9. CASE Wait
  BY <1>6, <1>9 DEF Wait, Carrying, run, timers, observed
<1>10. CASE TimedOut
  BY <1>6, <1>10 DEF TimedOut, Carrying, wake, run, timers, observed
<1>11. CASE Debounced
  <2>1. CASE stopped
    BY <1>6, <1>11, <2>1 DEF Debounced, Carrying, run, timers, observed
  <2>2. CASE ~ stopped
    <3>1. pc'[Loop] = "woken" /\ \A t \in Threads : pc[t] = "post" => pc'[t] = "post"
      BY <1>11, <2>2 DEF Debounced, Goto, TypeOK
    <3> QED
      BY <1>11, <1>a, <2>2, <3>1, Ways, WaysNext
         DEF Debounced, run, timers, observed, Carrying
  <2> QED
    BY <2>1, <2>2
<1>12. CASE Reconcile
  <2>1. pc[Loop] = "woken" /\ \A t \in Threads : pc[t] = "post" => pc'[t] = "post"
    BY <1>12 DEF Reconcile, Goto, TypeOK
  <2>2. CASE stopped
    BY <1>12, <2>2, WaysNext DEF Reconcile
  <2>3. CASE ~ stopped
    <3>1. pc'[Loop] = IF trigger = "RegistrationLost" THEN "check" ELSE "fold"
      BY <1>12, <2>3 DEF Reconcile, Goto, TypeOK
    <3> QED
      BY <1>12, <1>a, <2>1, <2>3, <3>1, Ways, WaysNext
         DEF Reconcile, run, current, timers, Carrying
  <2> QED
    BY <2>2, <2>3
<1>13. CASE Fold
  <2> DEFINE retried == owed.retry /\ owed.due
  <2>1. pc[Loop] = "fold" /\ \A t \in Threads : pc[t] = "post" => pc'[t] = "post"
    BY <1>13 DEF Fold, Goto, TypeOK
  <2>2. scope \in Scope /\ owed.scope \in Scope
    BY DEF TypeOK
  <2>3. /\ Covers(owed.scope, f) => Covers(Widen(owed.scope, scope), f)
        /\ Covers(scope, f) => Covers(Widen(owed.scope, scope), f)
    BY <2>2, WidenCovers
  <2>4. pc'[Loop] = "claim" \/ (pc'[Loop] = "check" /\ ~ retried /\ trigger = "Poll")
    BY <1>13 DEF Fold, Goto, TypeOK
  <2>5. trigger' = (IF retried THEN "FsEvent" ELSE trigger)
        /\ owed' = (IF retried THEN NoOwed ELSE owed)
    BY <1>13 DEF Fold
  <2>6. ASSUME trigger = "FsEvent", Covers(scope, f) PROVE Covers(scope', f)
    BY <1>13, <2>3, <2>6 DEF Fold, FoldedScope, ForcesScan
  <2>7. ASSUME owed.retry, trigger' = "FsEvent", Covers(owed.scope, f)
        PROVE  Covers(scope', f)
    BY <1>13, <2>3, <2>5, <2>7 DEF Fold, FoldedScope, ForcesScan
  <2>8. UNCHANGED <<stopped, pending, reading, unread, holder, deferred, hand>>
    BY <1>13 DEF Fold, wake, run, observed
  <2> HIDE DEF retried
  <2>9. CASE trigger' = "FsEvent"
    <3>1. pc'[Loop] = "claim"
      BY <2>4, <2>5, <2>9
    <3> QED
      BY <1>a, <2>1, <2>6, <2>7, <2>8, <2>9, <3>1, Ways, WaysNext DEF Carrying
  <2>10. CASE trigger' # "FsEvent"
    <3>1. ~ retried /\ trigger' = trigger /\ owed' = owed
      BY <2>5, <2>10
    <3> QED
      BY <1>a, <2>1, <2>4, <2>8, <2>10, <3>1, Ways, WaysNext DEF Carrying
  <2> QED
    BY <2>9, <2>10
<1>14. CASE Claim
  <2>1. CASE holder = {} /\ StartSweep(Loop, ForcesScan(trigger), scope) /\ UNCHANGED owes
    <3>1. f \notin reading
      BY <2>1 DEF Carried
    <3>2. pc'[Loop] = "sweeping" /\ \A t \in Threads : pc[t] = "post" => pc'[t] = "post"
      BY <1>14, <2>1 DEF Claim, StartSweep, TypeOK
    <3>3. f \in unread /\ UNCHANGED <<stopped, pending, trigger, owed, hand, deferred>>
      BY <1>14, <2>1 DEF Claim, StartSweep, wake, timers
    <3>4. trigger = "FsEvent" /\ Covers(scope, f) => f \in reading'
      BY <2>1, <3>3 DEF StartSweep, ForcesScan
    <3>5. pc[Loop] = "claim"
      BY <1>14 DEF Claim
    <3> QED
      BY <1>a, <2>1, <3>1, <3>2, <3>3, <3>4, <3>5, Ways, WaysNext DEF Carrying
  <2>2. CASE holder # {} /\ Goto("settle") /\ UNCHANGED <<holder, hand, observed>>
             /\ deferred' = IF ForcesScan(trigger) THEN Widen(deferred, scope) ELSE deferred
    <3>1. pc'[Loop] = "settle" /\ \A t \in Threads : pc[t] = "post" => pc'[t] = "post"
      BY <1>14, <2>2 DEF Claim, Goto, TypeOK
    <3>2. scope \in Scope /\ deferred \in Scope
      BY DEF TypeOK
    <3>3. Covers(deferred, f) => Covers(deferred', f)
      BY <2>2, <3>2, WidenCovers
    <3>4. trigger = "FsEvent" /\ Covers(scope, f) => Covers(deferred', f)
      BY <2>2, <3>2, WidenCovers DEF ForcesScan
    <3>5. pc[Loop] = "claim" /\ UNCHANGED <<stopped, pending, trigger, owed>>
      BY <1>14 DEF Claim, wake, timers
    <3> QED
      BY <1>a, <2>2, <3>1, <3>3, <3>4, <3>5, Ways, WaysNext DEF Carrying, observed
  <2> QED
    BY <1>14, <2>1, <2>2 DEF Claim
<1>15. CASE Settle
  <2>1. pc[Loop] = "settle" /\ pc'[Loop] = "check"
        /\ \A t \in Threads : pc[t] = "post" => pc'[t] = "post"
    BY <1>15 DEF Settle, Goto, TypeOK
  <2>2. UNCHANGED <<stopped, pending, reading, unread, holder, deferred, hand, trigger>>
    BY <1>15 DEF Settle, wake, run, observed
  <2>3. CASE owes
    <3>1. owed.scope \in Scope /\ scope \in Scope
      BY DEF TypeOK
    <3>2. owed'.retry /\ owed'.scope = Widen(owed.scope, scope)
      BY <1>15, <2>3 DEF Settle, TurnedAway
    <3>3. Covers(scope, f) \/ Covers(owed.scope, f) => Covers(owed'.scope, f)
      BY <3>1, <3>2, WidenCovers
    <3> QED
      BY <1>a, <2>1, <2>2, <3>2, <3>3, Ways, WaysNext DEF Carrying
  <2>4. CASE ~ owes
    <3>1. trigger # "FsEvent" => owed' = owed
      BY <1>15, <2>4 DEF Settle, ForcesScan
    <3> QED
      BY <1>a, <2>1, <2>2, <2>4, <3>1, Ways, WaysNext DEF Carrying
  <2> QED
    BY <2>3, <2>4 DEF TypeOK
<1>16. ASSUME NEW t \in Threads, Cancelled(t) PROVE OnItsWay(f)'
  BY <1>16, WaysNext DEF Cancelled
<1>17. ASSUME NEW t \in Threads, NEW o \in Outcomes, EndSweep(t, o) PROVE OnItsWay(f)'
  <2>1. pc'[t] = "post" /\ hand'[t] = deferred
    BY <1>17 DEF EndSweep, Release, TypeOK
  <2>2. \A u \in Threads : u # t /\ pc[u] = "post" => pc'[u] = "post" /\ hand'[u] = hand[u]
    BY <1>17 DEF EndSweep, Release, TypeOK
  <2>3. pc[t] # "post" /\ t \in holder
    BY <1>17 DEF EndSweep, OneSweep
  <2>4. UNCHANGED <<stopped, pending, trigger, scope, owed>> /\ f \in unread
    BY <1>17 DEF EndSweep, wake, timers
  <2>5. t # Loop => pc'[Loop] = pc[Loop] /\ owes' = owes
    BY <1>17 DEF EndSweep, Release, TypeOK, LoopPoints
  <2>6. t = Loop => pc'[Loop] = "post" /\ pc[Loop] \in {"sweeping", "cancelled"}
    BY <1>17, <2>1 DEF EndSweep
  <2>7. ASSUME f \in reading PROVE OnItsWay(f)'
    <3>1. t = Loop /\ ForcesScan(trigger) /\ Covers(scope, f)
      BY <2>3, <2>7 DEF Carried, OneSweep
    <3>2. o # "ok"
      BY <1>17, <2>7 DEF EndSweep
    <3>3. CASE o = "cancelled"
      <4>1. stopped
        BY <1>17, <3>3 DEF EndSweep, Carried
      <4> QED
        BY <2>4, <4>1, WaysNext
    <3>4. CASE o \in {"contended", "failed"}
      <4>1. owes'
        BY <1>17, <3>1, <3>4 DEF EndSweep
      <4> QED
        BY <2>4, <2>6, <3>1, <4>1, WaysNext
    <3> QED
      BY <3>2, <3>3, <3>4 DEF Outcomes
  <2>8. ASSUME Covers(deferred, f) PROVE OnItsWay(f)'
    BY <2>1, <2>8, WaysNext
  <2>9. ASSUME NEW u \in Threads, pc[u] = "post", Covers(hand[u], f) PROVE OnItsWay(f)'
    <3>1. pc'[u] = "post" /\ hand'[u] = hand[u]
      BY <2>2, <2>3, <2>9
    <3> QED
      BY <2>9, <3>1, WaysNext
  <2>10. \/ stopped \/ Covers(pending, f)
         \/ Covers(scope, f) /\ trigger = "FsEvent" /\ pc[Loop] \in {"woken", "fold", "claim"}
         \/ Covers(scope, f) /\ owes /\ pc[Loop] \in {"post", "settle"}
         \/ /\ ~ (trigger = "FsEvent" /\ pc[Loop] \in Carrying)
            /\ owed.retry /\ Covers(owed.scope, f)
         \/ OnItsWay(f)'
    BY <1>a, <2>4, <2>7, <2>8, <2>9, Ways
  <2> QED
    BY <2>4, <2>5, <2>6, <2>10, WaysNext DEF Carrying
<1>18. ASSUME NEW t \in Threads, Post(t) PROVE OnItsWay(f)'
  <2>1. pending \in Scope /\ hand[t] \in Scope
    BY DEF TypeOK
  <2>2. Covers(pending, f) => Covers(pending', f)
    BY <1>18, <2>1, WidenCovers DEF Post
  <2>3. Covers(hand[t], f) => stopped \/ Covers(pending', f)
    BY <1>18, <1>b, <2>1, WidenCovers DEF Post
  <2>4. \A u \in Threads : u # t => pc'[u] = pc[u] /\ hand'[u] = hand[u]
    BY <1>18 DEF Post, TypeOK
  <2>5. t = Loop => pc[Loop] = "post" /\ pc'[Loop] = "settle"
    BY <1>18 DEF Post, TypeOK
  <2>6. t # Loop => pc'[Loop] = pc[Loop]
    BY <2>4
  <2>7. UNCHANGED <<stopped, holder, deferred, trigger, scope, owes, owed, unread, reading>>
    BY <1>18 DEF Post, run, current, timers, observed
  <2>8. ASSUME NEW u \in Threads, pc[u] = "post", Covers(hand[u], f) PROVE OnItsWay(f)'
    BY <2>3, <2>4, <2>7, <2>8, WaysNext
  <2>9. OnItsWay(f)
    BY <1>a, <2>7
  <2> QED
    BY <2>2, <2>5, <2>6, <2>7, <2>8, <2>9, Ways, WaysNext DEF Carrying
<1>19. ASSUME NEW t \in Tickers, Tick(t) \/ Joined(t) PROVE OnItsWay(f)'
  <2>1. t \in Threads /\ t # Loop
    BY WatchAssumption DEF Threads
  <2>2. pc'[Loop] = pc[Loop] /\ \A u \in Threads : pc[u] = "post" => pc'[u] = "post"
    BY <1>19, <2>1 DEF Tick, Joined, StartSweep, TypeOK
  <2>3. UNCHANGED <<stopped, pending, deferred, hand, trigger, scope, owes, owed, unread>>
    BY <1>19 DEF Tick, Joined, StartSweep, wake, run, current, timers, observed
  <2>4. holder # {} => holder' # {}
    BY <1>19 DEF Tick, Joined, StartSweep, run
  <2>5. f \in reading => f \in reading'
    BY <1>19 DEF Tick, Joined, StartSweep, Carried, run, observed
  <2> QED
    BY <1>a, <2>2, <2>3, <2>4, <2>5, Ways, WaysNext
<1> QED
  BY <1>1, <1>2, <1>3, <1>4, <1>5, <1>7, <1>8, <1>9, <1>10, <1>11, <1>12, <1>13, <1>14,
     <1>15, <1>16, <1>17, <1>18, <1>19 DEF Next

(* A change signalled to a loop that is not stopped is never dropped on    *)
(* its way from signal_change to the forced sweep that reads it: for any   *)
(* number of files, roots and callers of tick(), in whatever order the     *)
(* sweeps are deferred, contended, failed and retried.                     *)
THEOREM WatchNoLostChange == Spec => []NoLostChange
<1>1. Init => WatchInv
  BY TypeInit, KeptInit DEF WatchInv, Init, OneSweep
<1>2. WatchInv /\ [Next]_vars => WatchInv'
  BY TypeNext, OneSweepNext, CarriedNext, FreshNext, KeptNext DEF WatchInv
<1>3. WatchInv => NoLostChange
  BY DEF WatchInv, Kept, OnItsWay, NoLostChange
<1> QED
  BY <1>1, <1>2, <1>3, PTL DEF Spec
=============================================================================
