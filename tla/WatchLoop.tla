----------------------------- MODULE WatchLoop ------------------------------
(***************************************************************************)
(* The live-capture watch loop: a loop thread that turns filesystem change *)
(* signals into forced sweeps, beside callers of tick() that sweep by hand *)
(* and a caller of stop().  They share a wake slot and a run slot, each    *)
(* under its own mutex, and a sweep may find the store's lock taken.       *)
(*                                                                         *)
(* Sources: crates/ai-hist/src/watch.rs and watch/{inner,owed,scope}.rs.   *)
(*                                                                         *)
(* An action is one critical section of a mutex, or one step between two   *)
(* of them.  Durations are abstracted to "not yet" and "due", so the       *)
(* debounce window and the retry backoff keep their order and lose their   *)
(* lengths.                                                                *)
(***************************************************************************)
EXTENDS Naturals, FiniteSets

CONSTANTS
    Files,      \* transcripts that change
    Roots,      \* watched roots
    RootOf,     \* the root a file lies under
    Placings,   \* how the backend can place an event: by "path", "root", "none"
    Tickers,    \* threads that call tick()
    Loop,       \* the thread in run()
    MaxTicks,   \* bound on calls of tick()
    MaxLost     \* bound on registrations reported lost

ASSUME WatchAssumption ==
    /\ RootOf \in [Files -> Roots]
    /\ Placings \subseteq {"path", "root", "none"}
    /\ Loop \notin Tickers
    /\ MaxTicks \in Nat /\ MaxLost \in Nat

Threads == Tickers \cup {Loop}

-----------------------------------------------------------------------------
(* Scopes.  An absent scope covers nothing.                                *)

Scope == [all : BOOLEAN, roots : SUBSET Roots, paths : SUBSET Files]

NoScope == [all |-> FALSE, roots |-> {}, paths |-> {}]
Everything == [all |-> TRUE, roots |-> {}, paths |-> {}]
Under(roots, paths) == [all |-> FALSE, roots |-> roots, paths |-> paths]

\* A sweep of this scope reads the file: no paths means the roots' whole trees.
Covers(sc, f) == sc.all \/ (RootOf[f] \in sc.roots /\ (sc.paths = {} \/ f \in sc.paths))

\* Mutant: the paths one side still has stand for both.
Union_KeepsPaths(a, b) ==
    IF a.all \/ b.all THEN Everything ELSE Under(a.roots \cup b.roots, a.paths \cup b.paths)

\* Path detail survives only when both sides have it.
Union(a, b) ==
    IF a.all \/ b.all THEN Everything
    ELSE Under(a.roots \cup b.roots,
               IF a.paths = {} \/ b.paths = {} THEN {} ELSE a.paths \cup b.paths)

Widen(held, sc) == IF held = NoScope THEN sc ELSE Union(held, sc)

\* What the backend's callback makes of an event for a file: placed under its
\* root and path, under its root only, or not placed at all.
EventScope(f, p) ==
    CASE p = "path" -> Under({RootOf[f]}, {f})
      [] p = "root" -> Under({RootOf[f]}, {})
      [] p = "none" -> Everything

EventScopes(f) == {EventScope(f, p) : p \in Placings}

-----------------------------------------------------------------------------
VARIABLES
    pending,    \* WakeState: a change signal is pending, and its scope
    lost,       \* WakeState.registration_lost
    stopped,    \* WakeState.stopped
    holder,     \* RunState.in_flight: the threads sweeping now
    deferred,   \* RunState: the scope of forced ticks that found the slot taken
    pc,         \* where each thread is
    hand,       \* a deferred scope a thread has taken out and not yet re-posted
    trigger,    \* the loop's current wake: trigger,
    scope,      \*   scope,
    isRetry,    \*   whether it is the owed retry,
    owes,       \*   and whether its sweep came back still owed
    owed,       \* OwedSweep: retry set, deadline reached, and scope
    backstop,   \* the slow poll is due
    stopper,    \* the caller of stop()
    ticks,      \* calls of tick() made
    losses,     \* registrations reported lost
    unread,     \* observation: files signalled and not read by a sweep since
    reading,    \* observation: those of them the sweep in flight reads
    unwatched   \* observation: a loss was reported and not reconciled since

wake == <<pending, lost, stopped>>
run == <<holder, deferred>>
current == <<trigger, scope, isRetry, owes>>
timers == <<owed, backstop>>
observed == <<unread, reading, unwatched>>
vars == <<pending, lost, stopped, holder, deferred, pc, hand, trigger, scope, isRetry,
          owes, owed, backstop, stopper, ticks, losses, unread, reading, unwatched>>

NoOwed == [retry |-> FALSE, due |-> FALSE, scope |-> NoScope]

Init ==
    /\ pending = NoScope /\ lost = FALSE /\ stopped = FALSE
    /\ holder = {} /\ deferred = NoScope
    /\ pc = [t \in Threads |-> IF t = Loop THEN "startup" ELSE "idle"]
    /\ hand = [t \in Threads |-> NoScope]
    /\ trigger = "Startup" /\ scope = Everything /\ isRetry = FALSE /\ owes = FALSE
    /\ owed = NoOwed /\ backstop = FALSE
    /\ stopper = "running" /\ ticks = 0 /\ losses = 0
    /\ unread = {} /\ reading = {} /\ unwatched = FALSE

\* Only a filesystem event bypasses the fingerprint.
ForcesScan(t) == t = "FsEvent"

-----------------------------------------------------------------------------
(* Signals, from the backend's callback or a host.  A stopped loop takes   *)
(* none.                                                                   *)

Signal(f, sc) ==
    /\ ~stopped
    /\ pending' = Widen(pending, sc)
    /\ unread' = unread \cup {f}
    /\ reading' = reading \ {f}
    /\ UNCHANGED <<lost, stopped, run, pc, hand, current, timers, stopper, ticks, losses,
                   unwatched>>

SignalRegistrationLost ==
    /\ ~stopped /\ losses < MaxLost
    /\ lost' = TRUE /\ losses' = losses + 1 /\ unwatched' = TRUE
    /\ UNCHANGED <<pending, stopped, run, pc, hand, current, timers, stopper, ticks,
                   unread, reading>>

\* Time: the retry's deadline, or the slow poll's, is reached.
RetryDue ==
    /\ owed.retry /\ ~owed.due
    /\ owed' = [owed EXCEPT !.due = TRUE]
    /\ UNCHANGED <<wake, run, pc, hand, current, backstop, stopper, ticks, losses, observed>>

BackstopDue ==
    /\ ~backstop /\ ~stopped
    /\ backstop' = TRUE
    /\ UNCHANGED <<wake, run, pc, hand, current, owed, stopper, ticks, losses, observed>>

-----------------------------------------------------------------------------
(* Claiming and releasing the run slot.                                    *)

\* A sweep starts: what it will have read when it ends.
StartSweep(t, forced, sc) ==
    /\ holder' = holder \cup {t}
    /\ reading' = IF forced THEN {f \in unread : Covers(sc, f)} ELSE {}
    /\ pc' = [pc EXCEPT ![t] = "sweeping"]
    /\ UNCHANGED <<deferred, hand, unread, unwatched>>

Outcomes == {"ok", "contended", "failed", "cancelled"}

\* Mutant: the joiners are not released.
Release_KeepsJoiners(t) ==
    /\ holder' = holder \ {t}
    /\ deferred' = NoScope
    /\ hand' = [hand EXCEPT ![t] = deferred]
    /\ pc' = [pc EXCEPT ![t] = "post"]

\* InFlight::drop: free the slot, release the joiners, take what was deferred.
Release(t) ==
    /\ holder' = holder \ {t}
    /\ deferred' = NoScope
    /\ hand' = [hand EXCEPT ![t] = deferred]
    /\ pc' = [p \in Threads |->
                IF p = t THEN "post" ELSE IF pc[p] = "join" THEN "joined" ELSE pc[p]]

\* A cancelled sweep asks the loop to stop while it still holds the slot.
Cancelled(t) ==
    /\ pc[t] = "sweeping"
    /\ stopped' = TRUE
    /\ pc' = [pc EXCEPT ![t] = "cancelled"]
    /\ UNCHANGED <<pending, lost, run, hand, current, timers, stopper, ticks, losses, observed>>

\* The sweep of run_claimed has returned, and its guard is dropped.
EndSweep(t, outcome) ==
    /\ pc[t] = IF outcome = "cancelled" THEN "cancelled" ELSE "sweeping"
    /\ Release(t)
    /\ unread' = IF outcome = "ok" THEN unread \ reading ELSE unread
    /\ reading' = {}
    /\ owes' = IF t = Loop THEN ForcesScan(trigger) /\ outcome \in {"contended", "failed"}
               ELSE owes
    /\ UNCHANGED <<wake, trigger, scope, isRetry, timers, stopper, ticks, losses, unwatched>>

\* ... and what it took out is posted again, after the slot was let go.
Post(t) ==
    /\ pc[t] = "post"
    /\ pending' = IF hand[t] = NoScope \/ stopped THEN pending ELSE Widen(pending, hand[t])
    /\ hand' = [hand EXCEPT ![t] = NoScope]
    /\ pc' = [pc EXCEPT ![t] = IF t = Loop THEN "settle" ELSE "idle"]
    /\ UNCHANGED <<lost, stopped, run, current, timers, stopper, ticks, losses, observed>>

-----------------------------------------------------------------------------
(* The loop thread.                                                        *)

Goto(l) == pc' = [pc EXCEPT ![Loop] = l]

\* Mutant: the loop's first sweep joins, as a manual one does.
Startup_Joins ==
    /\ pc[Loop] = "startup"
    /\ \/ holder = {} /\ StartSweep(Loop, FALSE, Everything)
       \/ holder # {} /\ Goto("join") /\ UNCHANGED <<holder, deferred, hand, observed>>
    /\ UNCHANGED <<wake, current, timers, stopper, ticks, losses>>

\* The first sweep is not forced.  It is skipped when a caller of tick() has the
\* slot, and by a loop that was built without it.
Startup ==
    /\ pc[Loop] = "startup"
    /\ \/ holder = {} /\ StartSweep(Loop, FALSE, Everything)
       \/ Goto("check") /\ UNCHANGED <<holder, deferred, hand, observed>>
    /\ UNCHANGED <<wake, current, timers, stopper, ticks, losses>>

Check ==
    /\ pc[Loop] = "check"
    /\ Goto(IF stopped THEN "done" ELSE "wait")
    /\ UNCHANGED <<wake, run, hand, current, timers, stopper, ticks, losses, observed>>

\* wait_for_wake, holding the wake lock: a lost registration comes first.
Wait ==
    /\ pc[Loop] = "wait"
    /\ \/ stopped /\ Goto("done") /\ UNCHANGED <<lost, trigger, scope>>
       \/ /\ ~stopped /\ lost
          /\ lost' = FALSE /\ trigger' = "RegistrationLost" /\ scope' = Everything
          /\ Goto("woken")
       \/ /\ ~stopped /\ ~lost
          /\ Goto(IF pending # NoScope THEN "debounce" ELSE "parked")
          /\ UNCHANGED <<lost, trigger, scope>>
    /\ UNCHANGED <<pending, stopped, run, hand, isRetry, owes, timers, stopper, ticks,
                   losses, observed>>

\* The wait is notified, or times out; a signal that lands with the timeout
\* stays pending.
Notified ==
    /\ pc[Loop] = "parked" /\ (stopped \/ lost \/ pending # NoScope)
    /\ Goto("wait")
    /\ UNCHANGED <<wake, run, hand, current, timers, stopper, ticks, losses, observed>>

TimedOut ==
    /\ pc[Loop] = "parked"
    /\ \/ stopped /\ Goto("done") /\ UNCHANGED <<trigger, scope>>
       \/ ~stopped /\ Goto("woken") /\ trigger' = "Poll" /\ scope' = Everything
    /\ UNCHANGED <<wake, run, hand, isRetry, owes, timers, stopper, ticks, losses, observed>>

\* Mutant: a window a lost registration cut short takes that bit too.
Debounced_TakesLost ==
    /\ pc[Loop] = "debounce"
    /\ \/ stopped /\ Goto("done") /\ UNCHANGED <<pending, lost, trigger, scope>>
       \/ /\ ~stopped /\ Goto("woken") /\ lost' = FALSE
          /\ trigger' = "FsEvent" /\ scope' = pending /\ pending' = NoScope
    /\ UNCHANGED <<stopped, run, hand, isRetry, owes, timers, stopper, ticks, losses,
                   observed>>

\* The debounce window closes: the signal is taken now, not when it opened.
Debounced ==
    /\ pc[Loop] = "debounce"
    /\ \/ stopped /\ Goto("done") /\ UNCHANGED <<pending, trigger, scope>>
       \/ /\ ~stopped /\ Goto("woken")
          /\ trigger' = "FsEvent" /\ scope' = pending /\ pending' = NoScope
    /\ UNCHANGED <<lost, stopped, run, hand, isRetry, owes, timers, stopper, ticks, losses,
                   observed>>

\* reconcile_when_due, on whatever wake came out of the wait; the checks that
\* its own deadlines bring about as well are not counted on.
Reconcile ==
    /\ pc[Loop] = "woken"
    /\ \/ stopped /\ Goto("done") /\ UNCHANGED <<lost, unwatched>>
       \/ /\ ~stopped
          /\ lost' = (lost /\ trigger = "RegistrationLost")
          /\ unwatched' = (unwatched /\ (lost' \/ ~(lost \/ trigger = "RegistrationLost")))
          /\ Goto(IF trigger = "RegistrationLost" THEN "check" ELSE "fold")
    /\ UNCHANGED <<pending, stopped, run, hand, current, timers, stopper, ticks, losses,
                   unread, reading>>

\* The scope of the wake with what is owed folded in.
FoldedScope(retried, widens) ==
    IF retried THEN IF owed.scope # NoScope /\ ~widens THEN owed.scope
                    ELSE Widen(owed.scope, scope)
    ELSE IF owed.retry /\ ForcesScan(trigger) THEN Widen(owed.scope, scope)
    ELSE scope

\* OwedSweep::fold_wake, then a poll that is not yet due to sweep goes back.
Fold ==
    LET retried == owed.retry /\ owed.due
        backstopDue == trigger = "Poll" /\ backstop
    IN  /\ pc[Loop] = "fold"
        /\ scope' = FoldedScope(retried, ForcesScan(trigger) \/ backstopDue)
        /\ trigger' = IF retried THEN "FsEvent" ELSE trigger
        /\ isRetry' = retried
        /\ owed' = IF retried THEN NoOwed ELSE owed
        /\ \/ Goto("claim") /\ backstop' = (backstop /\ trigger # "Poll")
           \/ ~retried /\ trigger = "Poll" /\ ~backstop /\ Goto("check") /\ UNCHANGED backstop
        /\ UNCHANGED <<wake, run, hand, owes, stopper, ticks, losses, observed>>

\* claim_or_defer: a forced tick that cannot have the slot is remembered.
Claim ==
    /\ pc[Loop] = "claim"
    /\ \/ holder = {} /\ StartSweep(Loop, ForcesScan(trigger), scope) /\ UNCHANGED owes
       \/ /\ holder # {}
          /\ deferred' = IF ForcesScan(trigger) THEN Widen(deferred, scope) ELSE deferred
          /\ owes' = FALSE
          /\ Goto("settle")
          /\ UNCHANGED <<holder, hand, observed>>
    /\ UNCHANGED <<wake, trigger, scope, isRetry, timers, stopper, ticks, losses>>

\* Mutant: a sweep turned away is owed only when it was the retry.
TurnedAway_RetryOnly ==
    IF isRetry THEN [retry |-> TRUE, due |-> FALSE, scope |-> Widen(owed.scope, scope)]
    ELSE owed

\* A new event keeps the earlier deadline; the retry itself sets a later one.
TurnedAway ==
    [retry |-> TRUE, due |-> owed.retry /\ ~isRetry /\ owed.due,
     scope |-> Widen(owed.scope, scope)]

Settle ==
    /\ pc[Loop] = "settle"
    /\ owed' = IF owes THEN TurnedAway ELSE IF ForcesScan(trigger) THEN NoOwed ELSE owed
    /\ owes' = FALSE
    /\ Goto("check")
    /\ UNCHANGED <<wake, run, hand, trigger, scope, isRetry, backstop, stopper, ticks,
                   losses, observed>>

-----------------------------------------------------------------------------
(* Callers of tick() and stop().                                           *)

\* Mutant: a manual tick takes the slot without asking.
Tick_NoClaim(t) ==
    /\ pc[t] = "idle" /\ ticks < MaxTicks
    /\ ticks' = ticks + 1
    /\ StartSweep(t, FALSE, Everything)
    /\ UNCHANGED <<wake, current, timers, stopper, losses>>

\* run_or_join: sweep, or wait for the sweep in flight to end.
Tick(t) ==
    /\ pc[t] = "idle" /\ ticks < MaxTicks
    /\ ticks' = ticks + 1
    /\ \/ holder = {} /\ StartSweep(t, FALSE, Everything)
       \/ /\ holder # {}
          /\ pc' = [pc EXCEPT ![t] = "join"]
          /\ UNCHANGED <<run, hand, observed>>
    /\ UNCHANGED <<wake, current, timers, stopper, losses>>

Joined(t) ==
    /\ pc[t] = "joined"
    /\ pc' = [pc EXCEPT ![t] = "idle"]
    /\ UNCHANGED <<wake, run, hand, current, timers, stopper, ticks, losses, observed>>

Stop ==
    /\ stopper = "running"
    /\ stopped' = TRUE
    /\ stopper' = "waiting"
    /\ UNCHANGED <<pending, lost, run, pc, hand, current, timers, ticks, losses, observed>>

StopReturns ==
    /\ stopper = "waiting" /\ holder = {}
    /\ stopper' = "returned"
    /\ UNCHANGED <<wake, run, pc, hand, current, timers, ticks, losses, observed>>

-----------------------------------------------------------------------------
LoopStep ==
    \/ Startup \/ Check \/ Wait \/ Notified \/ TimedOut \/ Debounced
    \/ Reconcile \/ Fold \/ Claim \/ Settle

SweepStep(t) == Cancelled(t) \/ (\E o \in Outcomes : EndSweep(t, o)) \/ Post(t)

Next ==
    \/ \E f \in Files : \E sc \in EventScopes(f) : Signal(f, sc)
    \/ SignalRegistrationLost
    \/ RetryDue \/ BackstopDue
    \/ Startup \/ Check \/ Wait \/ Notified \/ TimedOut \/ Debounced
    \/ Reconcile \/ Fold \/ Claim \/ Settle
    \/ \E t \in Threads : \/ Cancelled(t)
                         \/ \E o \in Outcomes : EndSweep(t, o)
                         \/ Post(t)
    \/ \E t \in Tickers : Tick(t) \/ Joined(t)
    \/ Stop \/ StopReturns

Spec == Init /\ [][Next]_vars

\* A thread that can go on does, a timer that is set fires, a sweep ends; and a
\* forced sweep is not turned away, or failed, for ever.
Fairness ==
    /\ WF_vars(LoopStep) /\ WF_vars(RetryDue) /\ WF_vars(StopReturns)
    /\ \A t \in Threads : WF_vars(SweepStep(t))
    /\ \A t \in Tickers : WF_vars(Joined(t))
    /\ SF_vars(ForcesScan(trigger) /\ EndSweep(Loop, "ok"))

FairSpec == Spec /\ Fairness

-----------------------------------------------------------------------------
Triggers == {"Startup", "Poll", "FsEvent", "RegistrationLost"}
LoopPoints == {"startup", "check", "wait", "parked", "debounce", "woken", "fold", "claim",
               "sweeping", "cancelled", "post", "settle", "done"}
TickPoints == {"idle", "join", "joined", "sweeping", "cancelled", "post"}

\* Every variable of the wake slot, the run slot, the loop and its callers stays
\* in its type: in particular the loop never waits in a join.
TypeOK ==
    /\ pending \in Scope /\ deferred \in Scope /\ scope \in Scope
    /\ hand \in [Threads -> Scope]
    /\ owed \in [retry : BOOLEAN, due : BOOLEAN, scope : Scope]
    /\ lost \in BOOLEAN /\ stopped \in BOOLEAN /\ isRetry \in BOOLEAN
    /\ owes \in BOOLEAN /\ backstop \in BOOLEAN /\ unwatched \in BOOLEAN
    /\ holder \in SUBSET Threads
    /\ pc \in [Threads -> LoopPoints \cup TickPoints]
    /\ pc[Loop] \in LoopPoints /\ \A t \in Tickers : pc[t] \in TickPoints
    /\ trigger \in Triggers
    /\ stopper \in {"running", "waiting", "returned"}
    /\ ticks \in 0 .. MaxTicks /\ losses \in 0 .. MaxLost
    /\ unread \in SUBSET Files /\ reading \in SUBSET unread

\* At most one sweep holds the run slot, whoever started it, and the slot is
\* held exactly while its thread sweeps (claim_or_defer, run_or_join and
\* InFlight::drop agree).
OneSweep ==
    /\ \A s, t \in holder : s = t
    /\ \A t \in Threads : t \in holder <=> pc[t] \in {"sweeping", "cancelled"}

\* The wake the loop has taken out of the wake slot and not swept yet.
InHand(f) ==
    /\ Covers(scope, f)
    /\ \/ pc[Loop] \in {"woken", "fold", "claim"} /\ ForcesScan(trigger)
       \/ pc[Loop] \in {"post", "settle"} /\ owes

\* A change signalled to a loop that is not stopped, and that no forced sweep has
\* read since, is always still on its way to one: in the wake slot, taken out
\* by the loop, being read, deferred behind a sweep whose end re-posts it,
\* taken out by that end, or owed with a retry set.  Through every hand-over
\* between signal_change, debounced_change, fold_wake, claim_or_defer,
\* InFlight::drop and turned_away the scope still covers the file.
NoLostChange ==
    \A f \in unread :
        \/ stopped
        \/ Covers(pending, f)
        \/ InHand(f)
        \/ f \in reading
        \/ holder # {} /\ Covers(deferred, f)
        \/ \E t \in Threads : pc[t] = "post" /\ Covers(hand[t], f)
        \/ owed.retry /\ Covers(owed.scope, f)

\* A registration reported lost and not reconciled since is still recorded: the
\* bit is set, or the loop holds the wake that will reconcile.  The bit has two
\* readers (wait_for_wake and reconcile_when_due) and a debounce window that is
\* cut short without taking it.
LossRecorded ==
    unwatched => \/ stopped \/ lost
                 \/ pc[Loop] = "woken" /\ trigger = "RegistrationLost"

\* A file that stops changing is read by a forced sweep, or the loop is stopped:
\* no deferral, contention or failure parks a change for good.
EventuallyRead ==
    \A f \in Files :
        \/ []<><<\E sc \in EventScopes(f) : Signal(f, sc)>>_vars
        \/ (f \in unread) ~> (f \notin unread \/ stopped)

\* A lost registration is reconciled for having been reported, before any
\* deadline would, however busy the tree is.
EventuallyWatched == unwatched ~> (~unwatched \/ stopped)

\* A tick() that joined a sweep in flight returns, and so does stop().
CallersReturn ==
    /\ \A t \in Tickers : (pc[t] = "join") ~> (pc[t] = "idle")
    /\ (stopper = "waiting") ~> (stopper = "returned")
=============================================================================
