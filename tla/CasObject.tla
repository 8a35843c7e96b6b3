----------------------------- MODULE CasObject ------------------------------
(***************************************************************************)
(* What ObjectStore::put promises of one key, whichever backend serves it. *)
(*                                                                         *)
(* A put takes effect at one instant between its call and its answer, and  *)
(* only at an instant at which its precondition holds.  A refusal names an *)
(* instant of the call at which the precondition did not hold.  An error   *)
(* says nothing: the put may have taken effect or not.                     *)
(*                                                                         *)
(* Source: plugins/object-store/rust/src/lib.rs (PutOpts, PutAck).         *)
(***************************************************************************)
EXTENDS Naturals, Sequences

CONSTANTS
    Procs,      \* callers
    Bodies,     \* contents
    Versions,   \* versions a caller may ask for
    None        \* no call, no answer

VARIABLES
    bodies,     \* every body the key has held, in order; version n is bodies[n]
    call,       \* the put each process has under way
    answer      \* what its last put answered

avars == <<bodies, call, answer>>

Current == Len(bodies)
Modes == {"create", "update", "overwrite"}
Request == [mode : Modes, body : Bodies, expect : Versions]

\* The precondition of a request, when the key is at version n (0: no object).
Permits(r, n) ==
    CASE r.mode = "create" -> n = 0
      [] r.mode = "update" -> n = r.expect
      [] r.mode = "overwrite" -> TRUE

Init ==
    /\ bodies = <<>>
    /\ call = [p \in Procs |-> None]
    /\ answer = [p \in Procs |-> None]

Invoke(p, r) ==
    /\ call[p] = None
    /\ call' = [call EXCEPT ![p] = [req |-> r, since |-> Current, done |-> 0]]
    /\ answer' = [answer EXCEPT ![p] = None]
    /\ UNCHANGED bodies

Apply(p) ==
    /\ call[p] # None
    /\ call[p].done = 0
    /\ Permits(call[p].req, Current)
    /\ bodies' = Append(bodies, call[p].req.body)
    /\ call' = [call EXCEPT ![p].done = Current + 1]
    /\ UNCHANGED answer

\* A create that meets its own content is an idempotent success.
MetItself(c, n) == c.req.mode = "create" /\ n # 0 /\ bodies[n] = c.req.body

Allows(c, a) ==
    CASE a.kind = "ok" -> c.done # 0 /\ a.version = c.done
      [] a.kind = "same" ->
            /\ c.done = 0
            /\ \E n \in c.since..Current : MetItself(c, n)
            /\ a.version \in c.since..Current
      [] a.kind = "refused" ->
            /\ c.done = 0
            /\ \E n \in c.since..Current : ~Permits(c.req, n) /\ ~MetItself(c, n)
      [] a.kind = "error" -> TRUE

Kinds == {"ok", "same", "refused", "error"}

Return(p) ==
    /\ call[p] # None
    /\ \E kind \in Kinds, v \in 0..Current :
          LET a == [kind |-> kind, version |-> v]
          IN  Allows(call[p], a) /\ answer' = [answer EXCEPT ![p] = a]
    /\ call' = [call EXCEPT ![p] = None]
    /\ UNCHANGED bodies

Next == \E p \in Procs : (\E r \in Request : Invoke(p, r)) \/ Apply(p) \/ Return(p)

Spec == Init /\ [][Next]_avars
=============================================================================
