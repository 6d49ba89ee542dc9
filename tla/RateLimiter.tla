---------------------------- MODULE RateLimiter ----------------------------
(***************************************************************************)
(* createRateLimitMiddleware: the counter one identity has on one route.   *)
(* A window is the life of the counter's key, from the INCR that creates   *)
(* it to the end of the time to live that EXPIRE gives it; the two are     *)
(* separate calls.                                                         *)
(***************************************************************************)
EXTENDS Naturals

CONSTANTS
  Sessions,      \* requests served concurrently
  MaxRequests,   \* config.maxRequests
  MayFail        \* Redis and the process may fail

ASSUME LimitAssumption == MaxRequests \in Nat \ {0} /\ MayFail \in BOOLEAN

VARIABLES
  count,     \* the counter, 0 when there is no key
  timed,     \* the key has a time to live
  sess,      \* what each session is doing
  admitted,  \* history: the requests this window admits, the failed-open not counted
  lost       \* history: the call that gives the key its time to live was lost

vars == <<count, timed, sess, admitted, lost>>

\* Bound of the model, not of the code: counting stops once the limit is passed,
\* beyond which the code tells no counts apart.
Top == MaxRequests + 2
Session == [phase : {"idle", "incr", "expire", "decide"}, n : 0 .. Top]
IdleSession == [phase |-> "idle", n |-> 0]

TypeOK ==
  /\ count \in 0 .. Top /\ timed \in BOOLEAN
  /\ sess \in [Sessions -> Session]
  /\ admitted \in Nat /\ lost \in BOOLEAN

Init ==
  /\ count = 0 /\ timed = FALSE /\ admitted = 0 /\ lost = FALSE
  /\ sess = [s \in Sessions |-> IdleSession]

In(s, phase) == sess[s].phase = phase
Becomes(s, phase, n) == sess' = [sess EXCEPT ![s] = [phase |-> phase, n |-> n]]

Request(s) == In(s, "idle") /\ Becomes(s, "incr", 0) /\ UNCHANGED <<count, timed, admitted, lost>>

\* Mutated form: one request too many.
Admits_OneMore(n) == n <= MaxRequests + 1
Admits(n) == n <= MaxRequests

Counted(n) == IF n < Top THEN n + 1 ELSE Top

\* Mutated form: the first request is looked for under 0.
Opens_Zero(n) == n = 0
Opens(n) == n = 1

\* redis.incr: the window that admits the request is the one that counts it.
Incr(s) ==
  LET n == Counted(count) IN
  /\ In(s, "incr")
  /\ count' = n
  /\ admitted' = IF Admits(n) THEN admitted + 1 ELSE admitted
  /\ Becomes(s, IF Opens(n) THEN "expire" ELSE "decide", n)
  /\ UNCHANGED <<timed, lost>>

\* Mutated form: the time to live is not given.
SetExpiry_Not(s) ==
  In(s, "expire") /\ Becomes(s, "decide", sess[s].n) /\ UNCHANGED <<count, timed, admitted, lost>>
\* redis.expire: nothing happens when the key is gone.
SetExpiry(s) ==
  /\ In(s, "expire")
  /\ timed' = (count # 0)
  /\ Becomes(s, "decide", sess[s].n)
  /\ UNCHANGED <<count, admitted, lost>>

\* next(), or 429 with Retry-After.
Decide(s) ==
  In(s, "decide") /\ Becomes(s, "idle", 0) /\ UNCHANGED <<count, timed, admitted, lost>>

\* Redis fails, before or after it has done what was asked: the request goes on
\* uncounted.
FailOpen(s) ==
  /\ MayFail /\ sess[s].phase \in {"incr", "expire"}
  /\ \/ /\ UNCHANGED <<count, timed>>
        /\ lost' = (lost \/ In(s, "expire"))
     \/ /\ In(s, "incr") /\ count' = Counted(count) /\ timed' = timed
        /\ lost' = (lost \/ count = 0)
     \/ In(s, "expire") /\ timed' = (count # 0) /\ UNCHANGED <<count, lost>>
  /\ Becomes(s, "idle", 0)
  /\ UNCHANGED admitted

\* The process dies.
Crash(s) ==
  /\ MayFail /\ ~In(s, "idle")
  /\ lost' = (lost \/ In(s, "expire"))
  /\ Becomes(s, "idle", 0)
  /\ UNCHANGED <<count, timed, admitted>>

\* The time to live of the key ends.
Expire ==
  /\ timed
  /\ count' = 0 /\ timed' = FALSE /\ admitted' = 0
  /\ UNCHANGED <<sess, lost>>

Progress(s) == Incr(s) \/ SetExpiry(s) \/ Decide(s) \/ FailOpen(s)

Next == Expire \/ \E s \in Sessions : Request(s) \/ Progress(s) \/ Crash(s)

Spec == Init /\ [][Next]_vars

\* Requests are served and times to live end.
Fairness == WF_vars(Expire) /\ \A s \in Sessions : WF_vars(Progress(s))
FairSpec == Spec /\ Fairness

-----------------------------------------------------------------------------
\* However the requests of a client interleave and Redis fails, a window admits
\* no more of them than the limit.
LimitKept == admitted <= MaxRequests

\* A key without a time to live has its EXPIRE under way, or the call was lost: no
\* interleaving of requests with the end of an earlier window leaves one without.
EndIsDue == count # 0 => timed \/ lost \/ \E s \in Sessions : In(s, "expire")

\* A client over the limit is under it again, as the Retry-After header of its
\* 429 says, unless the call to EXPIRE that follows the window's first INCR was
\* lost: then the key has no end.
WindowEnds == count > MaxRequests ~> count = 0 \/ lost

=============================================================================
