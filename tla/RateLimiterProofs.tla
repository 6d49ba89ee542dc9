------------------------- MODULE RateLimiterProofs -------------------------
(***************************************************************************)
(* Proofs about RateLimiter, for every limit and any number of concurrent  *)
(* requests.                                                               *)
(***************************************************************************)
EXTENDS RateLimiter, TLAPS

\* The window has counted whatever it has admitted.
IInv == TypeOK /\ LimitKept /\ admitted <= count

LEMMA BecomesType ==
  ASSUME sess \in [Sessions -> Session], NEW s \in Sessions, NEW n \in 0 .. Top,
         NEW p \in {"idle", "incr", "expire", "decide"}, Becomes(s, p, n)
  PROVE  sess' \in [Sessions -> Session]
BY DEF Becomes, Session

LEMMA CountedType ==
  ASSUME NEW n \in 0 .. Top
  PROVE  /\ Counted(n) \in 0 .. Top /\ n <= Counted(n)
         /\ Admits(Counted(n)) => Counted(n) = n + 1
BY LimitAssumption DEF Counted, Top, Admits

LEMMA TopBounds == Top \in Nat /\ 0 \in 0 .. Top /\ MaxRequests \in Nat /\ 0 <= MaxRequests
BY LimitAssumption DEF Top

LEMMA InitInv == Init => IInv
<1> SUFFICES ASSUME Init PROVE IInv OBVIOUS
<1>1. count = 0 /\ admitted = 0 /\ sess = [s \in Sessions |-> IdleSession]
  BY DEF Init
<1>2. timed \in BOOLEAN /\ lost \in BOOLEAN
  BY DEF Init
<1>3. sess \in [Sessions -> Session]
  BY <1>1, TopBounds DEF Session, IdleSession
<1>4. count \in 0 .. Top /\ admitted \in Nat /\ admitted <= count /\ admitted <= MaxRequests
  BY <1>1, TopBounds
<1>5. QED BY <1>2, <1>3, <1>4 DEF IInv, TypeOK, LimitKept

LEMMA IncrInv ==
  ASSUME IInv, NEW s \in Sessions, Incr(s)
  PROVE  IInv'
<1> DEFINE n == Counted(count)
<1>1. /\ n \in 0 .. Top /\ count <= n /\ (Admits(n) => n = count + 1)
      /\ count \in 0 .. Top /\ admitted \in Nat /\ admitted <= count /\ admitted <= MaxRequests
      /\ sess \in [Sessions -> Session]
  BY CountedType DEF IInv, TypeOK, LimitKept
<1>2. /\ count' = n /\ UNCHANGED <<timed, lost>>
      /\ admitted' = IF Admits(n) THEN admitted + 1 ELSE admitted
  BY DEF Incr
<1>3. Becomes(s, "expire", n) \/ Becomes(s, "decide", n)
  BY DEF Incr
<1> HIDE DEF n
<1>4. sess' \in [Sessions -> Session]
  BY <1>1, <1>3, BecomesType
<1>5. admitted' \in Nat /\ admitted' <= count' /\ admitted' <= MaxRequests
  <2>1. CASE Admits(n)
    BY <1>1, <1>2, <2>1, LimitAssumption DEF Admits, Top
  <2>2. CASE ~Admits(n)
    BY <1>1, <1>2, <2>2, LimitAssumption DEF Top
  <2>3. QED BY <2>1, <2>2
<1>6. QED BY <1>1, <1>2, <1>4, <1>5 DEF IInv, TypeOK, LimitKept

\* The other steps of a request admit nothing and count nothing away.
LEMMA OtherInv ==
  ASSUME IInv, NEW s \in Sessions,
         Request(s) \/ SetExpiry(s) \/ Decide(s) \/ FailOpen(s) \/ Crash(s)
  PROVE  IInv'
<1>1. /\ count \in 0 .. Top /\ admitted \in Nat /\ sess \in [Sessions -> Session]
      /\ timed \in BOOLEAN /\ lost \in BOOLEAN
      /\ sess[s].n \in 0 .. Top /\ 0 \in 0 .. Top /\ admitted <= count /\ admitted <= MaxRequests
  BY LimitAssumption DEF IInv, TypeOK, LimitKept, Session, Top
<1>2. \/ Becomes(s, "incr", 0) \/ Becomes(s, "decide", sess[s].n) \/ Becomes(s, "idle", 0)
  BY DEF Request, SetExpiry, Decide, FailOpen, Crash
<1>3. sess' \in [Sessions -> Session]
  BY <1>1, <1>2, BecomesType
<1>4. count' \in {count, Counted(count)} /\ admitted' = admitted
      /\ timed' \in BOOLEAN /\ lost' \in BOOLEAN
  BY <1>1 DEF Request, SetExpiry, Decide, FailOpen, Crash, In
<1>5. count' \in 0 .. Top /\ count <= count'
  BY <1>1, <1>4, CountedType
<1>6. admitted' <= count'
  BY <1>1, <1>4, <1>5, LimitAssumption DEF Top
<1>7. QED BY <1>1, <1>3, <1>4, <1>5, <1>6 DEF IInv, TypeOK, LimitKept

LEMMA NextInv == IInv /\ [Next]_vars => IInv'
<1> SUFFICES ASSUME IInv, [Next]_vars PROVE IInv' OBVIOUS
<1>1. ASSUME NEW s \in Sessions, Request(s) \/ Progress(s) \/ Crash(s)
      PROVE  IInv'
  BY <1>1, IncrInv, OtherInv DEF Progress
<1>2. CASE Expire
  <2>1. count' = 0 /\ admitted' = 0 /\ sess' = sess
    BY <1>2 DEF Expire
  <2>2. timed' \in BOOLEAN /\ lost' \in BOOLEAN
    BY <1>2 DEF Expire, IInv, TypeOK
  <2>3. /\ count' \in 0 .. Top /\ admitted' \in Nat /\ admitted' <= count'
        /\ admitted' <= MaxRequests /\ sess' \in [Sessions -> Session]
    BY <2>1, TopBounds DEF IInv, TypeOK
  <2>4. QED BY <2>2, <2>3 DEF IInv, TypeOK, LimitKept
<1>3. CASE UNCHANGED vars
  BY <1>3 DEF vars, IInv, TypeOK, LimitKept
<1>4. QED BY <1>1, <1>2, <1>3 DEF Next

\* A window admits no more requests than the limit, for every limit, however many
\* are served at once and whatever calls to Redis fail or are lost.
THEOREM LimitIsKept == Spec => []LimitKept
<1>1. IInv => LimitKept BY DEF IInv
<1>2. QED BY <1>1, InitInv, NextInv, PTL DEF Spec

-----------------------------------------------------------------------------
(* What WindowEnds rests on.  That a window ends needs fairness and is     *)
(* checked by TLC; that something is left to end it is proved.             *)

LEMMA EndIsDueStep == IInv /\ EndIsDue /\ [Next]_vars => EndIsDue'
<1> SUFFICES ASSUME IInv, EndIsDue, [Next]_vars, count' # 0, ~timed', ~lost'
             PROVE  \E t \in Sessions : In(t, "expire")'
  BY DEF EndIsDue
<1>1. sess \in [Sessions -> Session] /\ count \in 0 .. Top
  BY DEF IInv, TypeOK
<1>2. \A s \in Sessions : \A p, n : Becomes(s, p, n) =>
        /\ sess'[s].phase = p
        /\ \A t \in Sessions \ {s} : sess'[t] = sess[t]
  BY <1>1 DEF Becomes
<1>3. CASE Expire \/ UNCHANGED vars
  BY <1>3 DEF Expire, vars, EndIsDue, In
<1>4. ASSUME NEW s \in Sessions, Incr(s)
      PROVE  \E t \in Sessions : In(t, "expire")'
  <2>1. CASE count = 0
    <3>1. Counted(count) = 1
      BY <2>1, LimitAssumption DEF Counted, Top
    <3>2. Becomes(s, "expire", 1)
      BY <1>4, <3>1 DEF Incr, Opens
    <3>3. QED BY <1>2, <3>2 DEF In
  <2>2. CASE count # 0
    <3>1. /\ In(s, "incr") /\ ~timed /\ ~lost
          /\ Becomes(s, IF Opens(Counted(count)) THEN "expire" ELSE "decide", Counted(count))
      BY <1>4 DEF Incr
    <3>2. PICK t \in Sessions : In(t, "expire")
      BY <2>2, <3>1 DEF EndIsDue
    <3>3. QED BY <1>2, <3>1, <3>2 DEF In
  <2>3. QED BY <2>1, <2>2
<1>5. ASSUME NEW s \in Sessions, SetExpiry(s)
      PROVE  FALSE
  BY <1>5 DEF SetExpiry
<1>6. ASSUME NEW s \in Sessions, Request(s) \/ Decide(s) \/ FailOpen(s) \/ Crash(s)
      PROVE  \E t \in Sessions : In(t, "expire")'
  <2>1. ~In(s, "expire") /\ count # 0 /\ ~timed /\ ~lost
    <3>1. CASE FailOpen(s)
      <4>1. CASE In(s, "expire")
        BY <3>1, <4>1 DEF FailOpen, In
      <4>2. CASE In(s, "incr") /\ count' = Counted(count) /\ timed' = timed
                 /\ lost' = (lost \/ count = 0)
        BY <4>2 DEF In
      <4>3. CASE UNCHANGED <<count, timed>> /\ lost' = (lost \/ In(s, "expire"))
        BY <4>3
      <4>4. QED BY <3>1, <4>1, <4>2, <4>3 DEF FailOpen
    <3>2. CASE Crash(s)
      BY <3>2 DEF Crash
    <3>3. CASE Request(s) \/ Decide(s)
      BY <3>3 DEF Request, Decide, In
    <3>4. QED BY <1>6, <3>1, <3>2, <3>3
  <2>2. PICK t \in Sessions : In(t, "expire")
    BY <2>1 DEF EndIsDue
  <2>3. \E p, n : Becomes(s, p, n)
    BY <1>6 DEF Request, Decide, FailOpen, Crash
  <2>4. QED BY <1>2, <2>1, <2>2, <2>3 DEF In
<1>7. QED BY <1>3, <1>4, <1>5, <1>6 DEF Next, Progress

\* However many clients' requests race with the end of a window, a counter always has its
\* end set or about to be, unless a call to Redis or the process failed at that moment.
THEOREM EndsAreDue == Spec => []EndIsDue
<1>1. Init => EndIsDue
  BY DEF Init, EndIsDue
<1>2. QED BY <1>1, EndIsDueStep, InitInv, NextInv, PTL DEF Spec

=============================================================================
