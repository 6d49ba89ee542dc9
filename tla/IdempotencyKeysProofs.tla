----------------------- MODULE IdempotencyKeysProofs -----------------------
(***************************************************************************)
(* Proofs about IdempotencyKeys: for every number of requests with the     *)
(* key, every number of bodies and every time to live.                     *)
(***************************************************************************)
EXTENDS IdempotencyKeys, TLAPS

-----------------------------------------------------------------------------
(* The inductive invariant. *)

\* Only the effects of this row's request, and those a failed query hid, exist.
Counts ==
  /\ Len(effects) <= unsaved + 1
  /\ row.status = "NONE" => Len(effects) <= unsaved
  /\ \A s \in Sessions : In(s, "execute") => Len(effects) <= unsaved
  /\ \A s \in Sessions : In(s, "undo") /\ row.by = s /\ row.status = "PROCESSING" =>
       Len(effects) <= unsaved

\* What is answered is what the COMPLETED row stores.
Stored(n) == row.status = "COMPLETED" /\ n = row.response
Results ==
  /\ \A s \in Sessions : sess[s].phase \in {"answer", "replay"} => Stored(sess[s].result)
  /\ \A a \in answers : Stored(a[2])
  /\ row.status = "COMPLETED" => row.response \in 1 .. Len(effects)
  /\ \A s \in Sessions : In(s, "complete") => sess[s].result \in 1 .. Len(effects)

\* The body of a session that has begun is one of Bodies.
BodyKept == \A s \in Sessions : ~In(s, "idle") => sess[s].body \in Bodies

KInv == TypeOK /\ OneExecutor /\ Counts /\ Results /\ BodyKept

-----------------------------------------------------------------------------
(* The session that moves, and the others. *)

LEMMA IdleType == IdleSession \in Session /\ IdleSession.phase = "idle"
BY DEF IdleSession, Session

LEMMA RowTypes ==
  /\ NoRow \in Row /\ NoRow.status = "NONE" /\ NoRow.by = NoSession
  /\ \A s \in Sessions, b \in Bodies, e \in Nat :
       [status |-> "PROCESSING", by |-> s, hash |-> b, response |-> 0, expires |-> e] \in Row
  /\ \A r \in Row, n \in Nat :
       /\ [r EXCEPT !.status = "COMPLETED", !.response = n] \in Row
       /\ [r EXCEPT !.status = "COMPLETED", !.response = n].status = "COMPLETED"
       /\ [r EXCEPT !.status = "COMPLETED", !.response = n].response = n
       /\ [r EXCEPT !.status = "COMPLETED", !.response = n].by = r.by
BY DEF NoRow, Row

LEMMA EndsShape ==
  ASSUME sess \in [Sessions -> Session], NEW s \in Sessions, Ends(s)
  PROVE  /\ sess' \in [Sessions -> Session] /\ sess'[s].phase = "idle"
         /\ \A t \in Sessions \ {s} : sess'[t] = sess[t]
BY IdleType DEF Ends

LEMMA GoesShape ==
  ASSUME sess \in [Sessions -> Session], NEW s \in Sessions, NEW n \in Nat,
         NEW p \in {"insert", "refind", "execute", "complete", "answer", "replay",
                    "inProgress", "undo"},
         Goes(s, p, n)
  PROVE  /\ sess' \in [Sessions -> Session]
         /\ sess'[s].phase = p /\ sess'[s].result = n /\ sess'[s].body = sess[s].body
         /\ \A t \in Sessions \ {s} : sess'[t] = sess[t]
<1>1. sess[s] \in Session /\ sess' = [sess EXCEPT ![s] = [sess[s] EXCEPT !.phase = p, !.result = n]]
  BY DEF Goes
<1>2. [sess[s] EXCEPT !.phase = p, !.result = n] \in Session
  BY <1>1 DEF Session
<1>3. QED BY <1>1, <1>2 DEF Session

\* A session that only moves between phases without a claim, or ends, keeps the
\* invariant when nothing else changes but its going on.
LEMMA Quiet ==
  ASSUME KInv, NEW s \in Sessions,
         sess' \in [Sessions -> Session],
         \A t \in Sessions \ {s} : sess'[t] = sess[t],
         sess'[s].phase \notin {"execute", "complete"},
         sess'[s].phase \in {"answer", "replay"} => Stored(sess'[s].result),
         sess'[s].phase = "undo" => (row.status = "PROCESSING" => Len(effects) <= unsaved),
         sess'[s].phase # "idle" => sess'[s].body \in Bodies,
         sent' \in Nat,
         answers' = answers \/ (\E n \in Nat, b \in Bodies :
                                  Stored(n) /\ answers' = answers \cup {<<b, n>>}),
         UNCHANGED <<now, row, effects, unsaved>>
  PROVE  KInv'
<1>1. TypeOK'
  BY DEF KInv, TypeOK
<1>2. OneExecutor'
  BY DEF KInv, OneExecutor
<1>3. Counts'
  BY DEF KInv, Counts, In
<1>4. Results'
  BY DEF KInv, Results, Stored, In
<1>5. BodyKept'
  BY DEF KInv, BodyKept, In
<1>6. QED BY <1>1, <1>2, <1>3, <1>4, <1>5 DEF KInv

-----------------------------------------------------------------------------
(* The invariant, one action at a time. *)

LEMMA InitInv == Init => KInv
<1> SUFFICES ASSUME Init PROVE KInv OBVIOUS
<1>1. /\ now = 0 /\ sent = 0 /\ unsaved = 0 /\ row = NoRow /\ effects = <<>> /\ answers = {}
      /\ sess \in [Sessions -> Session] /\ \A s \in Sessions : sess[s].phase = "idle"
  BY IdleType DEF Init
<1>2. row \in Row /\ row.status = "NONE"
  BY <1>1, RowTypes
<1>3. effects \in Seq(Bodies) /\ Len(effects) = 0
  BY <1>1
<1>4. TypeOK
  BY <1>1, <1>2, <1>3 DEF TypeOK
<1>5. OneExecutor /\ Counts /\ Results /\ BodyKept
  BY <1>1, <1>2, <1>3 DEF OneExecutor, Counts, Results, BodyKept, In
<1>6. QED BY <1>4, <1>5 DEF KInv

LEMMA SendInv ==
  ASSUME KInv, NEW s \in Sessions, NEW b \in Bodies, Send(s, b)
  PROVE  KInv'
<1> DEFINE new == [phase |-> "find", body |-> b, result |-> 0]
<1>1. new \in Session /\ sess \in [Sessions -> Session] /\ sess' = [sess EXCEPT ![s] = new]
  BY DEF Send, Session, KInv, TypeOK
<1>2. /\ sess' \in [Sessions -> Session] /\ sess'[s].phase = "find" /\ sess'[s].body = b
      /\ \A t \in Sessions \ {s} : sess'[t] = sess[t]
  BY <1>1
<1>3. sent' \in Nat /\ UNCHANGED <<now, row, effects, answers, unsaved>>
  BY DEF Send, KInv, TypeOK
<1>4. QED BY <1>2, <1>3, Quiet

\* What a step of s leaves alone or may claim, when it only goes on.
LEMMA GoesQuiet ==
  ASSUME KInv, NEW s \in Sessions, ~In(s, "idle"), NEW n \in Nat,
         NEW p \in {"insert", "refind", "answer", "replay", "inProgress", "undo"},
         Goes(s, p, n),
         p \in {"answer", "replay"} => Stored(n),
         p = "undo" => (row.status = "PROCESSING" => Len(effects) <= unsaved),
         UNCHANGED <<now, row, effects, sent, answers, unsaved>>
  PROVE  KInv'
<1>1. sess \in [Sessions -> Session] /\ sess[s].body \in Bodies /\ sent' \in Nat
  BY DEF KInv, TypeOK, BodyKept
<1>2. /\ sess' \in [Sessions -> Session]
      /\ sess'[s].phase = p /\ sess'[s].result = n /\ sess'[s].body = sess[s].body
      /\ \A t \in Sessions \ {s} : sess'[t] = sess[t]
  BY <1>1, GoesShape
<1>3. QED BY <1>1, <1>2, Quiet

LEMMA EndsQuiet ==
  ASSUME KInv, NEW s \in Sessions, Ends(s),
         answers' = answers \/ (\E n \in Nat, b \in Bodies :
                                  Stored(n) /\ answers' = answers \cup {<<b, n>>}),
         UNCHANGED <<now, row, effects, sent, unsaved>>
  PROVE  KInv'
<1>1. sess \in [Sessions -> Session] /\ sent' \in Nat
  BY DEF KInv, TypeOK
<1>2. /\ sess' \in [Sessions -> Session] /\ sess'[s].phase = "idle"
      /\ \A t \in Sessions \ {s} : sess'[t] = sess[t]
  BY <1>1, EndsShape
<1>3. QED BY <1>1, <1>2, Quiet

LEMMA LookInv ==
  ASSUME KInv, NEW s \in Sessions, Find(s) \/ Refind(s) \/ RefuseInProgress(s)
  PROVE  KInv'
<1>1. /\ ~In(s, "idle") /\ UNCHANGED <<now, row, effects, sent, answers, unsaved>>
      /\ row.response \in Nat /\ 0 \in Nat
  BY DEF Find, Refind, RefuseInProgress, In, KInv, TypeOK, Row
<1>2. \/ Ends(s)
      \/ Goes(s, "insert", 0) \/ Goes(s, "inProgress", 0)
      \/ Goes(s, "replay", row.response) /\ Stored(row.response)
  BY DEF Find, Refind, RefuseInProgress, Stored
<1>3. CASE Ends(s) BY <1>1, <1>3, EndsQuiet
<1>4. CASE Goes(s, "insert", 0) BY <1>1, <1>4, GoesQuiet
<1>5. CASE Goes(s, "inProgress", 0) BY <1>1, <1>5, GoesQuiet
<1>6. CASE Goes(s, "replay", row.response) /\ Stored(row.response) BY <1>1, <1>6, GoesQuiet
<1>7. QED BY <1>2, <1>3, <1>4, <1>5, <1>6

LEMMA AnswerInv ==
  ASSUME KInv, NEW s \in Sessions,
         Answer(s) \/ AnswerThrows(s) \/ ExecuteThrows(s) \/ Crash(s)
  PROVE  KInv'
<1>1. /\ ~In(s, "idle") /\ UNCHANGED <<now, row, effects, sent, unsaved>> /\ 0 \in Nat
      /\ sess[s].body \in Bodies /\ sess[s].result \in Nat
  BY DEF Answer, AnswerThrows, ExecuteThrows, Crash, In, KInv, TypeOK, Session, BodyKept
<1>2. CASE Answer(s)
  <2>1. Stored(sess[s].result) /\ answers' = answers \cup {<<sess[s].body, sess[s].result>>}
    BY <1>2 DEF Answer, KInv, Results, In
  <2>2. Ends(s) BY <1>2 DEF Answer
  <2>3. QED BY <1>1, <2>1, <2>2, EndsQuiet
<1>3. CASE AnswerThrows(s)
  <2>1. row.status = "COMPLETED"
    BY <1>3 DEF AnswerThrows, KInv, Results, Stored, In
  <2>2. Goes(s, "undo", 0) /\ answers' = answers BY <1>3 DEF AnswerThrows
  <2>3. QED BY <1>1, <2>1, <2>2, GoesQuiet
<1>4. CASE ExecuteThrows(s)
  <2>1. Len(effects) <= unsaved
    BY <1>4 DEF ExecuteThrows, KInv, Counts
  <2>2. Goes(s, "undo", 0) /\ answers' = answers BY <1>4 DEF ExecuteThrows
  <2>3. QED BY <1>1, <2>1, <2>2, GoesQuiet
<1>5. CASE Crash(s)
  BY <1>1, <1>5, EndsQuiet DEF Crash
<1>6. QED BY <1>2, <1>3, <1>4, <1>5

\* The unique index gives the key to one session.
LEMMA InsertInv ==
  ASSUME KInv, NEW s \in Sessions, Insert(s)
  PROVE  KInv'
<1>1. /\ In(s, "insert") /\ UNCHANGED <<now, effects, sent, answers, unsaved>>
      /\ sess \in [Sessions -> Session] /\ sess[s].body \in Bodies /\ now + TTL \in Nat
  BY BoundsAssumption DEF Insert, KInv, TypeOK, BodyKept, In
<1>2. CASE ~Free
  <2>1. ~In(s, "idle") /\ row' = row /\ Goes(s, "refind", 0)
    BY <1>1, <1>2 DEF Insert, In
  <2>2. QED BY <1>1, <2>1, GoesQuiet
<1>3. CASE Free
  <2>1. /\ row.status = "NONE" /\ Goes(s, "execute", 0)
        /\ row' = [status |-> "PROCESSING", by |-> s, hash |-> sess[s].body,
                   response |-> 0, expires |-> now + TTL]
    BY <1>3 DEF Insert, Free
  <2>2. row' \in Row /\ row'.status = "PROCESSING" /\ row'.by = s
    BY <1>1, <2>1, RowTypes
  <2>3. /\ sess' \in [Sessions -> Session] /\ sess'[s].phase = "execute"
        /\ sess'[s].body = sess[s].body
        /\ \A t \in Sessions \ {s} : sess'[t] = sess[t]
    BY <1>1, <2>1, GoesShape
  <2>4. TypeOK'
    BY <1>1, <2>2, <2>3 DEF KInv, TypeOK
  <2>5. \A t \in Sessions : sess[t].phase \notin {"execute", "complete", "answer", "replay"}
    BY <2>1 DEF KInv, OneExecutor, Results, Stored
  <2>6. OneExecutor'
    BY <2>2, <2>3, <2>5 DEF OneExecutor
  <2>7. Counts'
    BY <1>1, <2>1, <2>2, <2>3, <2>5 DEF KInv, Counts, In
  <2>8. Results'
    BY <1>1, <2>1, <2>2, <2>3, <2>5 DEF KInv, Results, Stored, In
  <2>9. BodyKept'
    BY <1>1, <2>3 DEF KInv, BodyKept, In
  <2>10. QED BY <2>4, <2>6, <2>7, <2>8, <2>9 DEF KInv
<1>4. QED BY <1>2, <1>3

\* The effect, whose request owns the row and is the only one to run.
LEMMA ExecuteInv ==
  ASSUME KInv, NEW s \in Sessions, Execute(s) \/ ExecuteUnknown(s)
  PROVE  KInv'
<1>1. /\ In(s, "execute") /\ UNCHANGED <<now, row, sent, answers>>
      /\ effects' = Append(effects, sess[s].body)
  BY DEF Execute, ExecuteUnknown
<1>2. /\ sess \in [Sessions -> Session] /\ sess[s].body \in Bodies
      /\ effects \in Seq(Bodies) /\ unsaved \in Nat
      /\ row.status = "PROCESSING" /\ row.by = s /\ Len(effects) <= unsaved
  BY <1>1 DEF KInv, TypeOK, BodyKept, OneExecutor, Counts, In
<1>3. effects' \in Seq(Bodies) /\ Len(effects') = Len(effects) + 1 /\ Len(effects) \in Nat
  BY <1>1, <1>2
<1>4. ASSUME NEW t \in Sessions, t # s
      PROVE  sess[t].phase \notin {"execute", "complete", "answer", "replay"}
  BY <1>2, <1>4 DEF KInv, OneExecutor, Results, Stored
<1>5. CASE Execute(s)
  <2>1. Goes(s, "complete", Len(effects) + 1) /\ unsaved' = unsaved
    BY <1>5 DEF Execute
  <2>2. /\ sess' \in [Sessions -> Session] /\ sess'[s].phase = "complete"
        /\ sess'[s].body = sess[s].body /\ sess'[s].result = Len(effects) + 1
        /\ \A t \in Sessions \ {s} : sess'[t] = sess[t]
    BY <1>2, <1>3, <2>1, GoesShape
  <2>3. TypeOK'
    BY <1>1, <1>3, <2>1, <2>2 DEF KInv, TypeOK
  <2>4. OneExecutor'
    BY <1>1, <1>2, <1>4, <2>2 DEF OneExecutor
  <2>5. Counts'
    BY <1>1, <1>2, <1>3, <1>4, <2>1, <2>2 DEF Counts, In
  <2>6. Results'
    BY <1>1, <1>2, <1>3, <1>4, <2>2 DEF KInv, Results, Stored, In
  <2>7. BodyKept'
    BY <1>2, <2>2 DEF KInv, BodyKept, In
  <2>8. QED BY <2>3, <2>4, <2>5, <2>6, <2>7 DEF KInv
<1>6. CASE ExecuteUnknown(s)
  <2>1. Goes(s, "undo", 0) /\ unsaved' = unsaved + 1
    BY <1>6 DEF ExecuteUnknown
  <2>2. /\ sess' \in [Sessions -> Session] /\ sess'[s].phase = "undo"
        /\ sess'[s].body = sess[s].body
        /\ \A t \in Sessions \ {s} : sess'[t] = sess[t]
    BY <1>2, <2>1, GoesShape
  <2>3. TypeOK'
    BY <1>1, <1>2, <1>3, <2>1, <2>2 DEF KInv, TypeOK
  <2>4. OneExecutor'
    BY <1>1, <1>2, <1>4, <2>2 DEF OneExecutor
  <2>5. Counts'
    BY <1>1, <1>2, <1>3, <1>4, <2>1, <2>2 DEF Counts, In
  <2>6. Results'
    BY <1>1, <1>2, <1>3, <1>4, <2>2 DEF KInv, Results, Stored, In
  <2>7. BodyKept'
    BY <1>2, <2>2 DEF KInv, BodyKept, In
  <2>8. QED BY <2>3, <2>4, <2>5, <2>6, <2>7 DEF KInv
<1>7. QED BY <1>5, <1>6

LEMMA CompleteInv ==
  ASSUME KInv, NEW s \in Sessions, Complete(s) \/ CompleteFails(s)
  PROVE  KInv'
<1>1. /\ In(s, "complete") /\ UNCHANGED <<now, effects, sent, answers>>
      /\ row' \in {row, Completed(s)}
  BY DEF Complete, CompleteFails
<1>2. /\ sess \in [Sessions -> Session] /\ sess[s].body \in Bodies
      /\ row \in Row /\ row.status = "PROCESSING" /\ row.by = s
      /\ unsaved \in Nat /\ effects \in Seq(Bodies) /\ Len(effects) <= unsaved + 1
      /\ sess[s].result \in 1 .. Len(effects)
  BY <1>1 DEF KInv, TypeOK, BodyKept, OneExecutor, Counts, Results, In
<1>3. sess[s].result \in Nat /\ Len(effects) \in Nat
  BY <1>2
<1>4. /\ Completed(s) \in Row /\ Completed(s).status = "COMPLETED" /\ Completed(s).by = s
      /\ Completed(s).response = sess[s].result
  BY <1>2, <1>3, RowTypes DEF Completed
<1>5. ASSUME NEW t \in Sessions, t # s
      PROVE  /\ sess[t].phase \notin {"execute", "complete", "answer", "replay"}
             /\ ~(In(t, "undo") /\ row.by = t)
  BY <1>2, <1>5 DEF KInv, OneExecutor, Results, Stored
<1>6. answers = {}
  BY <1>2 DEF KInv, Results, Stored
<1>7. PICK p \in {"answer", "undo"}, n \in Nat :
        /\ Goes(s, p, n)
        /\ p = "answer" => n = sess[s].result /\ row' = Completed(s)
        /\ unsaved' = IF row' = row THEN unsaved + 1 ELSE unsaved
  <2>1. CASE Complete(s)
    <3>1. Goes(s, "answer", sess[s].result) /\ row' = Completed(s) /\ unsaved' = unsaved
      BY <2>1 DEF Complete
    <3>2. row' # row
      BY <1>2, <1>4, <3>1
    <3>3. QED BY <1>3, <3>1, <3>2
  <2>2. CASE CompleteFails(s)
    BY <2>2 DEF CompleteFails
  <2>3. QED BY <2>1, <2>2
<1>8. /\ sess' \in [Sessions -> Session] /\ sess'[s].phase = p
      /\ sess'[s].body = sess[s].body /\ sess'[s].result = n
      /\ \A t \in Sessions \ {s} : sess'[t] = sess[t]
  BY <1>2, <1>7, GoesShape
<1>9. unsaved' \in Nat /\ Len(effects) <= unsaved' + 1
      /\ (row'.status = "PROCESSING" => Len(effects) <= unsaved')
  <2>1. CASE row' = row
    BY <1>2, <1>3, <1>7, <2>1
  <2>2. CASE row' # row
    <3>1. row'.status = "COMPLETED" /\ unsaved' = unsaved
      BY <1>1, <1>4, <1>7, <2>2
    <3>2. QED BY <1>2, <3>1
  <2>3. QED BY <2>1, <2>2
<1>10. TypeOK'
  BY <1>1, <1>2, <1>4, <1>8, <1>9 DEF KInv, TypeOK
<1>11. OneExecutor'
  BY <1>5, <1>7, <1>8 DEF OneExecutor
<1>12. Counts'
  <2>1. row'.status # "NONE" /\ row'.by = s
    BY <1>1, <1>2, <1>4
  <2>2. QED BY <1>1, <1>5, <1>7, <1>8, <1>9, <2>1 DEF Counts, In
<1>13. Results'
  BY <1>1, <1>2, <1>4, <1>5, <1>6, <1>7, <1>8 DEF Results, Stored, In
<1>14. BodyKept'
  BY <1>2, <1>8 DEF KInv, BodyKept, In
<1>15. QED BY <1>10, <1>11, <1>12, <1>13, <1>14 DEF KInv

\* The row is deleted by the request that inserted it, before it has an answer.
LEMMA UndoInv ==
  ASSUME KInv, NEW s \in Sessions, Undo(s)
  PROVE  KInv'
<1>1. /\ In(s, "undo") /\ Ends(s) /\ UNCHANGED <<now, effects, sent, answers, unsaved>>
      /\ row' = IF row.by = s /\ row.status = "PROCESSING" THEN NoRow ELSE row
  BY DEF Undo
<1>2. CASE ~(row.by = s /\ row.status = "PROCESSING")
  <2>1. row' = row
    BY <1>1, <1>2
  <2>2. QED BY <1>1, <2>1, EndsQuiet
<1>3. CASE row.by = s /\ row.status = "PROCESSING"
  <2>1. /\ row' \in Row /\ row'.status = "NONE" /\ Len(effects) <= unsaved
    BY <1>1, <1>3, RowTypes DEF KInv, Counts
  <2>2. /\ sess' \in [Sessions -> Session] /\ sess'[s].phase = "idle"
        /\ \A t \in Sessions \ {s} : sess'[t] = sess[t]
    BY <1>1, EndsShape DEF KInv, TypeOK
  <2>3. ASSUME NEW t \in Sessions, t # s
        PROVE  sess[t].phase \notin {"execute", "complete", "answer", "replay"}
    BY <1>3, <2>3 DEF KInv, OneExecutor, Results, Stored
  <2>4. answers = {}
    BY <1>3 DEF KInv, Results, Stored
  <2>5. TypeOK'
    BY <1>1, <2>1, <2>2 DEF KInv, TypeOK
  <2>6. OneExecutor'
    BY <2>2, <2>3 DEF OneExecutor
  <2>7. Counts'
    BY <1>1, <2>1, <2>2, <2>3 DEF KInv, Counts, In
  <2>8. Results'
    BY <1>1, <2>1, <2>2, <2>3, <2>4 DEF Results, Stored, In
  <2>9. BodyKept'
    BY <2>2 DEF KInv, BodyKept, In
  <2>10. QED BY <2>5, <2>6, <2>7, <2>8, <2>9 DEF KInv
<1>4. QED BY <1>2, <1>3

\* The clock, and the other requests of the user.
LEMMA ClockInv ==
  ASSUME KInv, now' \in Nat, sent' \in Nat, UNCHANGED <<row, effects, sess, answers, unsaved>>
  PROVE  KInv'
BY DEF KInv, TypeOK, OneExecutor, Counts, Results, Stored, BodyKept, In

LEMMA NextInv == KInv /\ [Next]_vars => KInv'
<1> SUFFICES ASSUME KInv, [Next]_vars PROVE KInv' OBVIOUS
<1>1. ASSUME NEW s \in Sessions, Progress(s) \/ Crash(s)
      PROVE  KInv'
  BY <1>1, LookInv, AnswerInv, InsertInv, ExecuteInv, CompleteInv, UndoInv DEF Progress
<1>2. ASSUME NEW s \in Sessions, NEW b \in Bodies, Send(s, b)
      PROVE  KInv'
  BY <1>2, SendInv
<1>3. CASE Tick \/ UNCHANGED vars
  BY <1>3, ClockInv DEF Tick, vars, KInv, TypeOK
<1>4. QED BY <1>1, <1>2, <1>3 DEF Next

-----------------------------------------------------------------------------
(* What follows from it. *)

LEMMA KInvAgrees == KInv => AnswersAgree
BY DEF KInv, Results, Stored, AnswersAgree

LEMMA KInvOnce == KInv => EffectOnce
BY DEF KInv, Counts, EffectOnce

\* A key that has been answered has its row COMPLETED, and nobody executes.
LEMMA AnsweredStep ==
  ASSUME KInv, [Next]_vars, answers # {}
  PROVE  effects' = effects
<1>1. row.status = "COMPLETED"
  BY DEF KInv, Results, Stored
<1>2. \A s \in Sessions : ~In(s, "execute")
  BY <1>1 DEF KInv, OneExecutor, In
<1>3. CASE UNCHANGED vars
  BY <1>3 DEF vars
<1>4. CASE Next
  BY <1>2, <1>4 DEF Next, Progress, Find, Insert, Refind, RefuseInProgress, Execute,
     ExecuteUnknown, ExecuteThrows, Complete, CompleteFails, Answer, AnswerThrows, Undo,
     Crash, Send, Tick
<1>5. QED BY <1>3, <1>4

\* For any number of requests with one key: one executes at a time, all answers
\* are about one effect, and no effect is made twice but for a failed query.
THEOREM KeyInvariance == Spec => [](TypeOK /\ OneExecutor /\ AnswersAgree /\ EffectOnce)
<1>1. KInv => TypeOK /\ OneExecutor /\ AnswersAgree /\ EffectOnce
  BY KInvAgrees, KInvOnce DEF KInv
<1>2. QED BY <1>1, InitInv, NextInv, PTL DEF Spec

\* An answered key is never executed again, even after its row has expired.
THEOREM KeyIsFinal == Spec => AnsweredIsFinal
<1>1. KInv /\ [Next]_vars => [answers # {} => effects' = effects]_vars
  BY AnsweredStep
<1>2. QED BY <1>1, InitInv, NextInv, PTL DEF Spec, AnsweredIsFinal

-----------------------------------------------------------------------------
(* The protocol implements the promise of the key: OneEffect counts the    *)
(* effects exactly, where the invariant above only bounds them.            *)

\* At most the last effect is remembered; the one who must store it, and the row that
\* has stored it, refer to it.
Remembers(n) == Len(effects) = unsaved + 1 /\ n = Len(effects)
Exact ==
  /\ unsaved <= Len(effects)
  /\ \A s \in Sessions : In(s, "complete") => Remembers(sess[s].result)
  /\ row.status = "COMPLETED" => Remembers(row.response)

LEMMA InitExact == Init => Exact
BY IdleType DEF Init, Exact, In, NoRow, IdleSession

\* Steps that make no effect, hide none and store none.
LEMMA ExactKept ==
  ASSUME Exact, UNCHANGED <<row, effects, unsaved>>,
         \A t \in Sessions : sess'[t].phase = "complete" => sess'[t] = sess[t]
  PROVE  Exact'
BY DEF Exact, Remembers, In

LEMMA LookExact ==
  ASSUME KInv, Exact, NEW s \in Sessions, NEW b \in Bodies,
         \/ Find(s) \/ Refind(s) \/ RefuseInProgress(s) \/ Send(s, b)
         \/ Answer(s) \/ AnswerThrows(s) \/ ExecuteThrows(s) \/ Crash(s)
  PROVE  Exact'
<1>1. sess \in [Sessions -> Session] /\ UNCHANGED <<row, effects, unsaved>>
  BY DEF KInv, TypeOK, Find, Refind, RefuseInProgress, Send, Answer, AnswerThrows,
     ExecuteThrows, Crash
<1>2. PICK new : sess' = [sess EXCEPT ![s] = new] /\ new.phase # "complete"
  <2>1. CASE \E p \in {"insert", "replay", "inProgress", "undo"}, n \in Nat : Goes(s, p, n)
    <3>1. PICK p \in {"insert", "replay", "inProgress", "undo"}, n \in Nat : Goes(s, p, n)
      BY <2>1
    <3>2. [sess[s] EXCEPT !.phase = p, !.result = n].phase = p
      BY <1>1 DEF Session
    <3>3. QED BY <3>1, <3>2 DEF Goes
  <2>2. CASE Ends(s)
    BY <2>2, IdleType DEF Ends
  <2>3. CASE Send(s, b)
    <3>1. sess' = [sess EXCEPT ![s] = [phase |-> "find", body |-> b, result |-> 0]]
      BY <2>3 DEF Send
    <3>2. [phase |-> "find", body |-> b, result |-> 0].phase # "complete"
      OBVIOUS
    <3>3. QED BY <3>1, <3>2
  <2>4. row.response \in Nat /\ 0 \in Nat
    BY DEF KInv, TypeOK, Row
  <2>5. QED
    BY <2>1, <2>2, <2>3, <2>4 DEF Find, Refind, RefuseInProgress, Answer, AnswerThrows,
       ExecuteThrows, Crash
<1>3. \A t \in Sessions : sess'[t].phase = "complete" => sess'[t] = sess[t]
  BY <1>1, <1>2
<1>4. QED BY <1>1, <1>3, ExactKept

LEMMA InsertExact ==
  ASSUME KInv, Exact, NEW s \in Sessions, Insert(s)
  PROVE  Exact'
<1>1. /\ sess \in [Sessions -> Session] /\ UNCHANGED <<effects, unsaved>>
      /\ row' = row \/ row'.status = "PROCESSING"
      /\ \E p \in {"refind", "execute"} : Goes(s, p, 0)
  BY DEF Insert, KInv, TypeOK
<1>2. \A t \in Sessions : sess'[t].phase = "complete" => sess'[t] = sess[t]
  BY <1>1, GoesShape
<1>3. QED BY <1>1, <1>2 DEF Exact, Remembers, In

LEMMA ExecuteExact ==
  ASSUME KInv, Exact, NEW s \in Sessions, Execute(s) \/ ExecuteUnknown(s)
  PROVE  Exact' /\ Len(effects) = unsaved /\ sess[s].body \in Bodies
<1>1. /\ In(s, "execute") /\ row' = row /\ effects' = Append(effects, sess[s].body)
  BY DEF Execute, ExecuteUnknown
<1>2. /\ sess \in [Sessions -> Session] /\ sess[s].body \in Bodies
      /\ effects \in Seq(Bodies) /\ unsaved \in Nat /\ Len(effects) = unsaved
      /\ row.by = s /\ row.status = "PROCESSING"
  BY <1>1 DEF KInv, TypeOK, OneExecutor, Counts, BodyKept, Exact, In
<1>3. Len(effects') = Len(effects) + 1
  BY <1>1, <1>2
<1>4. \A t \in Sessions \ {s} : sess[t].phase # "complete"
  BY <1>2 DEF KInv, OneExecutor
<1>5. CASE Execute(s)
  <2>1. Goes(s, "complete", Len(effects) + 1) /\ unsaved' = unsaved /\ Len(effects) + 1 \in Nat
    BY <1>2, <1>5 DEF Execute
  <2>2. /\ sess'[s].result = Len(effects) + 1
        /\ \A t \in Sessions \ {s} : sess'[t] = sess[t]
    BY <1>2, <2>1, GoesShape
  <2>3. QED BY <1>1, <1>2, <1>3, <1>4, <2>1, <2>2 DEF Exact, Remembers, In
<1>6. CASE ExecuteUnknown(s)
  <2>1. Goes(s, "undo", 0) /\ unsaved' = unsaved + 1
    BY <1>6 DEF ExecuteUnknown
  <2>2. /\ sess'[s].phase = "undo"
        /\ \A t \in Sessions \ {s} : sess'[t] = sess[t]
    BY <1>2, <2>1, GoesShape
  <2>3. QED BY <1>1, <1>2, <1>3, <1>4, <2>1, <2>2 DEF Exact, Remembers, In
<1>7. QED BY <1>5, <1>6

\* The result is stored, or it is forgotten before anybody was told of it.
LEMMA CompleteExact ==
  ASSUME KInv, Exact, NEW s \in Sessions, Complete(s) \/ CompleteFails(s)
  PROVE  /\ Exact'
         /\ Len(effects) = unsaved + 1 /\ answers = {} /\ unsaved' \in {unsaved, unsaved + 1}
<1>1. /\ In(s, "complete") /\ effects' = effects /\ row' \in {row, Completed(s)}
      /\ \E p \in {"answer", "undo"}, n \in Nat : Goes(s, p, n)
      /\ unsaved' = IF row' = row THEN unsaved + 1 ELSE unsaved
  <2>1. In(s, "complete") /\ row.by = s /\ row.status = "PROCESSING" /\ sess[s].result \in Nat
    BY DEF Complete, CompleteFails, KInv, OneExecutor, TypeOK, Session, In
  <2>2. Completed(s).status = "COMPLETED" /\ Completed(s) # row
    BY <2>1, RowTypes DEF Completed, KInv, TypeOK
  <2>3. QED BY <2>1, <2>2 DEF Complete, CompleteFails
<1>2. /\ sess \in [Sessions -> Session] /\ row \in Row /\ unsaved \in Nat
      /\ effects \in Seq(Bodies) /\ row.by = s /\ row.status = "PROCESSING"
      /\ Remembers(sess[s].result) /\ sess[s].result \in Nat
  BY <1>1 DEF KInv, TypeOK, OneExecutor, Exact, Session, In
<1>3. answers = {}
  BY <1>2 DEF KInv, Results, Stored
<1>4. \A t \in Sessions : sess'[t].phase # "complete"
  <2>1. \A t \in Sessions \ {s} : sess[t].phase # "complete"
    BY <1>2 DEF KInv, OneExecutor
  <2>2. QED BY <1>1, <1>2, <2>1, GoesShape
<1>5. Completed(s).status = "COMPLETED" /\ Completed(s).response = sess[s].result
  BY <1>2, RowTypes DEF Completed
<1>6. CASE row' = row
  BY <1>1, <1>2, <1>3, <1>4, <1>6 DEF Exact, Remembers, In
<1>7. CASE row' # row
  BY <1>1, <1>2, <1>3, <1>4, <1>5, <1>7 DEF Exact, Remembers, In
<1>8. QED BY <1>6, <1>7

LEMMA UndoExact ==
  ASSUME KInv, Exact, NEW s \in Sessions, Undo(s)
  PROVE  Exact'
<1>1. /\ sess \in [Sessions -> Session] /\ Ends(s) /\ UNCHANGED <<effects, unsaved>>
      /\ row' = row \/ row'.status = "NONE"
  BY RowTypes DEF Undo, KInv, TypeOK
<1>2. \A t \in Sessions : sess'[t].phase = "complete" => sess'[t] = sess[t]
  BY <1>1, EndsShape
<1>3. QED BY <1>1, <1>2 DEF Exact, Remembers, In

LEMMA NextExact == KInv /\ Exact /\ [Next]_vars => Exact'
<1> SUFFICES ASSUME KInv, Exact, [Next]_vars PROVE Exact' OBVIOUS
<1>1. ASSUME NEW s \in Sessions, Progress(s) \/ Crash(s)
      PROVE  Exact'
  <2>1. CASE \E b \in Bodies : TRUE
    BY <1>1, <2>1, LookExact, InsertExact, ExecuteExact, CompleteExact, UndoExact DEF Progress
  <2>2. CASE ~\E b \in Bodies : TRUE
    <3>1. In(s, "idle")
      BY <2>2 DEF KInv, BodyKept
    <3>2. QED
      BY <1>1, <3>1 DEF Progress, Crash, Find, Insert, Refind, RefuseInProgress, Execute,
         ExecuteUnknown, ExecuteThrows, Complete, CompleteFails, Answer, AnswerThrows, Undo, In
  <2>3. QED BY <2>1, <2>2
<1>2. ASSUME NEW s \in Sessions, NEW b \in Bodies, Send(s, b)
      PROVE  Exact'
  BY <1>2, LookExact
<1>3. CASE Tick \/ UNCHANGED vars
  BY <1>3, ExactKept DEF Tick, vars
<1>4. QED BY <1>1, <1>2, <1>3 DEF Next

\* Each step is one of the promise's, or changes nothing of it.
LEMMA PromiseStep ==
  ASSUME KInv, Exact, [Next]_vars
  PROVE  [Promise!Next]_(Promise!vars)
<1> USE DEF Promise!vars
<1>1. effects \in Seq(Bodies) /\ unsaved \in Nat
  BY DEF KInv, TypeOK
<1>2. ASSUME NEW s \in Sessions, Execute(s) \/ ExecuteUnknown(s)
      PROVE  Promise!Take(sess[s].body) /\ sess[s].body \in Bodies
  BY <1>2, ExecuteExact DEF Promise!Take, Execute, ExecuteUnknown
<1>3. ASSUME NEW s \in Sessions, Complete(s) \/ CompleteFails(s)
      PROVE  Promise!Forget \/ UNCHANGED Promise!vars
  <2>1. UNCHANGED <<effects, answers>>
    BY <1>3 DEF Complete, CompleteFails
  <2>2. QED BY <1>3, <2>1, CompleteExact DEF Promise!Forget, Promise!Remembered
<1>4. ASSUME NEW s \in Sessions, Answer(s)
      PROVE  Promise!Tell(sess[s].body) /\ sess[s].body \in Bodies
  <2>1. Stored(sess[s].result) /\ sess[s].body \in Bodies
    BY <1>4 DEF Answer, KInv, Results, BodyKept, In
  <2>2. Len(effects) = unsaved + 1 /\ sess[s].result = Len(effects)
    BY <2>1 DEF Stored, Exact, Remembers
  <2>3. QED BY <1>4, <2>1, <2>2 DEF Answer, Promise!Tell, Promise!Remembered
<1>5. ASSUME NEW s \in Sessions, Progress(s) \/ Crash(s)
      PROVE  Promise!Next \/ UNCHANGED Promise!vars
  <2>1. CASE Find(s) \/ Insert(s) \/ Refind(s) \/ RefuseInProgress(s) \/ ExecuteThrows(s)
               \/ AnswerThrows(s) \/ Undo(s) \/ Crash(s)
    BY <2>1 DEF Find, Insert, Refind, RefuseInProgress, ExecuteThrows, AnswerThrows, Undo, Crash
  <2>2. QED BY <1>2, <1>3, <1>4, <1>5, <2>1 DEF Progress, Promise!Next
<1>6. CASE (\E s \in Sessions, b \in Bodies : Send(s, b)) \/ Tick \/ UNCHANGED vars
  BY <1>6 DEF Send, Tick, vars
<1>7. QED BY <1>5, <1>6 DEF Next

LEMMA PromiseInit == Init => Promise!Init
BY DEF Init, Promise!Init

\* The requests with one key, as they race, expire, fail and crash, implement the promise of
\* the key: each effect is taken only when the one before was forgotten, none is forgotten
\* that somebody was told of, and every answer is about the effect that is remembered.
THEOREM KeyKeepsPromise == Spec => KeyPromise
<1>1. KInv /\ Exact /\ [Next]_vars => KInv' /\ Exact'
  BY NextInv, NextExact
<1>2. KInv /\ Exact /\ [Next]_vars => [Promise!Next]_(Promise!vars)
  BY PromiseStep
<1>3. Init => KInv /\ Exact /\ Promise!Init
  BY InitInv, InitExact, PromiseInit
<1>4. QED BY <1>1, <1>2, <1>3, PTL DEF Spec, KeyPromise, Promise!Spec

-----------------------------------------------------------------------------
(* What the promise is worth to the clients of the key. *)

\* There is at most one effect to be told of, and the answers are about it.
Kept ==
  /\ effects \in Seq(Bodies) /\ unsaved \in Nat
  /\ Len(effects) \in {unsaved, unsaved + 1}
  /\ \A a \in answers : Remembers(a[2])

LEMMA KeptInit == Promise!Init => Kept
BY DEF Promise!Init, Kept

LEMMA KeptStep ==
  ASSUME Kept, [Promise!Next]_(Promise!vars)
  PROVE  Kept' /\ (answers # {} => effects' = effects)
<1> USE DEF Kept, Remembers
<1>1. ASSUME NEW b \in Bodies, Promise!Take(b)
      PROVE  Kept' /\ answers = {}
  <2>1. /\ effects' = Append(effects, b) /\ Len(effects) = unsaved
        /\ unsaved' \in {unsaved, unsaved + 1} /\ answers' = answers
    BY <1>1 DEF Promise!Take
  <2>2. effects' \in Seq(Bodies) /\ Len(effects') = Len(effects) + 1
    BY <2>1
  <2>3. answers = {}
    BY <2>1
  <2>4. answers' = {}
    BY <2>1, <2>3
  <2>5. unsaved' \in Nat /\ Len(effects') \in {unsaved', unsaved' + 1}
    <3>1. unsaved \in Nat /\ unsaved + 1 \in Nat /\ Len(effects') = unsaved + 1
      BY <2>1, <2>2
    <3>2. CASE unsaved' = unsaved BY <3>1, <3>2
    <3>3. CASE unsaved' = unsaved + 1 BY <3>1, <3>3
    <3>4. QED BY <2>1, <3>2, <3>3
  <2>6. QED BY <2>2, <2>3, <2>4, <2>5
<1>2. CASE Promise!Forget
  BY <1>2 DEF Promise!Forget, Promise!Remembered
<1>3. ASSUME NEW b \in Bodies, Promise!Tell(b)
      PROVE  Kept' /\ effects' = effects
  BY <1>3 DEF Promise!Tell, Promise!Remembered
<1>4. CASE UNCHANGED Promise!vars
  BY <1>4 DEF Promise!vars
<1>5. QED BY <1>1, <1>2, <1>3, <1>4 DEF Promise!Next, Promise!Forget

\* The promise is all a client needs: answers to the key agree, sending a request again
\* does not repeat its effect, and an answered key is spent.  No row, phase or clock is used.
THEOREM PromiseSuffices == KeyPromise => [](AnswersAgree /\ EffectOnce) /\ AnsweredIsFinal
<1>1. Kept => AnswersAgree /\ EffectOnce
  BY DEF Kept, Remembers, AnswersAgree, EffectOnce
<1>2. Kept /\ [Promise!Next]_(Promise!vars) => Kept'
  BY KeptStep
<1>3. Kept /\ [Promise!Next]_(Promise!vars) => [answers # {} => effects' = effects]_vars
  BY KeptStep
<1>4. QED BY <1>1, <1>2, <1>3, KeptInit, PTL DEF KeyPromise, Promise!Spec, AnsweredIsFinal

=============================================================================
