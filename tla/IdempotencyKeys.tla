-------------------------- MODULE IdempotencyKeys --------------------------
(***************************************************************************)
(* runWithIdempotency: the requests of one user that carry one             *)
(* Idempotency-Key on one route, and the idempotency_keys row they share.  *)
(* Rows of other users, routes and keys are independent.  The operation    *)
(* itself, execute(), is a transaction of another module: here it takes    *)
(* effect and returns, or throws and leaves nothing, or takes effect and   *)
(* throws, when the answer to its COMMIT is lost.                          *)
(***************************************************************************)
EXTENDS Naturals, Sequences

CONSTANTS
  Sessions,      \* requests served concurrently
  Bodies,        \* what a request asks for: what buildRequestHash hashes
  NoBody, NoSession,
  TTL,           \* idempotencyTtlSeconds
  StoreMayFail,  \* a query may fail, before or after Postgres has done it
  MaxRequests,   \* bound on the requests the client sends
  MaxTime        \* bound on the clock

ASSUME NamesAssumption == NoBody \notin Bodies /\ NoSession \notin Sessions
ASSUME BoundsAssumption ==
  TTL \in Nat \ {0} /\ MaxRequests \in Nat /\ MaxTime \in Nat /\ StoreMayFail \in BOOLEAN

VARIABLES
  now,      \* the clock
  row,      \* the row of the key
  effects,  \* the request body of each effect of execute(), in order
  sess,     \* what each session is doing
  sent,     \* how many requests were sent
  answers,  \* history: the 2xx answers given, as pairs of a body and an effect
  unsaved   \* history: how many effects a failed query kept from the key's row

vars == <<now, row, effects, sess, sent, answers, unsaved>>

Row == [status : {"NONE", "PROCESSING", "COMPLETED"}, by : Sessions \cup {NoSession},
        hash : Bodies \cup {NoBody}, response : Nat, expires : Nat]
Session == [phase : {"idle", "find", "insert", "refind", "execute", "complete", "answer",
                     "replay", "inProgress", "undo"},
            body : Bodies \cup {NoBody}, result : Nat]

TypeOK ==
  /\ now \in Nat /\ sent \in Nat /\ unsaved \in Nat
  /\ row \in Row
  /\ effects \in Seq(Bodies)
  /\ sess \in [Sessions -> Session]
  /\ answers \subseteq Bodies \X Nat

NoRow == [status |-> "NONE", by |-> NoSession, hash |-> NoBody, response |-> 0, expires |-> 0]
IdleSession == [phase |-> "idle", body |-> NoBody, result |-> 0]

Init ==
  /\ now = 0 /\ sent = 0 /\ unsaved = 0
  /\ row = NoRow
  /\ effects = <<>>
  /\ sess = [s \in Sessions |-> IdleSession]
  /\ answers = {}

\* Session s goes on to a phase, holding a result.
Goes(s, phase, result) ==
  sess' = [sess EXCEPT ![s] = [@ EXCEPT !.phase = phase, !.result = result]]
Ends(s) == sess' = [sess EXCEPT ![s] = IdleSession]
In(s, phase) == sess[s].phase = phase

\* findIdempotencyRecord sees only a row that has not expired.
Found == row.status # "NONE" /\ row.expires > now

Send(s, body) ==
  /\ In(s, "idle") /\ sent < MaxRequests
  /\ sess' = [sess EXCEPT ![s] = [phase |-> "find", body |-> body, result |-> 0]]
  /\ sent' = sent + 1
  /\ UNCHANGED <<now, row, effects, answers, unsaved>>

\* The first look at the row, and the three ways it refuses or replays.
Find(s) ==
  /\ In(s, "find")
  /\ \/ ~Found /\ Goes(s, "insert", 0)
     \/ Found /\ row.status = "COMPLETED" /\ row.hash = sess[s].body
              /\ Goes(s, "replay", row.response)
     \/ Found /\ row.status = "COMPLETED" /\ row.hash # sess[s].body /\ Ends(s)
     \/ Found /\ row.status = "PROCESSING" /\ Goes(s, "inProgress", 0)
  /\ UNCHANGED <<now, row, effects, sent, answers, unsaved>>

\* Mutated form: the insert takes over a row that has expired.
Free_Expired == row.status = "NONE" \/ row.expires <= now
\* The unique index has no row of the key, expired or not.
Free == row.status = "NONE"

\* insertProcessing, or unique_violation.
Insert(s) ==
  /\ In(s, "insert")
  /\ IF Free
     THEN /\ row' = [status |-> "PROCESSING", by |-> s, hash |-> sess[s].body,
                     response |-> 0, expires |-> now + TTL]
          /\ Goes(s, "execute", 0)
     ELSE row' = row /\ Goes(s, "refind", 0)
  /\ UNCHANGED <<now, effects, sent, answers, unsaved>>

\* The look after a unique_violation: it does not compare the hash.
Refind(s) ==
  /\ In(s, "refind")
  /\ IF Found /\ row.status = "COMPLETED" THEN Goes(s, "replay", row.response)
     ELSE Goes(s, "inProgress", 0)
  /\ UNCHANGED <<now, row, effects, sent, answers, unsaved>>

\* 409 IDEMPOTENCY_IN_PROGRESS
RefuseInProgress(s) ==
  In(s, "inProgress") /\ Ends(s) /\ UNCHANGED <<now, row, effects, sent, answers, unsaved>>

Execute(s) ==
  /\ In(s, "execute")
  /\ effects' = Append(effects, sess[s].body)
  /\ Goes(s, "complete", Len(effects) + 1)
  /\ UNCHANGED <<now, row, sent, answers, unsaved>>

\* The COMMIT is done and its answer lost: execute() throws.
ExecuteUnknown(s) ==
  /\ StoreMayFail /\ In(s, "execute")
  /\ effects' = Append(effects, sess[s].body)
  /\ unsaved' = unsaved + 1
  /\ Goes(s, "undo", 0)
  /\ UNCHANGED <<now, row, sent, answers>>

ExecuteThrows(s) ==
  In(s, "execute") /\ Goes(s, "undo", 0) /\ UNCHANGED <<now, row, effects, sent, answers, unsaved>>

\* Mutated form: a status the enum of the column does not have.
Complete_Misspelt(s) ==
  /\ In(s, "complete")
  /\ row' = [row EXCEPT !.status = "DONE", !.response = sess[s].result]
  /\ Goes(s, "answer", sess[s].result)
  /\ UNCHANGED <<now, effects, sent, answers, unsaved>>
\* completeIdempotency updates the row by the id its insert returned.
Completed(s) ==
  IF row.by = s THEN [row EXCEPT !.status = "COMPLETED", !.response = sess[s].result] ELSE row

Complete(s) ==
  /\ In(s, "complete")
  /\ row' = Completed(s)
  /\ Goes(s, "answer", sess[s].result)
  /\ UNCHANGED <<now, effects, sent, answers, unsaved>>

\* The query fails, before or after Postgres has done it.
CompleteFails(s) ==
  /\ StoreMayFail /\ In(s, "complete")
  /\ row' \in {row, Completed(s)}
  /\ unsaved' = IF row' = row THEN unsaved + 1 ELSE unsaved
  /\ Goes(s, "undo", 0)
  /\ UNCHANGED <<now, effects, sent, answers>>

\* sendSuccess, for a fresh answer or a stored one.
Answer(s) ==
  /\ In(s, "answer") \/ In(s, "replay")
  /\ answers' = answers \cup {<<sess[s].body, sess[s].result>>}
  /\ Ends(s)
  /\ UNCHANGED <<now, row, effects, sent, unsaved>>

\* It throws inside the try block: the handler goes on to deleteProcessing.
AnswerThrows(s) ==
  In(s, "answer") /\ Goes(s, "undo", 0) /\ UNCHANGED <<now, row, effects, sent, answers, unsaved>>

\* Mutated form: the row is deleted whatever its status.
Undo_Always(s) ==
  /\ In(s, "undo")
  /\ row' = IF row.by = s THEN NoRow ELSE row
  /\ Ends(s)
  /\ UNCHANGED <<now, effects, sent, answers, unsaved>>
\* deleteProcessing; the error is then the answer.
Undo(s) ==
  /\ In(s, "undo")
  /\ row' = IF row.by = s /\ row.status = "PROCESSING" THEN NoRow ELSE row
  /\ Ends(s)
  /\ UNCHANGED <<now, effects, sent, answers, unsaved>>

\* The process dies, or a query fails where nothing catches it.
Crash(s) == ~In(s, "idle") /\ Ends(s) /\ UNCHANGED <<now, row, effects, sent, answers, unsaved>>

Tick == now < MaxTime /\ now' = now + 1 /\ UNCHANGED <<row, effects, sess, sent, answers, unsaved>>

Progress(s) ==
  \/ Find(s) \/ Insert(s) \/ Refind(s) \/ RefuseInProgress(s)
  \/ Execute(s) \/ ExecuteUnknown(s) \/ ExecuteThrows(s)
  \/ Complete(s) \/ CompleteFails(s)
  \/ Answer(s) \/ AnswerThrows(s) \/ Undo(s)

Next ==
  \/ \E s \in Sessions : Progress(s) \/ Crash(s)
  \/ \E s \in Sessions, body \in Bodies : Send(s, body)
  \/ Tick

Spec == Init /\ [][Next]_vars

-----------------------------------------------------------------------------
(* What must hold. *)

\* A request that runs execute() or has its result still to store owns the
\* PROCESSING row, so that no two requests with the key ever run it at once,
\* however long they take and whatever expires meanwhile.
OneExecutor ==
  \A s \in Sessions :
    sess[s].phase \in {"execute", "complete"} => row.by = s /\ row.status = "PROCESSING"

\* Every 2xx answer given with the key, the first and all replays, is about the
\* same effect.
AnswersAgree == \A a, b \in answers : a[2] = b[2]

\* A key that has been answered is spent: nothing is executed again under it, not
\* after the row expires and not after the answer is lost.
AnsweredIsFinal == [][answers # {} => effects' = effects]_vars

\* Sending a request again with its key does not repeat its effect, whenever and
\* wherever the process dies and whatever expires: only an effect whose COMMIT
\* or completeIdempotency failed is forgotten, and its key deleted.
EffectOnce == Len(effects) <= unsaved + 1

-----------------------------------------------------------------------------
(* The protocol implements the promise of the key. *)

Promise == INSTANCE OneEffect WITH forgotten <- unsaved

\* Whatever expires, crashes or fails and however requests interleave: the effect
\* is taken, forgotten and told of as the promise allows.  The three properties
\* above follow from it.
KeyPromise == Promise!Spec

-----------------------------------------------------------------------------
(* What the documents say and the code does not do. *)

\* "A key reused with a different payload is refused with
\* IDEMPOTENCY_KEY_REUSED" (README.md).
ReplaysOwnRequest == \A a \in answers : effects[a[2]] = a[1]

=============================================================================
