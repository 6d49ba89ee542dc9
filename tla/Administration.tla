-------------------------- MODULE Administration ---------------------------
(***************************************************************************)
(* The administrators' requests that change a status, and the audit_logs   *)
(* rows that tell of them: PATCH /admin/users|arenas|events/:id/status,    *)
(* with the requests that change the same rows unaudited: an arena's       *)
(* update, an event's update and DELETE /events/:id.  requireAuth reads    *)
(* the caller's status once, when the request is admitted.                 *)
(***************************************************************************)
EXTENDS Naturals, Sequences, FiniteSets

CONSTANTS
  Admins, Organizers,  \* users by role; no request changes a role
  Arenas, Events,      \* of the organizers
  Sessions,            \* requests served concurrently
  NoUser, NoTarget, NoSession,
  MaxRequests          \* bound on the requests sent

Users == Admins \cup Organizers
Resources == Users \cup Arenas \cup Events

ASSUME AdminNamesAssumption ==
  /\ Admins \cap Organizers = {} /\ Users \cap Arenas = {}
  /\ Users \cap Events = {} /\ Arenas \cap Events = {}
  /\ NoUser \notin Users /\ NoTarget \notin Resources /\ NoSession \notin Sessions
ASSUME AdminBoundsAssumption ==
  IsFiniteSet(Sessions) /\ MaxRequests \in Nat /\ Admins # {}

VARIABLES
  status,   \* users, arenas, events: the column of that name
  audit,    \* audit_logs: the rows about each resource, in the order of their commits
  held,     \* the transaction that has a row FOR UPDATE
  sess,     \* what each request is doing
  sent,     \* how many were sent
  told      \* history of each event: changes by PATCH, rows lost, edits that revived it

vars == <<status, audit, held, sess, sent, told>>

Blocked == {"SUSPENDED", "INACTIVE"}
UserStatus == {"ACTIVE"} \cup Blocked
ArenaStatus == {"ACTIVE", "INACTIVE"}
EventStatus == {"DRAFT", "PUBLISHED", "CANCELLED"}
StatusOf(r) == IF r \in Users THEN UserStatus ELSE IF r \in Arenas THEN ArenaStatus ELSE EventStatus
AnyStatus == UserStatus \cup EventStatus

AuditRow == [actor : Admins, from : AnyStatus, to : AnyStatus]
Session == [op : {"none", "patch", "delete", "edit"},
            phase : {"idle", "lock", "locked", "look", "load", "update", "audit", "write"},
            actor : Users \cup {NoUser}, target : Resources \cup {NoTarget},
            to : AnyStatus, seen : AnyStatus]
Idle == [op |-> "none", phase |-> "idle", actor |-> NoUser, target |-> NoTarget,
         to |-> "ACTIVE", seen |-> "ACTIVE"]

TypeOK ==
  /\ status \in [Resources -> AnyStatus] /\ \A r \in Resources : status[r] \in StatusOf(r)
  /\ audit \in [Resources -> Seq(AuditRow)]
  /\ held \in [Resources -> Sessions \cup {NoSession}]
  /\ sess \in [Sessions -> Session]
  /\ sent \in Nat
  /\ told \in [Events -> [changed : Nat, lost : Nat, revived : Nat]]
  /\ \A r \in Resources : held[r] # NoSession =>
       sess[held[r]].phase = "locked" /\ sess[held[r]].target = r

Init ==
  /\ status = [r \in Resources |-> IF r \in Events THEN "PUBLISHED" ELSE "ACTIVE"]
  /\ audit = [r \in Resources |-> <<>>]
  /\ held = [r \in Resources |-> NoSession]
  /\ sess = [s \in Sessions |-> Idle]
  /\ sent = 0
  /\ told = [e \in Events |-> [changed |-> 0, lost |-> 0, revived |-> 0]]

-----------------------------------------------------------------------------
(* Rows, locks and phases. *)

At(s, phase) == sess[s].phase = phase
Target(s) == sess[s].target
Goes(s, phase, seen) == sess' = [sess EXCEPT ![s] = [@ EXCEPT !.phase = phase, !.seen = seen]]
Ends(s) == sess' = [sess EXCEPT ![s] = Idle]
Release(s) == held' = [r \in Resources |-> IF held[r] = s THEN NoSession ELSE held[r]]

\* insertAuditLog.  Its foreign key takes FOR KEY SHARE on the actor's row, which
\* waits for a transaction that has it FOR UPDATE.
ActorFree(s) == held[sess[s].actor] \in {s, NoSession}
InsertAuditLog(s) ==
  /\ ActorFree(s)
  /\ audit' = [audit EXCEPT ![Target(s)] =
       Append(@, [actor |-> sess[s].actor, from |-> sess[s].seen, to |-> sess[s].to])]

-----------------------------------------------------------------------------
(* The requests. *)

\* Mutated form: the administrator's own account may be the target.
MayPatch_Self(actor, target) == TRUE
\* assertNotSelf
MayPatch(actor, target) == actor # target

\* requireAuth and requireRoles: the caller's row is read here and not again.
Admit(s, op, actor, target, phase, to) ==
  /\ At(s, "idle") /\ sent < MaxRequests
  /\ status[actor] = "ACTIVE"
  /\ sess' = [sess EXCEPT ![s] = [op |-> op, phase |-> phase, actor |-> actor,
                                  target |-> target, to |-> to, seen |-> "CANCELLED"]]
  /\ sent' = sent + 1
  /\ UNCHANGED <<status, audit, held, told>>

\* PATCH /admin/users|arenas/:id/status
SendPatch(s) ==
  \E a \in Admins, r \in Users \cup Arenas : \E to \in StatusOf(r) :
    MayPatch(a, r) /\ Admit(s, "patch", a, r, "lock", to)
\* PATCH /admin/events/:id/status, which takes CANCELLED only
SendCancel(s) ==
  \E a \in Admins, e \in Events : Admit(s, "patch", a, e, "look", "CANCELLED")
\* DELETE /events/:id, by its organizer or an administrator
SendDelete(s) ==
  \E u \in Users, e \in Events : Admit(s, "delete", u, e, "load", "CANCELLED")
\* PATCH /events/:id with a status, or with that of the row
SendEdit(s) ==
  \E u \in Users, e \in Events, to \in EventStatus \ {"CANCELLED"} :
    Admit(s, "edit", u, e, "load", to)

-----------------------------------------------------------------------------
(* patchAdminUserStatus and patchAdminArenaStatus: one transaction. *)

\* USER_TRANSITIONS; an arena goes from either status to the other.
Allowed(r, from, to) == from # to /\ (r \in Users => "ACTIVE" \in {from, to})

\* Mutated form: SELECT without FOR UPDATE.
Lock_Unlocked(s) ==
  /\ At(s, "lock")
  /\ Allowed(Target(s), status[Target(s)], sess[s].to)
  /\ Goes(s, "locked", status[Target(s)])
  /\ UNCHANGED <<status, audit, held, sent, told>>
\* SELECT ... FOR UPDATE, and the move the body asks for is one of the table's.
Lock(s) ==
  /\ At(s, "lock") /\ held[Target(s)] = NoSession
  /\ Allowed(Target(s), status[Target(s)], sess[s].to)
  /\ held' = [held EXCEPT ![Target(s)] = s]
  /\ Goes(s, "locked", status[Target(s)])
  /\ UNCHANGED <<status, audit, sent, told>>

\* Mutated form: the refused request leaves its transaction open.
Refuse_Open(s) ==
  /\ At(s, "lock") /\ held[Target(s)] = NoSession
  /\ ~Allowed(Target(s), status[Target(s)], sess[s].to)
  /\ held' = [held EXCEPT ![Target(s)] = s]
  /\ Ends(s)
  /\ UNCHANGED <<status, audit, sent, told>>
\* INVALID_STATUS_TRANSITION, or nothing to change: the transaction ends.
Refuse(s) ==
  /\ At(s, "lock") /\ held[Target(s)] = NoSession
  /\ ~Allowed(Target(s), status[Target(s)], sess[s].to)
  /\ Ends(s)
  /\ UNCHANGED <<status, audit, held, sent, told>>

\* UPDATE, INSERT of the audit row and COMMIT.
Commit(s) ==
  /\ At(s, "locked")
  /\ status' = [status EXCEPT ![Target(s)] = sess[s].to]
  /\ InsertAuditLog(s)
  /\ Release(s) /\ Ends(s)
  /\ UNCHANGED <<sent, told>>

\* Postgres ends one transaction of a cycle: each waits for the row of its
\* actor, which the next has FOR UPDATE.
WaitsFor(s, t) == At(s, "locked") /\ s # t /\ held[sess[s].actor] = t
Deadlocked(s) ==
  \E D \in SUBSET Sessions :
    /\ s \in D
    /\ \A d \in D : (\E e \in D : WaitsFor(d, e)) /\ (\E e \in D : WaitsFor(e, d))
BreakDeadlock(s) ==
  /\ Deadlocked(s)
  /\ Release(s) /\ Ends(s)
  /\ UNCHANGED <<status, audit, sent, told>>

-----------------------------------------------------------------------------
(* patchAdminEventStatus, cancelEvent and updateEvent. *)

\* Mutated form: the status the row will tell of is read when the event has been
\* cancelled already.
Look_Late(s) ==
  /\ At(s, "look")
  /\ Goes(s, "load", "CANCELLED")
  /\ UNCHANGED <<status, audit, held, sent, told>>
\* fromStatus, the first of two reads
Look(s) ==
  /\ At(s, "look")
  /\ Goes(s, "load", status[Target(s)])
  /\ UNCHANGED <<status, audit, held, sent, told>>

\* Is the row of fromStatus due when cancelEvent returns?
AfterCancel(s) ==
  IF sess[s].op = "patch" /\ sess[s].seen # "CANCELLED" THEN Goes(s, "audit", sess[s].seen)
  ELSE Ends(s)

\* loadEvent: a cancelled event is left as it is, and its update is refused.
Load(s) ==
  /\ At(s, "load")
  /\ IF status[Target(s)] # "CANCELLED"
     THEN Goes(s, IF sess[s].op = "edit" THEN "write" ELSE "update", sess[s].seen)
     ELSE IF sess[s].op = "edit" THEN Ends(s) ELSE AfterCancel(s)
  /\ UNCHANGED <<status, audit, held, sent, told>>

\* A change of an event by PATCH; its row may be lost at once.
Changes(s, lost) ==
  told' = IF sess[s].op # "patch" \/ status[Target(s)] = "CANCELLED" THEN told
          ELSE [told EXCEPT ![Target(s)].changed = @ + 1, ![Target(s)].lost = @ + lost]

\* The UPDATE of cancelEvent and its COMMIT, whose answer may be lost.
CancelEvent(s) ==
  /\ At(s, "update")
  /\ status' = [status EXCEPT ![Target(s)] = "CANCELLED"]
  /\ \/ AfterCancel(s) /\ Changes(s, 0)
     \/ Ends(s) /\ Changes(s, 1)
  /\ UNCHANGED <<audit, held, sent>>

\* The row of the audit is inserted on its own.
Audit(s) ==
  /\ At(s, "audit")
  /\ InsertAuditLog(s)
  /\ Ends(s)
  /\ UNCHANGED <<status, held, sent, told>>

\* updateEvent writes the status it merged, whatever the row has by now.
WriteEvent(s) ==
  /\ At(s, "write")
  /\ status' = [status EXCEPT ![Target(s)] = sess[s].to]
  /\ told' = IF status[Target(s)] = "CANCELLED"
             THEN [told EXCEPT ![Target(s)].revived = @ + 1] ELSE told
  /\ Ends(s)
  /\ UNCHANGED <<audit, held, sent>>

-----------------------------------------------------------------------------
(* The rest. *)

\* updateArena by the owner or an administrator: the UPDATE waits for the row.
UpdateArena(r) ==
  /\ held[r] = NoSession
  /\ \E to \in ArenaStatus \ {status[r]} : status' = [status EXCEPT ![r] = to]
  /\ UNCHANGED <<audit, held, sess, sent, told>>

\* A query fails or the process dies: Postgres rolls back what is open.
Fails(s) ==
  /\ ~At(s, "idle")
  /\ Release(s) /\ Ends(s)
  /\ told' = IF At(s, "audit") THEN [told EXCEPT ![Target(s)].lost = @ + 1]
             ELSE told
  /\ UNCHANGED <<status, audit, sent>>

Send(s) == SendPatch(s) \/ SendCancel(s) \/ SendDelete(s) \/ SendEdit(s)
\* Steps that wait for a row, and steps that do not.
Waits(s) == Lock(s) \/ Refuse(s) \/ Commit(s) \/ Audit(s)
Steps(s) == Look(s) \/ Load(s) \/ CancelEvent(s) \/ WriteEvent(s) \/ BreakDeadlock(s)

Next ==
  \/ \E s \in Sessions : Send(s) \/ Waits(s) \/ Steps(s) \/ Fails(s)
  \/ \E r \in Arenas : UpdateArena(r)

\* A query that can run is run, and Postgres queues the waiters of a row.
Fairness == \A s \in Sessions : SF_vars(Waits(s)) /\ WF_vars(Steps(s))
Spec == Init /\ [][Next]_vars
FairSpec == Spec /\ Fairness

-----------------------------------------------------------------------------
(* What must hold. *)

\* The audit rows about a user tell his whole history: each begins where the one
\* before ended, and the last ends in the status he has, however many
\* administrators change him at once.
AuditTrail ==
  \A u \in Users :
    /\ \A i \in 1 .. Len(audit[u]) :
         audit[u][i].from = IF i = 1 THEN "ACTIVE" ELSE audit[u][i - 1].to
    /\ status[u] = IF audit[u] = <<>> THEN "ACTIVE" ELSE audit[u][Len(audit[u])].to

\* An arena's audit row is written with the change it tells of, although the
\* owner may change the same column at any time.
ArenaRowsTrue ==
  [][\A r \in Arenas : audit'[r] # audit[r] =>
       LET new == audit'[r][Len(audit'[r])] IN new.from = status[r] /\ new.to = status'[r]]_vars

\* Administrators cannot lock themselves out: the step that leaves none ACTIVE is that of
\* one who had been admitted and suspended since (two who suspend each other), and no
\* other, whoever else acted after his own suspension.
ActiveAdmins == {a \in Admins : status[a] = "ACTIVE"}
AdminLeft ==
  [][ActiveAdmins # {} /\ ActiveAdmins' = {} =>
       \E s \in Sessions : Commit(s) /\ status[sess[s].actor] # "ACTIVE"]_vars

\* A change of an event by PATCH /admin/events/:id/status has its row or is about
\* to; only a failure between the two, or a stale edit that revived the event
\* between the two reads of its status, leaves one without.
Owing(e) == {s \in Sessions : At(s, "audit") /\ Target(s) = e}
Accounted(e) == Len(audit[e]) + told[e].lost + told[e].revived + Cardinality(Owing(e))
CancelsAudited == \A e \in Events : told[e].changed <= Accounted(e)

\* The transaction whose row the next query of s needs FOR UPDATE or FOR KEY SHARE.
Blocker(s) ==
  IF At(s, "lock") THEN held[Target(s)]
  ELSE IF (At(s, "locked") \/ At(s, "audit")) /\ ~ActorFree(s) THEN held[sess[s].actor]
  ELSE NoSession

\* Requests wait for each other in one way only: whenever some wait in a circle,
\* administrators who have each other's rows to audit their changes are among them,
\* and Postgres ends one of those.  Nobody waits for a row left locked by a request
\* that has ended, nor for his own.
CircleIsDeadlock ==
  \A W \in SUBSET Sessions :
    (W # {} /\ \A s \in W : Blocker(s) \in W) => \E s \in W : Deadlocked(s)

\* Every request ends, although two administrators who change each other wait for
\* each other's rows.
RequestsEnd == \A s \in Sessions : ~At(s, "idle") ~> At(s, "idle")

=============================================================================
