----------------------- MODULE AdministrationProofs ------------------------
(***************************************************************************)
(* Proofs about Administration, for every set of administrators,           *)
(* organizers, arenas, events and concurrent requests.                     *)
(***************************************************************************)
EXTENDS Administration, FiniteSetTheorems, WellFoundedInduction, TLAPS

-----------------------------------------------------------------------------
(* The inductive invariant. *)

\* What a request holds in each phase.
SessionShape ==
  \A s \in Sessions :
    /\ ~At(s, "idle") => /\ sess[s].actor \in Users /\ Target(s) \in Resources
                         /\ sess[s].to \in StatusOf(Target(s))
    /\ sess[s].op = "patch" => sess[s].actor \in Admins /\ sess[s].actor # Target(s)
    /\ At(s, "lock") \/ At(s, "locked") =>
         sess[s].op = "patch" /\ Target(s) \in Users \cup Arenas
    /\ sess[s].phase \in {"look", "load", "update", "audit", "write"} => Target(s) \in Events
    /\ At(s, "audit") => sess[s].op = "patch"

\* The row of a transaction is its own until it ends: nobody changes the status
\* it read.
RowsOwned ==
  \A s \in Sessions : At(s, "locked") =>
    held[Target(s)] = s /\ sess[s].seen = status[Target(s)]

IInv == TypeOK /\ SessionShape /\ RowsOwned

-----------------------------------------------------------------------------
(* Lemmas on the session that moves. *)

LEMMA StatusTypes ==
  ASSUME NEW r \in Resources
  PROVE  /\ StatusOf(r) \subseteq AnyStatus
         /\ r \in Arenas => StatusOf(r) = ArenaStatus
         /\ r \in Events => StatusOf(r) = EventStatus
         /\ r \in Users => StatusOf(r) = UserStatus
BY AdminNamesAssumption
   DEF StatusOf, AnyStatus, UserStatus, Blocked, ArenaStatus, EventStatus, Resources

LEMMA IdleType == Idle \in Session /\ Idle.phase = "idle" /\ Idle.op = "none"
BY DEF Idle, Session, AnyStatus, UserStatus, Blocked, EventStatus

LEMMA EndsShape ==
  ASSUME IInv, NEW s \in Sessions, Ends(s)
  PROVE  /\ sess' \in [Sessions -> Session] /\ SessionShape'
         /\ ~At(s, "locked")' /\ \A t \in Sessions \ {s} : sess'[t] = sess[t]
<1>1. sess' = [sess EXCEPT ![s] = Idle] /\ sess \in [Sessions -> Session]
  BY DEF Ends, IInv, TypeOK
<1>2. sess'[s] = Idle /\ \A t \in Sessions \ {s} : sess'[t] = sess[t]
  BY <1>1
<1>3. sess' \in [Sessions -> Session]
  BY <1>1, IdleType
<1>4. ASSUME NEW t \in Sessions, t # s
      PROVE  /\ (~At(t, "idle") => /\ sess[t].actor \in Users /\ Target(t) \in Resources
                                   /\ sess[t].to \in StatusOf(Target(t)))'
             /\ (sess[t].op = "patch" => sess[t].actor \in Admins /\ sess[t].actor # Target(t))'
             /\ (At(t, "lock") \/ At(t, "locked") =>
                   sess[t].op = "patch" /\ Target(t) \in Users \cup Arenas)'
             /\ (sess[t].phase \in {"look", "load", "update", "audit", "write"}
                   => Target(t) \in Events)'
             /\ (At(t, "audit") => sess[t].op = "patch")'
  BY <1>2, <1>4 DEF IInv, SessionShape, At, Target
<1>5. SessionShape'
  BY <1>2, <1>4, IdleType DEF SessionShape, At, Target
<1>6. QED BY <1>2, <1>3, <1>5, IdleType DEF At

\* The phases a request may go on to.
NextPhase(p, q) ==
  <<p, q>> \in {<<"lock", "locked">>, <<"look", "load">>, <<"load", "update">>,
                <<"load", "write">>, <<"load", "audit">>, <<"update", "audit">>}

LEMMA GoesShape ==
  ASSUME IInv, NEW s \in Sessions, NEW q, NEW seen \in AnyStatus,
         NextPhase(sess[s].phase, q), q = "audit" => sess[s].op = "patch", Goes(s, q, seen)
  PROVE  /\ sess' \in [Sessions -> Session] /\ SessionShape'
         /\ sess'[s].phase = q /\ sess'[s].seen = seen /\ Target(s)' = Target(s)
         /\ sess'[s].actor = sess[s].actor /\ sess'[s].to = sess[s].to
         /\ sess'[s].op = sess[s].op
         /\ \A t \in Sessions \ {s} : sess'[t] = sess[t]
<1>1. sess' = [sess EXCEPT ![s] = [sess[s] EXCEPT !.phase = q, !.seen = seen]]
      /\ sess \in [Sessions -> Session]
  BY DEF Goes, IInv, TypeOK
<1>2. /\ sess'[s] = [sess[s] EXCEPT !.phase = q, !.seen = seen]
      /\ \A t \in Sessions \ {s} : sess'[t] = sess[t]
  BY <1>1
<1>3. sess[s] \in Session
  BY <1>1
<1>4. /\ sess'[s].phase = q /\ sess'[s].seen = seen /\ sess'[s].target = sess[s].target
      /\ sess'[s].actor = sess[s].actor /\ sess'[s].to = sess[s].to
      /\ sess'[s].op = sess[s].op
  BY <1>2, <1>3 DEF Session
<1>5. [sess[s] EXCEPT !.phase = q, !.seen = seen] \in Session
  BY <1>3 DEF Session, NextPhase
<1>6. sess' \in [Sessions -> Session]
  BY <1>1, <1>5
<1>7. /\ sess[s].actor \in Users /\ sess[s].target \in Resources
      /\ sess[s].to \in StatusOf(sess[s].target)
      /\ sess[s].op = "patch" => sess[s].actor \in Admins /\ sess[s].actor # sess[s].target
      /\ sess[s].phase = "lock" => sess[s].op = "patch" /\ sess[s].target \in Users \cup Arenas
      /\ sess[s].phase \in {"look", "load", "update"} => sess[s].target \in Events
  BY DEF IInv, SessionShape, At, Target, NextPhase
<1>8. /\ (~At(s, "idle") => /\ sess[s].actor \in Users /\ Target(s) \in Resources
                            /\ sess[s].to \in StatusOf(Target(s)))'
      /\ (sess[s].op = "patch" => sess[s].actor \in Admins /\ sess[s].actor # Target(s))'
      /\ (At(s, "lock") \/ At(s, "locked") =>
            sess[s].op = "patch" /\ Target(s) \in Users \cup Arenas)'
      /\ (sess[s].phase \in {"look", "load", "update", "audit", "write"}
            => Target(s) \in Events)'
      /\ (At(s, "audit") => sess[s].op = "patch")'
  BY <1>4, <1>7 DEF At, Target, NextPhase
<1>9. ASSUME NEW t \in Sessions, t # s
      PROVE  /\ (~At(t, "idle") => /\ sess[t].actor \in Users /\ Target(t) \in Resources
                                   /\ sess[t].to \in StatusOf(Target(t)))'
             /\ (sess[t].op = "patch" => sess[t].actor \in Admins /\ sess[t].actor # Target(t))'
             /\ (At(t, "lock") \/ At(t, "locked") =>
                   sess[t].op = "patch" /\ Target(t) \in Users \cup Arenas)'
             /\ (sess[t].phase \in {"look", "load", "update", "audit", "write"}
                   => Target(t) \in Events)'
             /\ (At(t, "audit") => sess[t].op = "patch")'
  BY <1>2, <1>9 DEF IInv, SessionShape, At, Target
<1>10. SessionShape'
  BY <1>8, <1>9 DEF SessionShape
<1>11. QED BY <1>2, <1>4, <1>6, <1>10 DEF Target

-----------------------------------------------------------------------------
(* Lemmas on locks. *)

LEMMA ReleaseType ==
  ASSUME IInv, NEW s \in Sessions, Release(s), Ends(s)
  PROVE  /\ held' \in [Resources -> Sessions \cup {NoSession}]
         /\ \A r \in Resources : held'[r] # NoSession => held'[r] = held[r] /\ held[r] # s
         /\ \A t \in Sessions \ {s} : At(t, "locked") => held'[Target(t)] = t
<1>1. held' = [r \in Resources |-> IF held[r] = s THEN NoSession ELSE held[r]]
      /\ held \in [Resources -> Sessions \cup {NoSession}]
  BY DEF Release, IInv, TypeOK
<1>2. \A t \in Sessions : At(t, "locked") => Target(t) \in Resources /\ held[Target(t)] = t
  BY DEF IInv, SessionShape, RowsOwned, At
<1>3. QED BY <1>1, <1>2

\* Every request that ends leaves no row held.
LEMMA EndsLocks ==
  ASSUME IInv, NEW s \in Sessions, Ends(s),
         Release(s) \/ (~At(s, "locked") /\ held' = held)
  PROVE  /\ held' \in [Resources -> Sessions \cup {NoSession}]
         /\ \A r \in Resources : held'[r] # NoSession =>
              sess'[held'[r]].phase = "locked" /\ sess'[held'[r]].target = r
         /\ \A t \in Sessions : At(t, "locked")' => At(t, "locked") /\ sess'[t] = sess[t]
                                                   /\ held'[Target(t)] = t /\ t # s
<1>1. ~At(s, "locked")' /\ \A t \in Sessions \ {s} : sess'[t] = sess[t]
  BY EndsShape
<1>2. /\ held \in [Resources -> Sessions \cup {NoSession}]
      /\ \A r \in Resources : held[r] # NoSession =>
           sess[held[r]].phase = "locked" /\ sess[held[r]].target = r
      /\ \A t \in Sessions : At(t, "locked") => held[Target(t)] = t
  BY DEF IInv, TypeOK, RowsOwned
<1>3. CASE Release(s)
  <2>1. /\ held' \in [Resources -> Sessions \cup {NoSession}]
        /\ \A r \in Resources : held'[r] # NoSession => held'[r] = held[r] /\ held[r] # s
        /\ \A t \in Sessions \ {s} : At(t, "locked") => held'[Target(t)] = t
    BY <1>3, ReleaseType
  <2>2. \A r \in Resources : held'[r] # NoSession => held'[r] \in Sessions \ {s}
    BY <2>1
  <2>3. QED BY <1>1, <1>2, <2>1, <2>2 DEF At
<1>4. CASE ~At(s, "locked") /\ held' = held
  <2>1. \A r \in Resources : held[r] # NoSession => held[r] \in Sessions \ {s}
    BY <1>2, <1>4 DEF At
  <2>2. QED BY <1>1, <1>2, <1>4, <2>1 DEF At
<1>5. QED BY <1>3, <1>4

\* A status that no locked request has read may change.
LEMMA EndsInv ==
  ASSUME IInv, NEW s \in Sessions, Ends(s),
         Release(s) \/ (~At(s, "locked") /\ held' = held),
         \A t \in Sessions \ {s} : At(t, "locked") => status'[Target(t)] = status[Target(t)],
         status' \in [Resources -> AnyStatus], \A r \in Resources : status'[r] \in StatusOf(r),
         audit' \in [Resources -> Seq(AuditRow)], sent' \in Nat,
         told' \in [Events -> [changed : Nat, lost : Nat, revived : Nat]]
  PROVE  IInv'
<1>1. sess' \in [Sessions -> Session] /\ SessionShape'
  BY EndsShape
<1>2. /\ held' \in [Resources -> Sessions \cup {NoSession}]
      /\ \A r \in Resources : held'[r] # NoSession =>
           sess'[held'[r]].phase = "locked" /\ sess'[held'[r]].target = r
      /\ \A t \in Sessions : At(t, "locked")' => At(t, "locked") /\ sess'[t] = sess[t]
                                                /\ held'[Target(t)] = t /\ t # s
  BY EndsLocks
<1>3. TypeOK'
  BY <1>1, <1>2 DEF TypeOK
<1>4. RowsOwned'
  BY <1>2 DEF RowsOwned, IInv, At, Target
<1>5. QED BY <1>1, <1>3, <1>4 DEF IInv

\* A request that only goes on, holding what it held, keeps the invariant.
LEMMA GoesInv ==
  ASSUME IInv, NEW s \in Sessions, NEW q, NEW seen \in AnyStatus,
         NextPhase(sess[s].phase, q), q # "locked",
         q = "audit" => sess[s].op = "patch", Goes(s, q, seen),
         \A t \in Sessions : At(t, "locked") => status'[Target(t)] = status[Target(t)],
         status' \in [Resources -> AnyStatus], \A r \in Resources : status'[r] \in StatusOf(r),
         told' \in [Events -> [changed : Nat, lost : Nat, revived : Nat]],
         UNCHANGED <<audit, held, sent>>
  PROVE  IInv'
<1>1. /\ sess' \in [Sessions -> Session] /\ SessionShape'
      /\ sess'[s].phase = q /\ \A t \in Sessions \ {s} : sess'[t] = sess[t]
  BY GoesShape
<1>2. ~At(s, "locked")
  BY DEF At, NextPhase
<1>3. \A r \in Resources : held[r] # NoSession => held[r] \in Sessions \ {s}
  BY <1>2 DEF IInv, TypeOK, At
<1>4. TypeOK'
  BY <1>1, <1>3 DEF IInv, TypeOK
<1>5. RowsOwned'
  BY <1>1 DEF RowsOwned, IInv, At, Target
<1>6. QED BY <1>1, <1>4, <1>5 DEF IInv

-----------------------------------------------------------------------------
(* The invariant, one action at a time. *)

LEMMA InitInv == Init => IInv
<1> SUFFICES ASSUME Init PROVE IInv OBVIOUS
<1>1. status \in [Resources -> AnyStatus] /\ \A r \in Resources : status[r] \in StatusOf(r)
  BY AdminNamesAssumption
     DEF Init, StatusOf, AnyStatus, UserStatus, Blocked, ArenaStatus, EventStatus, Resources
<1>2. sess \in [Sessions -> Session] /\ \A s \in Sessions : sess[s] = Idle
  BY IdleType DEF Init
<1>3. audit \in [Resources -> Seq(AuditRow)]
  BY DEF Init
<1>4. told \in [Events -> [changed : Nat, lost : Nat, revived : Nat]]
  BY DEF Init
<1>5. held = [r \in Resources |-> NoSession] /\ sent \in Nat
  BY DEF Init
<1>6. TypeOK
  BY <1>1, <1>2, <1>3, <1>4, <1>5 DEF TypeOK
<1>7. SessionShape /\ RowsOwned
  BY <1>2, IdleType DEF SessionShape, RowsOwned, At
<1>8. QED BY <1>6, <1>7 DEF IInv

LEMMA AdmitInv ==
  ASSUME IInv, NEW s \in Sessions, NEW op \in {"patch", "delete", "edit"}, NEW u \in Users,
         NEW r \in Resources, NEW p \in {"lock", "look", "load"}, NEW to \in StatusOf(r),
         p = "lock" => op = "patch" /\ r \in Users \cup Arenas,
         p # "lock" => r \in Events,
         op = "patch" => u \in Admins /\ u # r,
         Admit(s, op, u, r, p, to)
  PROVE  IInv'
<1> DEFINE new == [op |-> op, phase |-> p, actor |-> u, target |-> r, to |-> to,
                   seen |-> "CANCELLED"]
<1>1. to \in AnyStatus /\ "CANCELLED" \in AnyStatus
  BY StatusTypes DEF AnyStatus, EventStatus
<1>2. new \in Session
  BY <1>1 DEF Session
<1>3. sess' = [sess EXCEPT ![s] = new] /\ sess \in [Sessions -> Session] /\ At(s, "idle")
  BY DEF Admit, IInv, TypeOK
<1>4. sess' \in [Sessions -> Session] /\ sess'[s] = new
      /\ \A t \in Sessions \ {s} : sess'[t] = sess[t]
  BY <1>2, <1>3
<1>5. \A x \in Resources : held[x] # NoSession => held[x] \in Sessions \ {s}
  BY <1>3 DEF IInv, TypeOK, At
<1>6. TypeOK'
  BY <1>4, <1>5 DEF Admit, IInv, TypeOK
<1>7. SessionShape'
  BY <1>4 DEF SessionShape, IInv, At, Target
<1>8. RowsOwned'
  BY <1>4 DEF RowsOwned, IInv, At, Target, Admit
<1>9. QED BY <1>6, <1>7, <1>8 DEF IInv

LEMMA SendInv ==
  ASSUME IInv, NEW s \in Sessions, Send(s)
  PROVE  IInv'
<1>1. CASE SendPatch(s)
  <2>1. PICK a \in Admins, r \in Users \cup Arenas : \E to \in StatusOf(r) :
          MayPatch(a, r) /\ Admit(s, "patch", a, r, "lock", to)
    BY <1>1 DEF SendPatch
  <2>2. PICK to \in StatusOf(r) : MayPatch(a, r) /\ Admit(s, "patch", a, r, "lock", to)
    BY <2>1
  <2>3. a \in Users /\ r \in Resources /\ a # r
    BY <2>2 DEF Users, Resources, MayPatch
  <2>4. QED BY <2>2, <2>3, AdmitInv
<1>2. CASE SendCancel(s)
  <2>1. PICK a \in Admins, e \in Events : Admit(s, "patch", a, e, "look", "CANCELLED")
    BY <1>2 DEF SendCancel
  <2>2. a \in Users /\ e \in Resources /\ a # e /\ "CANCELLED" \in StatusOf(e)
    BY StatusTypes, AdminNamesAssumption DEF Users, Resources, EventStatus
  <2>3. QED BY <2>1, <2>2, AdmitInv
<1>3. CASE SendDelete(s)
  <2>1. PICK u \in Users, e \in Events : Admit(s, "delete", u, e, "load", "CANCELLED")
    BY <1>3 DEF SendDelete
  <2>2. e \in Resources /\ "CANCELLED" \in StatusOf(e)
    BY StatusTypes DEF Resources, EventStatus
  <2>3. QED BY <2>1, <2>2, AdmitInv
<1>4. CASE SendEdit(s)
  <2>1. PICK u \in Users, e \in Events, to \in EventStatus \ {"CANCELLED"} :
          Admit(s, "edit", u, e, "load", to)
    BY <1>4 DEF SendEdit
  <2>2. e \in Resources /\ to \in StatusOf(e)
    BY StatusTypes DEF Resources
  <2>3. QED BY <2>1, <2>2, AdmitInv
<1>5. QED BY <1>1, <1>2, <1>3, <1>4 DEF Send

LEMMA LockInv ==
  ASSUME IInv, NEW s \in Sessions, Lock(s)
  PROVE  IInv'
<1>1. Target(s) \in Resources /\ sess[s].phase = "lock" /\ held[Target(s)] = NoSession
  BY DEF Lock, At, IInv, SessionShape, Target
<1>2. status[Target(s)] \in AnyStatus
  BY <1>1 DEF IInv, TypeOK
<1>3. Goes(s, "locked", status[Target(s)]) /\ NextPhase(sess[s].phase, "locked")
  BY <1>1 DEF Lock, NextPhase
<1>4. /\ sess' \in [Sessions -> Session] /\ SessionShape'
      /\ sess'[s].phase = "locked" /\ sess'[s].seen = status[Target(s)]
      /\ Target(s)' = Target(s)
      /\ \A t \in Sessions \ {s} : sess'[t] = sess[t]
  BY <1>2, <1>3, GoesShape
<1>5. held' = [held EXCEPT ![Target(s)] = s]
      /\ held \in [Resources -> Sessions \cup {NoSession}]
  BY DEF Lock, IInv, TypeOK
<1>6. /\ held' \in [Resources -> Sessions \cup {NoSession}] /\ held'[Target(s)] = s
      /\ \A r \in Resources \ {Target(s)} : held'[r] = held[r]
  BY <1>1, <1>5
<1>7. \A r \in Resources \ {Target(s)} : held[r] # NoSession => held[r] \in Sessions \ {s}
  BY <1>1, <1>5 DEF IInv, TypeOK, At
<1>8. TypeOK'
  BY <1>4, <1>6, <1>7 DEF Lock, IInv, TypeOK, Target
<1>9. \A t \in Sessions \ {s} : At(t, "locked") => Target(t) \in Resources \ {Target(s)}
  <2>1. NoSession \notin Sessions
    BY AdminNamesAssumption
  <2>2. QED BY <1>1, <2>1 DEF IInv, RowsOwned, SessionShape, At
<1>10. RowsOwned'
  BY <1>1, <1>4, <1>6, <1>9 DEF RowsOwned, IInv, At, Target, Lock
<1>11. QED BY <1>4, <1>8, <1>10 DEF IInv

LEMMA InsertType ==
  ASSUME IInv, NEW s \in Sessions, At(s, "locked") \/ At(s, "audit"), InsertAuditLog(s)
  PROVE  /\ audit' \in [Resources -> Seq(AuditRow)] /\ Target(s) \in Resources
         /\ [actor |-> sess[s].actor, from |-> sess[s].seen, to |-> sess[s].to] \in AuditRow
         /\ audit'[Target(s)] = Append(audit[Target(s)],
              [actor |-> sess[s].actor, from |-> sess[s].seen, to |-> sess[s].to])
         /\ \A r \in Resources \ {Target(s)} : audit'[r] = audit[r]
<1>1. sess[s].actor \in Admins /\ Target(s) \in Resources
  BY DEF IInv, SessionShape, At, Target
<1>2. [actor |-> sess[s].actor, from |-> sess[s].seen, to |-> sess[s].to] \in AuditRow
  BY <1>1 DEF IInv, TypeOK, Session, AuditRow
<1>3. audit \in [Resources -> Seq(AuditRow)]
  BY DEF IInv, TypeOK
<1>4. Append(audit[Target(s)],
             [actor |-> sess[s].actor, from |-> sess[s].seen, to |-> sess[s].to]) \in Seq(AuditRow)
  BY <1>1, <1>2, <1>3
<1>5. QED BY <1>1, <1>2, <1>3, <1>4 DEF InsertAuditLog

LEMMA CommitInv ==
  ASSUME IInv, NEW s \in Sessions, Commit(s)
  PROVE  IInv'
<1>1. Target(s) \in Resources /\ sess[s].to \in StatusOf(Target(s)) /\ At(s, "locked")
      /\ held[Target(s)] = s
  BY DEF Commit, At, IInv, SessionShape, RowsOwned
<1>2. status' = [status EXCEPT ![Target(s)] = sess[s].to]
      /\ status \in [Resources -> AnyStatus] /\ \A r \in Resources : status[r] \in StatusOf(r)
  BY DEF Commit, IInv, TypeOK
<1>3. status' \in [Resources -> AnyStatus] /\ \A r \in Resources : status'[r] \in StatusOf(r)
  BY <1>1, <1>2, StatusTypes
<1>4. \A t \in Sessions \ {s} : At(t, "locked") => Target(t) # Target(s)
  BY <1>1 DEF IInv, RowsOwned
<1>5. \A t \in Sessions \ {s} : At(t, "locked") => status'[Target(t)] = status[Target(t)]
  BY <1>2, <1>4 DEF IInv, SessionShape
<1>6. audit' \in [Resources -> Seq(AuditRow)]
  BY <1>1, InsertType DEF Commit
<1>7. sent' \in Nat
      /\ told' \in [Events -> [changed : Nat, lost : Nat, revived : Nat]]
  BY DEF Commit, IInv, TypeOK
<1>8. Ends(s) /\ Release(s)
  BY DEF Commit
<1>9. QED BY <1>3, <1>5, <1>6, <1>7, <1>8, EndsInv

\* Events are not the target of a transaction with a locked row.
LEMMA EventChange ==
  ASSUME IInv, NEW e \in Events, NEW to \in EventStatus,
         status' = [status EXCEPT ![e] = to]
  PROVE  /\ status' \in [Resources -> AnyStatus] /\ \A r \in Resources : status'[r] \in StatusOf(r)
         /\ \A t \in Sessions : At(t, "locked") => status'[Target(t)] = status[Target(t)]
         /\ \A r \in Users \cup Arenas : status'[r] = status[r]
<1>1. status \in [Resources -> AnyStatus] /\ \A r \in Resources : status[r] \in StatusOf(r)
  BY DEF IInv, TypeOK
<1>2. e \in Resources /\ StatusOf(e) = EventStatus /\ StatusOf(e) \subseteq AnyStatus
  BY StatusTypes DEF Resources
<1>3. status' \in [Resources -> AnyStatus] /\ \A r \in Resources : status'[r] \in StatusOf(r)
  BY <1>1, <1>2
<1>4. e \notin Users \cup Arenas
  BY AdminNamesAssumption
<1>5. \A r \in Users \cup Arenas : status'[r] = status[r]
  BY <1>1, <1>4 DEF Resources
<1>6. \A t \in Sessions : At(t, "locked") => Target(t) \in Users \cup Arenas
  BY DEF IInv, SessionShape
<1>7. QED BY <1>3, <1>5, <1>6

LEMMA ToldType ==
  ASSUME IInv, NEW e \in Events, NEW i \in {0, 1}
  PROVE  /\ [told[e] EXCEPT !.changed = told[e].changed + 1, !.lost = told[e].lost + i]
              \in [changed : Nat, lost : Nat, revived : Nat]
         /\ [told[e] EXCEPT !.lost = told[e].lost + 1] \in [changed : Nat, lost : Nat, revived : Nat]
         /\ [told[e] EXCEPT !.revived = told[e].revived + 1] \in [changed : Nat, lost : Nat, revived : Nat]
<1>1. told[e] \in [changed : Nat, lost : Nat, revived : Nat]
  BY DEF IInv, TypeOK
<1>2. /\ told[e].changed + 1 \in Nat /\ told[e].lost + i \in Nat
      /\ told[e].lost + 1 \in Nat /\ told[e].revived + 1 \in Nat
  BY <1>1
<1>3. QED BY <1>1, <1>2

LEMMA ChangesType ==
  ASSUME IInv, NEW s \in Sessions, NEW i \in {0, 1}, Target(s) \in Events, Changes(s, i)
  PROVE  told' \in [Events -> [changed : Nat, lost : Nat, revived : Nat]]
<1>1. told \in [Events -> [changed : Nat, lost : Nat, revived : Nat]]
  BY DEF IInv, TypeOK
<1>2. CASE sess[s].op # "patch" \/ status[Target(s)] = "CANCELLED"
  BY <1>1, <1>2 DEF Changes
<1>3. CASE ~(sess[s].op # "patch" \/ status[Target(s)] = "CANCELLED")
  <2>1. told' = [told EXCEPT ![Target(s)] =
                   [told[Target(s)] EXCEPT !.changed = told[Target(s)].changed + 1,
                                           !.lost = told[Target(s)].lost + i]]
    BY <1>3 DEF Changes
  <2>2. [told[Target(s)] EXCEPT !.changed = told[Target(s)].changed + 1,
                                !.lost = told[Target(s)].lost + i]
          \in [changed : Nat, lost : Nat, revived : Nat]
    BY ToldType
  <2>3. QED BY <1>1, <2>1, <2>2
<1>4. QED BY <1>2, <1>3

LEMMA AfterCancelInv ==
  ASSUME IInv, NEW s \in Sessions, AfterCancel(s), At(s, "load") \/ At(s, "update"),
         status' \in [Resources -> AnyStatus], \A r \in Resources : status'[r] \in StatusOf(r),
         \A t \in Sessions : At(t, "locked") => status'[Target(t)] = status[Target(t)],
         told' \in [Events -> [changed : Nat, lost : Nat, revived : Nat]],
         UNCHANGED <<audit, held, sent>>
  PROVE  IInv'
<1>1. ~At(s, "locked") /\ sess[s].seen \in AnyStatus
  BY DEF At, IInv, TypeOK, Session
<1>2. CASE sess[s].op = "patch" /\ sess[s].seen # "CANCELLED"
  <2>1. Goes(s, "audit", sess[s].seen) /\ NextPhase(sess[s].phase, "audit")
    BY <1>2 DEF AfterCancel, At, NextPhase
  <2>2. QED BY <1>1, <1>2, <2>1, GoesInv
<1>3. CASE ~(sess[s].op = "patch" /\ sess[s].seen # "CANCELLED")
  <2>1. Ends(s) BY <1>3 DEF AfterCancel
  <2>2. /\ audit' \in [Resources -> Seq(AuditRow)] /\ sent' \in Nat
        /\ held' = held
    BY DEF IInv, TypeOK
  <2>3. QED BY <1>1, <2>1, <2>2, EndsInv
<1>4. QED BY <1>2, <1>3

\* The requests about an event, and the ends of all requests.
LEMMA EventInv ==
  ASSUME IInv, NEW s \in Sessions,
         Look(s) \/ Load(s) \/ CancelEvent(s) \/ Audit(s) \/ WriteEvent(s)
  PROVE  IInv'
<1>1. Target(s) \in Events /\ sess[s].seen \in AnyStatus /\ ~At(s, "locked")
  BY DEF Look, Load, CancelEvent, Audit, WriteEvent, At, IInv, SessionShape, TypeOK, Session
<1>2. /\ status \in [Resources -> AnyStatus] /\ \A r \in Resources : status[r] \in StatusOf(r)
      /\ audit \in [Resources -> Seq(AuditRow)] /\ sent \in Nat
      /\ told \in [Events -> [changed : Nat, lost : Nat, revived : Nat]]
  BY DEF IInv, TypeOK
<1>3. Target(s) \in Resources /\ StatusOf(Target(s)) = EventStatus
  BY <1>1, StatusTypes DEF Resources
<1>4. CASE Look(s)
  <2>1. /\ Goes(s, "load", status[Target(s)]) /\ status[Target(s)] \in AnyStatus
        /\ NextPhase(sess[s].phase, "load")
    BY <1>2, <1>3, <1>4 DEF Look, At, NextPhase
  <2>2. QED BY <1>2, <1>4, <2>1, GoesInv DEF Look
<1>5. CASE Load(s)
  <2>1. At(s, "load") /\ UNCHANGED <<status, audit, held, sent, told>>
    BY <1>5 DEF Load
  <2>2. CASE status[Target(s)] # "CANCELLED"
    <3>1. PICK q \in {"write", "update"} : Goes(s, q, sess[s].seen)
      BY <1>5, <2>2 DEF Load
    <3>2. NextPhase(sess[s].phase, q)
      BY <2>1 DEF At, NextPhase
    <3>3. QED BY <1>1, <1>2, <2>1, <3>1, <3>2, GoesInv
  <2>3. CASE status[Target(s)] = "CANCELLED" /\ sess[s].op = "edit"
    <3>1. Ends(s) BY <1>5, <2>3 DEF Load
    <3>2. QED BY <1>1, <1>2, <2>1, <3>1, EndsInv
  <2>4. CASE status[Target(s)] = "CANCELLED" /\ sess[s].op # "edit"
    <3>1. AfterCancel(s) BY <1>5, <2>4 DEF Load
    <3>2. QED BY <1>2, <2>1, <3>1, AfterCancelInv
  <2>5. QED BY <2>2, <2>3, <2>4
<1>6. CASE CancelEvent(s)
  <2>1. /\ At(s, "update") /\ UNCHANGED <<audit, held, sent>>
        /\ status' = [status EXCEPT ![Target(s)] = "CANCELLED"] /\ "CANCELLED" \in EventStatus
    BY <1>6 DEF CancelEvent, EventStatus
  <2>2. /\ status' \in [Resources -> AnyStatus]
        /\ \A r \in Resources : status'[r] \in StatusOf(r)
        /\ \A t \in Sessions : At(t, "locked") => status'[Target(t)] = status[Target(t)]
    BY <1>1, <2>1, EventChange
  <2>3. CASE AfterCancel(s) /\ Changes(s, 0)
    BY <1>1, <2>1, <2>2, <2>3, ChangesType, AfterCancelInv
  <2>4. CASE Ends(s) /\ Changes(s, 1)
    <3>1. told' \in [Events -> [changed : Nat, lost : Nat, revived : Nat]]
      BY <1>1, <2>4, ChangesType
    <3>2. QED BY <1>1, <1>2, <2>1, <2>2, <2>4, <3>1, EndsInv
  <2>5. QED BY <1>6, <2>3, <2>4 DEF CancelEvent
<1>7. CASE Audit(s)
  <2>1. At(s, "audit") /\ InsertAuditLog(s) /\ Ends(s)
        /\ UNCHANGED <<status, held, sent, told>>
    BY <1>7 DEF Audit
  <2>2. audit' \in [Resources -> Seq(AuditRow)]
    BY <2>1, InsertType
  <2>3. QED BY <1>1, <1>2, <2>1, <2>2, EndsInv
<1>8. CASE WriteEvent(s)
  <2>1. /\ At(s, "write") /\ Ends(s) /\ UNCHANGED <<audit, held, sent>>
        /\ status' = [status EXCEPT ![Target(s)] = sess[s].to]
    BY <1>8 DEF WriteEvent
  <2>2. sess[s].to \in EventStatus
    BY <1>3, <2>1 DEF IInv, SessionShape, At
  <2>3. /\ status' \in [Resources -> AnyStatus]
        /\ \A r \in Resources : status'[r] \in StatusOf(r)
        /\ \A t \in Sessions : At(t, "locked") => status'[Target(t)] = status[Target(t)]
    BY <1>1, <2>1, <2>2, EventChange
  <2>4. [told[Target(s)] EXCEPT !.revived = told[Target(s)].revived + 1]
          \in [changed : Nat, lost : Nat, revived : Nat]
    BY <1>1, ToldType
  <2>5. \/ told' = told
        \/ told' = [told EXCEPT ![Target(s)] =
                      [told[Target(s)] EXCEPT !.revived = told[Target(s)].revived + 1]]
    BY <1>8 DEF WriteEvent
  <2>6. told' \in [Events -> [changed : Nat, lost : Nat, revived : Nat]]
    BY <1>2, <2>4, <2>5
  <2>7. QED BY <1>1, <1>2, <2>1, <2>3, <2>6, EndsInv
<1>9. QED BY <1>4, <1>5, <1>6, <1>7, <1>8

LEMMA OtherInv ==
  ASSUME IInv, NEW s \in Sessions, Refuse(s) \/ BreakDeadlock(s) \/ Fails(s)
  PROVE  IInv'
<1>1. /\ status \in [Resources -> AnyStatus] /\ \A r \in Resources : status[r] \in StatusOf(r)
      /\ audit \in [Resources -> Seq(AuditRow)] /\ sent \in Nat
      /\ told \in [Events -> [changed : Nat, lost : Nat, revived : Nat]]
  BY DEF IInv, TypeOK
<1>2. Ends(s) /\ UNCHANGED <<status, audit, sent>>
      /\ (Release(s) \/ (~At(s, "locked") /\ held' = held))
  BY DEF Refuse, BreakDeadlock, Fails, At
<1>3. told' \in [Events -> [changed : Nat, lost : Nat, revived : Nat]]
  <2>1. CASE Fails(s) /\ At(s, "audit")
    <3>1. Target(s) \in Events
      BY <2>1 DEF IInv, SessionShape, At
    <3>2. [told[Target(s)] EXCEPT !.lost = told[Target(s)].lost + 1]
            \in [changed : Nat, lost : Nat, revived : Nat]
      BY <3>1, ToldType
    <3>3. told' = [told EXCEPT ![Target(s)] =
                     [told[Target(s)] EXCEPT !.lost = told[Target(s)].lost + 1]]
      BY <2>1 DEF Fails
    <3>4. QED BY <1>1, <3>2, <3>3
  <2>2. CASE ~(Fails(s) /\ At(s, "audit"))
    BY <1>1, <2>2 DEF Refuse, BreakDeadlock, Fails
  <2>3. QED BY <2>1, <2>2
<1>4. QED BY <1>1, <1>2, <1>3, EndsInv

LEMMA UpdateArenaInv ==
  ASSUME IInv, NEW r \in Arenas, UpdateArena(r)
  PROVE  IInv'
<1>1. PICK to \in ArenaStatus : status' = [status EXCEPT ![r] = to]
  BY DEF UpdateArena
<1>2. r \in Resources /\ StatusOf(r) = ArenaStatus /\ ArenaStatus \subseteq AnyStatus
  BY StatusTypes DEF Resources
<1>3. status \in [Resources -> AnyStatus] /\ \A x \in Resources : status[x] \in StatusOf(x)
  BY DEF IInv, TypeOK
<1>4. status' \in [Resources -> AnyStatus] /\ \A x \in Resources : status'[x] \in StatusOf(x)
  BY <1>1, <1>2, <1>3
<1>5. held[r] = NoSession /\ UNCHANGED <<audit, held, sess, sent, told>>
  BY DEF UpdateArena
<1>6. TypeOK'
  BY <1>4, <1>5 DEF IInv, TypeOK
<1>7. SessionShape'
  BY <1>5 DEF IInv, SessionShape, At, Target
<1>8. RowsOwned'
  <2> SUFFICES ASSUME NEW t \in Sessions, At(t, "locked")
               PROVE  held[Target(t)] = t /\ sess[t].seen = status'[Target(t)]
    BY <1>5 DEF RowsOwned, At, Target
  <2>1. held[Target(t)] = t /\ sess[t].seen = status[Target(t)] /\ Target(t) \in Resources
    BY DEF IInv, RowsOwned, SessionShape, At
  <2>2. Target(t) # r
    BY <1>5, <2>1, AdminNamesAssumption
  <2>3. QED BY <1>1, <1>3, <2>1, <2>2
<1>9. QED BY <1>6, <1>7, <1>8 DEF IInv

\* IInv is inductive, and holds of every reachable state.
LEMMA NextInv == IInv /\ [Next]_vars => IInv'
<1> SUFFICES ASSUME IInv, [Next]_vars PROVE IInv' OBVIOUS
<1>1. ASSUME NEW s \in Sessions, Send(s) \/ Waits(s) \/ Steps(s) \/ Fails(s)
      PROVE  IInv'
  BY <1>1, SendInv, LockInv, CommitInv, EventInv, OtherInv DEF Waits, Steps
<1>2. ASSUME NEW r \in Arenas, UpdateArena(r) PROVE IInv'
  BY <1>2, UpdateArenaInv
<1>3. CASE UNCHANGED vars
  BY <1>3 DEF vars, IInv, TypeOK, SessionShape, RowsOwned, At, Target
<1>4. QED BY <1>1, <1>2, <1>3 DEF Next

\* No row is held by a transaction that has ended, and what a transaction has
\* read of its row is what the row says, for any number of concurrent requests.
THEOREM AdminInvariance == Spec => []IInv
<1>1. QED BY InitInv, NextInv, PTL DEF Spec

\* Every variable keeps its type, and rows are held by transactions at work on
\* them only.
THEOREM AdminTypes == Spec => []TypeOK
<1>1. IInv => TypeOK BY DEF IInv
<1>2. QED BY <1>1, AdminInvariance, PTL

-----------------------------------------------------------------------------
(* The audit of users and arenas. *)

\* What the transaction of one request writes.
LEMMA CommitWrites ==
  ASSUME IInv, NEW s \in Sessions, Commit(s)
  PROVE  /\ Target(s) \in Users \cup Arenas /\ sess[s].actor \in Admins
         /\ sess[s].actor # Target(s)
         /\ sess[s].seen = status[Target(s)] /\ status'[Target(s)] = sess[s].to
         /\ audit'[Target(s)] = Append(audit[Target(s)],
              [actor |-> sess[s].actor, from |-> sess[s].seen, to |-> sess[s].to])
         /\ \A r \in Resources \ {Target(s)} : status'[r] = status[r] /\ audit'[r] = audit[r]
<1>1. At(s, "locked") /\ InsertAuditLog(s) /\ status' = [status EXCEPT ![Target(s)] = sess[s].to]
  BY DEF Commit
<1>2. /\ Target(s) \in Users \cup Arenas /\ sess[s].actor \in Admins
      /\ sess[s].actor # Target(s) /\ sess[s].seen = status[Target(s)]
  BY <1>1 DEF IInv, SessionShape, RowsOwned
<1>3. status \in [Resources -> AnyStatus] /\ Target(s) \in Resources
  BY <1>2 DEF IInv, TypeOK, Resources
<1>4. QED BY <1>1, <1>2, <1>3, InsertType

\* A user, and the rows about an arena, change by the commit of a PATCH only.
LEMMA RowStep ==
  ASSUME IInv, [Next]_vars, NEW r \in Users \cup Arenas
  PROVE  \/ audit'[r] = audit[r] /\ (r \in Users => status'[r] = status[r])
         \/ \E s \in Sessions : Commit(s) /\ Target(s) = r
<1>1. CASE UNCHANGED vars
  BY <1>1 DEF vars
<1>2. ASSUME NEW s \in Sessions, Send(s) \/ Lock(s) \/ Refuse(s) \/ BreakDeadlock(s)
                                 \/ Fails(s) \/ Look(s) \/ Load(s)
      PROVE  audit'[r] = audit[r] /\ status'[r] = status[r]
  BY <1>2 DEF Send, SendPatch, SendCancel, SendDelete, SendEdit, Admit, Lock, Refuse,
              BreakDeadlock, Fails, Look, Load
<1>3. ASSUME NEW s \in Sessions, Commit(s), Target(s) # r
      PROVE  audit'[r] = audit[r] /\ status'[r] = status[r]
  BY <1>3, CommitWrites DEF Resources
<1>4. ASSUME NEW s \in Sessions, CancelEvent(s) \/ WriteEvent(s)
      PROVE  audit'[r] = audit[r] /\ status'[r] = status[r]
  <2>1. Target(s) \in Events /\ (WriteEvent(s) => sess[s].to \in EventStatus)
    BY <1>4, StatusTypes DEF CancelEvent, WriteEvent, IInv, SessionShape, At
  <2>2. \E to \in EventStatus : status' = [status EXCEPT ![Target(s)] = to]
    BY <1>4, <2>1 DEF CancelEvent, WriteEvent, EventStatus
  <2>3. status'[r] = status[r]
    BY <2>1, <2>2, EventChange
  <2>4. QED BY <1>4, <2>3 DEF CancelEvent, WriteEvent
<1>5. ASSUME NEW s \in Sessions, Audit(s)
      PROVE  audit'[r] = audit[r] /\ status'[r] = status[r]
  <2>1. At(s, "audit") /\ InsertAuditLog(s) /\ Target(s) \in Events /\ status' = status
    BY <1>5 DEF Audit, IInv, SessionShape, At
  <2>2. r # Target(s) /\ r \in Resources
    BY <2>1, AdminNamesAssumption DEF Resources
  <2>3. QED BY <2>1, <2>2, InsertType
<1>6. ASSUME NEW x \in Arenas, UpdateArena(x)
      PROVE  audit'[r] = audit[r] /\ (r \in Users => status'[r] = status[r])
  <2>1. audit' = audit /\ \E to \in ArenaStatus \ {status[x]} : status' = [status EXCEPT ![x] = to]
    BY <1>6 DEF UpdateArena
  <2>2. r \in Users => r # x
    BY <1>6, AdminNamesAssumption
  <2>3. status \in [Resources -> AnyStatus] /\ r \in Resources
    BY DEF IInv, TypeOK, Resources
  <2>4. QED BY <2>1, <2>2, <2>3
<1>7. QED BY <1>1, <1>2, <1>3, <1>4, <1>5, <1>6 DEF Next, Waits, Steps

\* The rows tell a history that ends in st.
Tells(rows, st) ==
  /\ \A i \in 1 .. Len(rows) :
       rows[i].from = IF i = 1 THEN "ACTIVE" ELSE rows[i - 1].to
  /\ st = IF rows = <<>> THEN "ACTIVE" ELSE rows[Len(rows)].to

LEMMA TellsMore ==
  ASSUME NEW old \in Seq(AuditRow), NEW new \in AuditRow, Tells(old, new.from)
  PROVE  Tells(Append(old, new), new.to)
<1> DEFINE now == Append(old, new)
<1>1. Len(old) \in Nat /\ Len(now) = Len(old) + 1 /\ now[Len(old) + 1] = new
      /\ \A i \in 1 .. Len(old) : now[i] = old[i]
  OBVIOUS
<1>2. new.from = IF Len(old) = 0 THEN "ACTIVE" ELSE old[Len(old)].to
  BY DEF Tells
<1> HIDE DEF now
<1>3. ASSUME NEW i \in 1 .. Len(now)
      PROVE  now[i].from = IF i = 1 THEN "ACTIVE" ELSE now[i - 1].to
  <2>1. CASE i \in 1 .. Len(old)
    <3>1. old[i].from = IF i = 1 THEN "ACTIVE" ELSE old[i - 1].to
      BY <2>1 DEF Tells
    <3>2. now[i] = old[i] /\ (i # 1 => now[i - 1] = old[i - 1])
      BY <1>1, <2>1
    <3>3. QED BY <3>1, <3>2
  <2>2. CASE i = Len(old) + 1
    <3>1. now[i] = new /\ (i # 1 => now[i - 1] = old[Len(old)])
      BY <1>1, <2>2
    <3>2. QED BY <1>1, <1>2, <2>2, <3>1
  <2>3. QED BY <1>1, <1>3, <2>1, <2>2
<1>4. new.to = now[Len(now)].to /\ now # <<>>
  BY <1>1 DEF now
<1>5. QED BY <1>3, <1>4 DEF Tells, now

LEMMA TrailStep == IInv /\ AuditTrail /\ [Next]_vars => AuditTrail'
<1> SUFFICES ASSUME IInv, AuditTrail, [Next]_vars, NEW u \in Users
             PROVE  Tells(audit'[u], status'[u])
  BY DEF AuditTrail, Tells
<1>1. Tells(audit[u], status[u]) /\ u \in Resources /\ audit[u] \in Seq(AuditRow)
  BY DEF AuditTrail, Tells, IInv, TypeOK, Resources
<1>2. CASE audit'[u] = audit[u] /\ status'[u] = status[u]
  BY <1>1, <1>2
<1>3. ASSUME NEW s \in Sessions, Commit(s), Target(s) = u
      PROVE  Tells(audit'[u], status'[u])
  <2> DEFINE new == [actor |-> sess[s].actor, from |-> sess[s].seen, to |-> sess[s].to]
  <2>1. /\ sess[s].actor \in Admins /\ sess[s].seen = status[u] /\ status'[u] = sess[s].to
        /\ audit'[u] = Append(audit[u], new)
    BY <1>3, CommitWrites
  <2>2. new \in AuditRow
    BY <2>1 DEF IInv, TypeOK, Session, AuditRow
  <2>3. new.from = status[u] /\ new.to = status'[u]
    BY <2>1
  <2> HIDE DEF new
  <2>4. QED BY <1>1, <2>1, <2>2, <2>3, TellsMore
<1>4. QED BY <1>2, <1>3, RowStep

LEMMA AdminLeftStep ==
  ASSUME IInv, [Next]_vars, ActiveAdmins # {}, ActiveAdmins' = {}
  PROVE  \E s \in Sessions : Commit(s) /\ status[sess[s].actor] # "ACTIVE"
<1>1. PICK a \in Admins : status[a] = "ACTIVE" /\ status'[a] # "ACTIVE"
  BY DEF ActiveAdmins
<1>2. PICK s \in Sessions : Commit(s)
  BY <1>1, RowStep DEF Users
<1>3. /\ sess[s].actor \in Admins /\ sess[s].actor # Target(s)
      /\ \A r \in Resources \ {Target(s)} : status'[r] = status[r]
  BY <1>2, CommitWrites
<1>4. status'[sess[s].actor] = status[sess[s].actor] /\ status'[sess[s].actor] # "ACTIVE"
  BY <1>3 DEF ActiveAdmins, Resources, Users
<1>5. QED BY <1>2, <1>4

LEMMA ArenaStep ==
  ASSUME IInv, [Next]_vars, NEW r \in Arenas, audit'[r] # audit[r]
  PROVE  LET new == audit'[r][Len(audit'[r])] IN new.from = status[r] /\ new.to = status'[r]
<1>1. PICK s \in Sessions : Commit(s) /\ Target(s) = r
  BY RowStep
<1> DEFINE row == [actor |-> sess[s].actor, from |-> sess[s].seen, to |-> sess[s].to]
<1>2. /\ sess[s].seen = status[r] /\ status'[r] = sess[s].to
      /\ audit'[r] = Append(audit[r], row)
  BY <1>1, CommitWrites
<1>3. row.from = status[r] /\ row.to = status'[r]
  BY <1>2
<1>4. audit[r] \in Seq(AuditRow)
  BY DEF IInv, TypeOK, Resources
<1> HIDE DEF row
<1>5. audit'[r][Len(audit'[r])] = row
  BY <1>2, <1>4
<1>6. QED BY <1>3, <1>5

\* The audit rows about a user tell his whole history, each beginning where the
\* one before ended: no change of any number of administrators falls between two.
THEOREM AuditTrailKept == Spec => []AuditTrail
<1>1. Init => AuditTrail
  BY AdminNamesAssumption DEF Init, AuditTrail, Resources
<1>2. IInv /\ AuditTrail /\ [Next]_vars => AuditTrail'
  BY TrailStep
<1>3. QED BY <1>1, <1>2, AdminInvariance, PTL DEF Spec

\* Only one who acts after his own suspension can leave no administrator ACTIVE:
\* assertNotSelf is enough for all others, for any number of administrators.
THEOREM AdminsLeft == Spec => AdminLeft
<1>1. IInv /\ [Next]_vars =>
        [ActiveAdmins # {} /\ ActiveAdmins' = {} =>
           \E s \in Sessions : Commit(s) /\ status[sess[s].actor] # "ACTIVE"]_vars
  BY AdminLeftStep
<1>2. QED BY <1>1, AdminInvariance, PTL DEF Spec, AdminLeft

\* A row about an arena tells of the change made with it, whatever the owner's
\* updates of the same column do around it.
THEOREM ArenaRowsKept == Spec => ArenaRowsTrue
<1>1. IInv /\ [Next]_vars =>
        [\A r \in Arenas : audit'[r] # audit[r] =>
           LET new == audit'[r][Len(audit'[r])] IN new.from = status[r] /\ new.to = status'[r]]_vars
  BY ArenaStep
<1>2. QED BY <1>1, AdminInvariance, PTL DEF Spec, ArenaRowsTrue

-----------------------------------------------------------------------------
(* The audit of the events' cancellations. *)

\* A request that read CANCELLED and may still cancel the event without a row.
Late(s, e) ==
  /\ At(s, "load") \/ At(s, "update")
  /\ Target(s) = e /\ sess[s].op = "patch" /\ sess[s].seen = "CANCELLED"

\* CancelsAudited, and room for the change such a request may make: there is one
\* once an edit has revived the event.
Room(e) ==
  /\ told[e].changed <= Accounted(e)
  /\ status[e] # "CANCELLED" /\ (\E s \in Sessions : Late(s, e)) =>
       told[e].changed + 1 <= Accounted(e)
AInv == IInv /\ \A e \in Events : Room(e)

LEMMA OwingFinite ==
  ASSUME NEW e \in Events
  PROVE  IsFiniteSet(Owing(e)) /\ Cardinality(Owing(e)) \in Nat
<1>1. IsFiniteSet(Sessions) /\ Owing(e) \subseteq Sessions
  BY AdminBoundsAssumption DEF Owing
<1>2. QED BY <1>1, FS_Subset, FS_CardinalityType

LEMMA AccountedType ==
  ASSUME IInv, NEW e \in Events
  PROVE  /\ told[e] \in [changed : Nat, lost : Nat, revived : Nat]
         /\ audit[e] \in Seq(AuditRow) /\ Cardinality(Owing(e)) \in Nat
         /\ Accounted(e) \in Nat
BY OwingFinite DEF IInv, TypeOK, Resources, Accounted

LEMMA AccountedParts ==
  ASSUME IInv, NEW e \in Events
  PROVE  /\ Len(audit[e]) \in Nat /\ told[e].lost \in Nat /\ told[e].revived \in Nat
         /\ Cardinality(Owing(e)) \in Nat /\ told[e].changed \in Nat
BY AccountedType

LEMMA Sums ==
  ASSUME NEW a \in Int, NEW b \in Int, NEW d \in Int, NEW n \in Int,
         NEW o \in Int, NEW c \in Int
  PROVE  /\ a + (b + o) + d + (n + c) = (a + b + d + n) + o + c
         /\ (a + 1) + b + d + (n - 1) = a + b + d + n
OBVIOUS

\* A step that inserts no row about the event.
LEMMA AccountedNext ==
  ASSUME IInv, NEW e \in Events, NEW o \in Int, NEW c \in Int, audit'[e] = audit[e],
         told'[e].lost = told[e].lost + o, told'[e].revived = told[e].revived,
         Cardinality(Owing(e)') = Cardinality(Owing(e)) + c
  PROVE  Accounted(e)' = Accounted(e) + o + c
<1> DEFINE a == Len(audit[e])
<1> DEFINE b == told[e].lost
<1> DEFINE d == told[e].revived
<1> DEFINE n == Cardinality(Owing(e))
<1>1. Accounted(e) = a + b + d + n
  BY DEF Accounted
<1>2. Accounted(e)' = a + (b + o) + d + (n + c)
  BY DEF Accounted
<1>3. a \in Int /\ b \in Int /\ d \in Int /\ n \in Int
  BY AccountedParts
<1> HIDE DEF a, b, d, n
<1>4. a + (b + o) + d + (n + c) = (a + b + d + n) + o + c
  BY <1>3, Sums
<1>5. QED BY <1>1, <1>2, <1>4

LEMMA AccountedNat == IInv => \A x \in Events : Accounted(x) \in Nat
BY AccountedType

\* A request that ends owes nothing any more.
LEMMA EndsOwes ==
  ASSUME IInv, NEW s \in Sessions, Ends(s), NEW e \in Events
  PROVE  /\ Owing(e)' = Owing(e) \ {s}
         /\ Cardinality(Owing(e)') = IF At(s, "audit") /\ Target(s) = e
                                      THEN Cardinality(Owing(e)) - 1 ELSE Cardinality(Owing(e))
         /\ \A t \in Sessions : Late(t, e)' => Late(t, e)
<1>1. sess' = [sess EXCEPT ![s] = Idle] /\ sess \in [Sessions -> Session]
  BY DEF Ends, IInv, TypeOK
<1>2. sess'[s] = Idle /\ \A t \in Sessions \ {s} : sess'[t] = sess[t]
  BY <1>1
<1>3. Owing(e)' = Owing(e) \ {s}
  BY <1>2, IdleType DEF Owing, At, Target
<1>4. \A t \in Sessions : Late(t, e)' => Late(t, e)
  BY <1>2, IdleType DEF Late, At, Target
<1>5. s \in Owing(e) <=> At(s, "audit") /\ Target(s) = e
  BY DEF Owing
<1>6. QED BY <1>3, <1>4, <1>5, OwingFinite, FS_RemoveElement

\* A request that goes on owes a row once it is due.
LEMMA GoesOwes ==
  ASSUME IInv, NEW s \in Sessions, NEW q, NEW seen \in AnyStatus,
         NextPhase(sess[s].phase, q), q = "audit" => sess[s].op = "patch", Goes(s, q, seen),
         NEW e \in Events
  PROVE  /\ Cardinality(Owing(e)') = IF q = "audit" /\ Target(s) = e
                                      THEN Cardinality(Owing(e)) + 1 ELSE Cardinality(Owing(e))
         /\ \A t \in Sessions : Late(t, e)' =>
              \/ Late(t, e)
              \/ t = s /\ sess[s].phase = "look" /\ seen = "CANCELLED" /\ Target(s) = e
              \/ t = s /\ seen # sess[s].seen
<1>1. /\ sess'[s].phase = q /\ sess'[s].seen = seen /\ sess'[s].target = sess[s].target
      /\ sess'[s].op = sess[s].op /\ \A t \in Sessions \ {s} : sess'[t] = sess[t]
  BY GoesShape DEF Target
<1>2. ~At(s, "audit")
  BY DEF At, NextPhase
<1>3. Owing(e)' = IF q = "audit" /\ Target(s) = e THEN Owing(e) \cup {s} ELSE Owing(e)
  BY <1>1, <1>2 DEF Owing, At, Target
<1>4. s \notin Owing(e)
  BY <1>2 DEF Owing
<1>5. \A t \in Sessions \ {s} : Late(t, e)' => Late(t, e)
  BY <1>1 DEF Late, At, Target
<1>6. Late(s, e)' => \/ Late(s, e)
                     \/ sess[s].phase = "look" /\ seen = "CANCELLED" /\ Target(s) = e
                     \/ seen # sess[s].seen
  BY <1>1 DEF Late, At, Target, NextPhase
<1>7. QED BY <1>3, <1>4, <1>5, <1>6, OwingFinite, FS_AddElement

\* Room is kept by a step that takes no row away, adds no change and no late
\* request.
LEMMA RoomKept ==
  ASSUME IInv, IInv', NEW e \in Events, Room(e),
         told'[e].changed = told[e].changed,
         Accounted(e)' >= Accounted(e),
         \/ status'[e] = "CANCELLED"
         \/ status'[e] = status[e] /\ \A t \in Sessions : Late(t, e)' => Late(t, e)
         \/ status[e] # "CANCELLED" /\ \A t \in Sessions : Late(t, e)' => Late(t, e)
         \/ Accounted(e)' >= Accounted(e) + 1
  PROVE  Room(e)'
<1>1. /\ told[e].changed \in Nat /\ Accounted(e) \in Nat /\ Accounted(e)' \in Nat
  <2>1. (\A x \in Events : Accounted(x) \in Nat)'
    BY IInv', AccountedNat, PTL
  <2>2. QED BY <2>1, AccountedType
<1>2. told[e].changed <= Accounted(e)
  BY DEF Room
<1>3. (told[e].changed <= Accounted(e))'
  BY <1>1, <1>2
<1>4. ASSUME (status[e] # "CANCELLED" /\ (\E s \in Sessions : Late(s, e)))'
      PROVE  (told[e].changed + 1 <= Accounted(e))'
  <2>1. CASE Accounted(e)' >= Accounted(e) + 1
    BY <1>1, <1>2, <2>1
  <2>2. CASE ~(Accounted(e)' >= Accounted(e) + 1)
    <3>1. status[e] # "CANCELLED" /\ \E s \in Sessions : Late(s, e)
      BY <1>4, <2>2
    <3>2. told[e].changed + 1 <= Accounted(e)
      BY <3>1 DEF Room
    <3>3. QED BY <1>1, <3>2
  <2>3. QED BY <2>1, <2>2
<1>5. QED BY <1>3, <1>4 DEF Room

\* A request about users or arenas, or one that only looks, changes no event, no
\* row about one and no debt of a row.
LEMMA RoomElsewhere ==
  ASSUME AInv, IInv', NEW s \in Sessions, NEW e \in Events,
         Send(s) \/ Lock(s) \/ Refuse(s) \/ Commit(s) \/ BreakDeadlock(s) \/ Look(s)
  PROVE  Room(e)'
<1>1. IInv /\ Room(e)
  BY DEF AInv
<1>2. e \notin Users \cup Arenas /\ e \in Resources
  BY AdminNamesAssumption DEF Resources
<1>3. status'[e] = status[e] /\ audit'[e] = audit[e] /\ told' = told
  <2>1. CASE Commit(s)
    <3>1. e \in Resources \ {Target(s)}
      BY <1>1, <1>2, <2>1, CommitWrites
    <3>2. QED BY <1>1, <2>1, <3>1, CommitWrites DEF Commit
  <2>2. CASE ~Commit(s)
    BY <2>2 DEF Send, SendPatch, SendCancel, SendDelete, SendEdit, Admit, Lock, Refuse,
                BreakDeadlock, Look
  <2>3. QED BY <2>1, <2>2
<1>4. CASE Send(s)
  <2>1. PICK op, p, u, r, to : Admit(s, op, u, r, p, to) /\ (op = "patch" => p # "load")
                               /\ p \in {"lock", "look", "load"}
    BY <1>4 DEF Send, SendPatch, SendCancel, SendDelete, SendEdit
  <2> DEFINE new == [op |-> op, phase |-> p, actor |-> u, target |-> r, to |-> to,
                     seen |-> "CANCELLED"]
  <2>2. sess' = [sess EXCEPT ![s] = new] /\ sess \in [Sessions -> Session] /\ At(s, "idle")
    BY <1>1, <2>1 DEF Admit, IInv, TypeOK
  <2>3. sess'[s] = new /\ \A t \in Sessions \ {s} : sess'[t] = sess[t]
    BY <2>2
  <2>4. Owing(e)' = Owing(e)
    BY <2>1, <2>2, <2>3 DEF Owing, At, Target
  <2>5. \A t \in Sessions : Late(t, e)' => Late(t, e)
    BY <2>1, <2>3 DEF Late, At, Target
  <2>6. Accounted(e)' = Accounted(e)
    BY <1>3, <2>4 DEF Accounted
  <2>7. Accounted(e)' >= Accounted(e)
    BY <1>1, <2>6, AccountedType
  <2>8. QED BY <1>1, <1>3, <2>5, <2>7, RoomKept
<1>5. CASE Refuse(s) \/ Commit(s) \/ BreakDeadlock(s)
  <2>1. Ends(s) /\ ~At(s, "audit")
    <3>1. BreakDeadlock(s) => At(s, "locked")
      BY DEF BreakDeadlock, Deadlocked, WaitsFor
    <3>2. QED BY <1>5, <3>1 DEF Refuse, Commit, BreakDeadlock, At
  <2>2. /\ Cardinality(Owing(e)') = Cardinality(Owing(e))
        /\ \A t \in Sessions : Late(t, e)' => Late(t, e)
    BY <1>1, <2>1, EndsOwes
  <2>3. Accounted(e)' >= Accounted(e)
    BY <1>1, <1>3, <2>2, AccountedType DEF Accounted
  <2>4. QED BY <1>1, <1>3, <2>2, <2>3, RoomKept
<1>6. CASE Lock(s) \/ Look(s)
  <2>1. PICK q \in {"locked", "load"} :
          Goes(s, q, status[Target(s)]) /\ NextPhase(sess[s].phase, q)
          /\ (q = "locked" => sess[s].phase = "lock") /\ (q = "load" => sess[s].phase = "look")
    BY <1>6 DEF Lock, Look, At, NextPhase
  <2>2. status[Target(s)] \in AnyStatus
    BY <1>1, <1>6 DEF Lock, Look, At, IInv, TypeOK, SessionShape
  <2>3. Cardinality(Owing(e)') = Cardinality(Owing(e))
    BY <1>1, <2>1, <2>2, GoesOwes
  <2>4. /\ sess'[s].phase = q /\ sess'[s].seen = status[Target(s)] /\ Target(s)' = Target(s)
        /\ \A t \in Sessions \ {s} : sess'[t] = sess[t]
    BY <1>1, <2>1, <2>2, GoesShape
  <2>5. status[e] = "CANCELLED" \/ \A t \in Sessions : Late(t, e)' => Late(t, e)
    BY <2>1, <2>4 DEF Late, At, Target
  <2>6. Accounted(e)' >= Accounted(e)
    BY <1>1, <1>3, <2>3, AccountedType DEF Accounted
  <2>7. QED BY <1>1, <1>3, <2>5, <2>6, RoomKept
<1>7. QED BY <1>4, <1>5, <1>6

\* The read of the event that decides what is written.
LEMMA RoomLoad ==
  ASSUME AInv, IInv', NEW s \in Sessions, NEW e \in Events, Load(s)
  PROVE  Room(e)'
<1>1. /\ IInv /\ Room(e) /\ sess[s].phase = "load" /\ sess[s].seen \in AnyStatus
      /\ UNCHANGED <<status, audit, told>>
  BY DEF AInv, Load, At, IInv, TypeOK, Session
<1>2. \/ \E q \in {"update", "write", "audit"} :
           Goes(s, q, sess[s].seen) /\ (q = "audit" => sess[s].op = "patch")
      \/ Ends(s)
  BY DEF Load, AfterCancel
<1>3. CASE Ends(s)
  <2>1. /\ Cardinality(Owing(e)') = Cardinality(Owing(e))
        /\ \A t \in Sessions : Late(t, e)' => Late(t, e)
    BY <1>1, <1>3, EndsOwes DEF At
  <2>2. Accounted(e)' >= Accounted(e)
    BY <1>1, <2>1, AccountedType DEF Accounted
  <2>3. QED BY <1>1, <2>1, <2>2, RoomKept
<1>4. CASE ~Ends(s)
  <2>1. PICK q \in {"update", "write", "audit"} :
          Goes(s, q, sess[s].seen) /\ (q = "audit" => sess[s].op = "patch")
    BY <1>2, <1>4
  <2>2. NextPhase(sess[s].phase, q)
    BY <1>1 DEF NextPhase
  <2>3. /\ Cardinality(Owing(e)') = Cardinality(Owing(e)) + 1
             \/ Cardinality(Owing(e)') = Cardinality(Owing(e))
        /\ \A t \in Sessions : Late(t, e)' => Late(t, e)
    BY <1>1, <2>1, <2>2, GoesOwes
  <2>4. Accounted(e)' >= Accounted(e)
    BY <1>1, <2>3, AccountedType DEF Accounted
  <2>5. QED BY <1>1, <2>3, <2>4, RoomKept
<1>5. QED BY <1>3, <1>4

\* The cancellation: its row is due, is lost with the answer, or has the room an
\* edit left.
LEMMA RoomCancel ==
  ASSUME AInv, IInv', NEW s \in Sessions, NEW e \in Events, CancelEvent(s)
  PROVE  Room(e)'
<1>1. /\ IInv /\ Room(e) /\ sess[s].phase = "update" /\ sess[s].seen \in AnyStatus
      /\ audit' = audit /\ Target(s) \in Events
  BY DEF AInv, CancelEvent, At, IInv, TypeOK, Session, SessionShape
<1>2. /\ told \in [Events -> [changed : Nat, lost : Nat, revived : Nat]]
      /\ told[e] \in [changed : Nat, lost : Nat, revived : Nat]
      /\ audit[e] \in Seq(AuditRow) /\ Cardinality(Owing(e)) \in Nat
      /\ status \in [Resources -> AnyStatus] /\ e \in Resources
  BY <1>1, AccountedType DEF IInv, TypeOK, Resources
<1>3. status' = [status EXCEPT ![Target(s)] = "CANCELLED"]
  BY DEF CancelEvent
<1>4. /\ Ends(s) => /\ Cardinality(Owing(e)') = Cardinality(Owing(e))
                    /\ \A t \in Sessions : Late(t, e)' => Late(t, e)
      /\ AfterCancel(s) /\ ~Ends(s) =>
           /\ sess[s].op = "patch" /\ sess[s].seen # "CANCELLED"
           /\ Cardinality(Owing(e)') = IF Target(s) = e THEN Cardinality(Owing(e)) + 1
                                       ELSE Cardinality(Owing(e))
           /\ \A t \in Sessions : Late(t, e)' => Late(t, e)
  <2>1. ASSUME Ends(s)
        PROVE  /\ Cardinality(Owing(e)') = Cardinality(Owing(e))
               /\ \A t \in Sessions : Late(t, e)' => Late(t, e)
    BY <1>1, <2>1, EndsOwes DEF At
  <2>2. ASSUME AfterCancel(s), ~Ends(s)
        PROVE  /\ sess[s].op = "patch" /\ sess[s].seen # "CANCELLED"
               /\ Cardinality(Owing(e)') = IF Target(s) = e THEN Cardinality(Owing(e)) + 1
                                           ELSE Cardinality(Owing(e))
               /\ \A t \in Sessions : Late(t, e)' => Late(t, e)
    <3>1. sess[s].op = "patch" /\ sess[s].seen # "CANCELLED" /\ Goes(s, "audit", sess[s].seen)
      BY <2>2 DEF AfterCancel
    <3>2. NextPhase(sess[s].phase, "audit")
      BY <1>1 DEF NextPhase
    <3>3. QED BY <1>1, <3>1, <3>2, GoesOwes
  <2>3. QED BY <2>1, <2>2
<1>5. CASE e # Target(s)
  <2>1. told'[e] = told[e] /\ status'[e] = status[e]
    BY <1>2, <1>3, <1>5 DEF CancelEvent, Changes
  <2>2. Cardinality(Owing(e)') = Cardinality(Owing(e))
        /\ \A t \in Sessions : Late(t, e)' => Late(t, e)
    BY <1>4, <1>5 DEF CancelEvent
  <2>3. Accounted(e)' >= Accounted(e)
    BY <1>1, <1>2, <2>1, <2>2, AccountedType DEF Accounted
  <2>4. QED BY <1>1, <2>1, <2>2, <2>3, RoomKept
<1>6. CASE e = Target(s)
  <2>1. status'[e] = "CANCELLED"
    BY <1>2, <1>3, <1>6
  <2>2. CASE sess[s].op # "patch" \/ status[e] = "CANCELLED"
    <3>1. told' = told
      BY <1>6, <2>2 DEF CancelEvent, Changes
    <3>2. Cardinality(Owing(e)') >= Cardinality(Owing(e))
      BY <1>2, <1>4 DEF CancelEvent
    <3>3. Accounted(e)' >= Accounted(e)
      <4>1. Cardinality(Owing(e)') \in Nat
        BY <1>2, <1>4 DEF CancelEvent
      <4>2. QED BY <1>1, <1>2, <3>1, <3>2, <4>1 DEF Accounted
    <3>4. QED BY <1>1, <2>1, <3>1, <3>3, RoomKept
  <2>3. CASE sess[s].op = "patch" /\ status[e] # "CANCELLED"
    <3>1. PICK i \in {0, 1} :
            /\ told' = [told EXCEPT ![e].changed = told[e].changed + 1,
                                    ![e].lost = told[e].lost + i]
            /\ i = 1 => Ends(s)
            /\ i = 0 => AfterCancel(s)
      BY <1>6, <2>3 DEF CancelEvent, Changes
    <3>2. /\ told'[e].changed = told[e].changed + 1 /\ told'[e].lost = told[e].lost + i
          /\ told'[e].revived = told[e].revived
      BY <1>2, <3>1
    <3>3. told[e].changed <= Accounted(e) /\ (Late(s, e) => told[e].changed + 1 <= Accounted(e))
      BY <1>1, <2>3 DEF Room
    <3>4. CASE i = 1 \/ ~Ends(s)
      <4>1. PICK c \in {0, 1} : Cardinality(Owing(e)') = Cardinality(Owing(e)) + c /\ i + c = 1
        <5>1. CASE i = 1
          <6>1. Cardinality(Owing(e)') = Cardinality(Owing(e)) + 0
            BY <1>2, <1>4, <3>1, <5>1
          <6>2. QED BY <5>1, <6>1
        <5>2. CASE i = 0 /\ ~Ends(s)
          <6>1. Cardinality(Owing(e)') = Cardinality(Owing(e)) + 1
            BY <1>4, <1>6, <3>1, <5>2
          <6>2. QED BY <5>2, <6>1
        <5>3. QED BY <3>4, <5>1, <5>2
      <4>2. Accounted(e)' = Accounted(e) + i + c
        BY <1>1, <3>2, <4>1, AccountedNext
      <4>3. Accounted(e)' = Accounted(e) + 1
        BY <1>1, <4>1, <4>2, AccountedType
      <4>4. QED BY <1>2, <2>1, <3>2, <3>3, <4>3, AccountedType, <1>1 DEF Room
    <3>5. CASE i = 0 /\ Ends(s)
      <4>1. sess[s].seen = "CANCELLED"
        <5>1. CASE sess[s].seen # "CANCELLED"
          <6>1. Goes(s, "audit", sess[s].seen) /\ NextPhase(sess[s].phase, "audit")
            BY <1>1, <2>3, <3>1, <3>5, <5>1 DEF AfterCancel, NextPhase
          <6>2. sess'[s].phase = "audit"
            BY <1>1, <2>3, <6>1, GoesShape
          <6>3. sess'[s].phase = "idle"
            BY <1>1, <3>5, IdleType DEF Ends, IInv, TypeOK
          <6>4. QED BY <6>2, <6>3
        <5>2. QED BY <5>1
      <4>2. Late(s, e)
        BY <1>1, <1>6, <2>3, <4>1 DEF Late, At
      <4>3. Accounted(e)' = Accounted(e)
        BY <1>1, <1>2, <1>4, <3>2, <3>5 DEF Accounted
      <4>4. QED BY <2>1, <3>2, <3>3, <4>2, <4>3 DEF Room
    <3>6. QED BY <3>4, <3>5
  <2>4. QED BY <2>2, <2>3
<1>7. QED BY <1>5, <1>6

\* The row itself, an edit and a failure.
LEMMA RoomSettles ==
  ASSUME AInv, IInv', NEW s \in Sessions, NEW e \in Events,
         Audit(s) \/ WriteEvent(s) \/ Fails(s)
  PROVE  Room(e)'
<1>1. IInv /\ Room(e) /\ Ends(s)
  BY DEF AInv, Audit, WriteEvent, Fails
<1>2. /\ told \in [Events -> [changed : Nat, lost : Nat, revived : Nat]]
      /\ told[e] \in [changed : Nat, lost : Nat, revived : Nat]
      /\ audit[e] \in Seq(AuditRow) /\ Cardinality(Owing(e)) \in Nat /\ Accounted(e) \in Nat
      /\ status \in [Resources -> AnyStatus] /\ e \in Resources
  BY <1>1, AccountedType DEF IInv, TypeOK, Resources
<1>3. /\ Cardinality(Owing(e)') = IF At(s, "audit") /\ Target(s) = e
                                  THEN Cardinality(Owing(e)) - 1 ELSE Cardinality(Owing(e))
      /\ \A t \in Sessions : Late(t, e)' => Late(t, e)
  BY <1>1, EndsOwes
<1>4. CASE Audit(s)
  <2>1. At(s, "audit") /\ InsertAuditLog(s) /\ told' = told /\ status' = status
    BY <1>4 DEF Audit
  <2>2. Accounted(e)' = Accounted(e)
    <3>1. CASE Target(s) = e
      <4>1. PICK row \in AuditRow : audit'[e] = Append(audit[e], row)
        BY <1>1, <2>1, <3>1, InsertType
      <4>2. Len(audit'[e]) = Len(audit[e]) + 1
        BY <1>2, <4>1
      <4>3. Cardinality(Owing(e)') = Cardinality(Owing(e)) + (-1)
        BY <1>2, <1>3, <2>1, <3>1
      <4>4. Accounted(e)' = (Len(audit[e]) + 1) + told[e].lost + told[e].revived
                            + (Cardinality(Owing(e)) - 1)
        BY <2>1, <4>2, <4>3 DEF Accounted
      <4>5. /\ Len(audit[e]) \in Int /\ told[e].lost \in Int /\ told[e].revived \in Int
            /\ Cardinality(Owing(e)) \in Int
        BY <1>1, AccountedParts
      <4>6. (Len(audit[e]) + 1) + told[e].lost + told[e].revived + (Cardinality(Owing(e)) - 1)
              = Len(audit[e]) + told[e].lost + told[e].revived + Cardinality(Owing(e))
        BY <4>5, Sums
      <4>7. QED BY <4>4, <4>6 DEF Accounted
    <3>2. CASE Target(s) # e
      <4>1. audit'[e] = audit[e] /\ Cardinality(Owing(e)') = Cardinality(Owing(e))
        BY <1>1, <1>2, <1>3, <2>1, <3>2, InsertType
      <4>2. QED BY <2>1, <4>1 DEF Accounted
    <3>3. QED BY <3>1, <3>2
  <2>4. Accounted(e)' >= Accounted(e)
    BY <1>2, <2>2
  <2>5. QED BY <1>1, <1>3, <2>1, <2>4, RoomKept
<1>5. CASE WriteEvent(s)
  <2>1. /\ At(s, "write") /\ ~At(s, "audit") /\ audit' = audit
        /\ status' = [status EXCEPT ![Target(s)] = sess[s].to]
    BY <1>5 DEF WriteEvent, At
  <2>2. CASE e = Target(s) /\ status[e] = "CANCELLED"
    <3>1. told' = [told EXCEPT ![e].revived = told[e].revived + 1]
      BY <1>5, <2>2 DEF WriteEvent
    <3>2. /\ told'[e].changed = told[e].changed /\ told'[e].lost = told[e].lost
          /\ told'[e].revived = told[e].revived + 1
      BY <1>2, <3>1
    <3>3. Accounted(e)' = Accounted(e) + 1
      BY <1>2, <1>3, <2>1, <3>2 DEF Accounted
    <3>4. Accounted(e)' >= Accounted(e) /\ Accounted(e)' >= Accounted(e) + 1
      BY <1>2, <3>3
    <3>5. QED BY <1>1, <3>2, <3>4, RoomKept
  <2>3. CASE ~(e = Target(s) /\ status[e] = "CANCELLED")
    <3>1. told'[e] = told[e] /\ (status'[e] = status[e] \/ status[e] # "CANCELLED")
      BY <1>2, <1>5, <2>1, <2>3 DEF WriteEvent
    <3>2. Accounted(e)' >= Accounted(e)
      BY <1>2, <1>3, <2>1, <3>1 DEF Accounted
    <3>3. QED BY <1>1, <1>3, <3>1, <3>2, RoomKept
  <2>4. QED BY <2>2, <2>3
<1>6. CASE Fails(s)
  <2>1. status' = status /\ audit' = audit
    BY <1>6 DEF Fails
  <2>2. CASE At(s, "audit") /\ Target(s) = e
    <3>1. told' = [told EXCEPT ![e].lost = told[e].lost + 1]
      BY <1>6, <2>2 DEF Fails
    <3>2. /\ told'[e].changed = told[e].changed /\ told'[e].lost = told[e].lost + 1
          /\ told'[e].revived = told[e].revived
      BY <1>2, <3>1
    <3>3. Cardinality(Owing(e)') = Cardinality(Owing(e)) - 1
      BY <1>3, <2>2
    <3>4. Accounted(e)' >= Accounted(e)
      BY <1>2, <2>1, <3>2, <3>3 DEF Accounted
    <3>5. QED BY <1>1, <1>3, <2>1, <3>2, <3>4, RoomKept
  <2>3. CASE ~(At(s, "audit") /\ Target(s) = e)
    <3>1. told'[e] = told[e]
      BY <1>2, <1>6, <2>3 DEF Fails
    <3>2. Cardinality(Owing(e)') = Cardinality(Owing(e))
      BY <1>3, <2>3
    <3>3. Accounted(e)' >= Accounted(e)
      BY <1>2, <2>1, <3>1, <3>2 DEF Accounted
    <3>4. QED BY <1>1, <1>3, <2>1, <3>1, <3>3, RoomKept
  <2>4. QED BY <2>2, <2>3
<1>7. QED BY <1>4, <1>5, <1>6

LEMMA RoomStep == AInv /\ [Next]_vars => AInv'
<1> SUFFICES ASSUME AInv, [Next]_vars PROVE AInv' OBVIOUS
<1>1. IInv /\ IInv'
  BY NextInv DEF AInv
<1>2. ASSUME NEW e \in Events PROVE Room(e)'
  <2>1. ASSUME NEW s \in Sessions, Send(s) \/ Waits(s) \/ Steps(s) \/ Fails(s)
        PROVE  Room(e)'
    BY <1>1, <2>1, RoomElsewhere, RoomLoad, RoomCancel, RoomSettles DEF Waits, Steps
  <2>2. ASSUME (\E r \in Arenas : UpdateArena(r)) \/ UNCHANGED vars
        PROVE  Room(e)'
    <3>1. UNCHANGED <<audit, sess, told>> /\ status'[e] = status[e]
      BY <1>1, <2>2, AdminNamesAssumption DEF UpdateArena, vars, IInv, TypeOK, Resources
    <3>2. /\ Accounted(e)' = Accounted(e)
          /\ \A t \in Sessions : Late(t, e)' => Late(t, e)
      BY <3>1 DEF Accounted, Owing, Late, At, Target
    <3>3. Accounted(e)' >= Accounted(e)
      BY <1>1, <3>2, AccountedType
    <3>4. QED BY <1>1, <3>1, <3>2, <3>3, RoomKept DEF AInv
  <2>3. QED BY <2>1, <2>2 DEF Next
<1>3. QED BY <1>1, <1>2 DEF AInv

\* An event cancelled by an administrator has its audit row, or it is due: only a
\* failure, or a stale edit between the two reads, leaves one without, for any
\* number of requests.
THEOREM CancelsAccounted == Spec => []CancelsAudited
<1>1. Init => AInv
  <2> SUFFICES ASSUME Init PROVE AInv OBVIOUS
  <2>1. IInv
    BY InitInv
  <2>2. \A s \in Sessions : sess[s].phase = "idle"
    BY IdleType DEF Init
  <2>3. ASSUME NEW e \in Events PROVE Room(e)
    <3>1. told[e].changed = 0 /\ \A s \in Sessions : ~Late(s, e)
      BY <2>2 DEF Init, Late, At
    <3>2. QED BY <2>1, <3>1, AccountedType DEF Room
  <2>4. QED BY <2>1, <2>3 DEF AInv
<1>2. AInv /\ [Next]_vars => AInv'
  BY RoomStep
<1>3. AInv => CancelsAudited
  BY DEF AInv, Room, CancelsAudited
<1>4. QED BY <1>1, <1>2, <1>3, PTL DEF Spec

-----------------------------------------------------------------------------
(* Why every request ends.  RequestsEnd needs fairness and is checked by   *)
(* TLC; what it rests on is proved here: requests that wait in a circle    *)
(* are deadlocked as Postgres sees it, and each takes few steps.           *)

LEMMA BlockerLocked ==
  ASSUME IInv, NEW s \in Sessions, Blocker(s) \in Sessions
  PROVE  At(Blocker(s), "locked") /\ (At(s, "locked") => WaitsFor(s, Blocker(s)))
<1>1. /\ \A r \in Resources : held[r] # NoSession => At(held[r], "locked")
      /\ ~At(s, "idle") => sess[s].actor \in Resources /\ Target(s) \in Resources
  BY DEF IInv, TypeOK, SessionShape, Resources, At
<1>2. Blocker(s) # NoSession
  BY AdminNamesAssumption
<1>3. CASE At(s, "lock")
  BY <1>1, <1>2, <1>3 DEF Blocker, At
<1>4. CASE ~At(s, "lock")
  <2>1. /\ At(s, "locked") \/ At(s, "audit")
        /\ Blocker(s) = held[sess[s].actor] /\ Blocker(s) # s
    BY <1>2, <1>4 DEF Blocker, ActorFree
  <2>2. QED BY <1>1, <1>2, <2>1 DEF WaitsFor, At
<1>5. QED BY <1>3, <1>4

\* Sets of requests of which each is blocked by another of the set.
Circle(W) == W # {} /\ \A s \in W : Blocker(s) \in W

\* In a smallest circle everybody also blocks somebody: the rest would be a smaller one.
LEMMA SmallestCircle ==
  ASSUME NEW W \in SUBSET Sessions, Circle(W)
  PROVE  \E D \in SUBSET W :
           Circle(D) /\ \A s \in D : \E t \in D : Blocker(t) = s
<1> DEFINE Circles == {D \in SUBSET W : Circle(D)}
<1> DEFINE Smaller == StrictSubsetOrdering(W)
<1>1. IsWellFoundedOn(Smaller, FiniteSubsetsOf(W))
  BY FS_StrictSubsetOrderingWellFounded
<1>2. \A D \in SUBSET W : IsFiniteSet(D)
  BY AdminBoundsAssumption, FS_Subset
<1>3. Circles \subseteq FiniteSubsetsOf(W) /\ Circles # {}
  BY <1>2 DEF FiniteSubsetsOf
<1>4. \E D \in Circles : \A E \in Circles : <<E, D>> \notin Smaller
  <2> HIDE DEF Circles, Smaller
  <2>1. QED BY <1>1, <1>3, WFMin
<1>5. PICK D \in Circles : \A E \in Circles : <<E, D>> \notin Smaller
  BY <1>4
<1> DEFINE E == {Blocker(s) : s \in D}
<1>6. E \subseteq D /\ E \in SUBSET W /\ Circle(E)
  BY <1>5 DEF Circle
<1>7. E = D
  BY <1>5, <1>6 DEF StrictSubsetOrdering
<1>8. QED BY <1>5, <1>7

LEMMA CircleStep == IInv => CircleIsDeadlock
<1> SUFFICES ASSUME IInv, NEW W \in SUBSET Sessions, Circle(W)
             PROVE  \E s \in W : Deadlocked(s)
  BY DEF CircleIsDeadlock, Circle
<1>1. PICK D \in SUBSET W : Circle(D) /\ \A s \in D : \E t \in D : Blocker(t) = s
  BY SmallestCircle
<1>2. \A s \in D : Blocker(s) \in D /\ Blocker(s) \in Sessions
  BY <1>1 DEF Circle
<1>3. \A s \in D : At(s, "locked")
  BY <1>1, <1>2, BlockerLocked
<1>4. \A s \in D : WaitsFor(s, Blocker(s))
  BY <1>2, <1>3, BlockerLocked
<1>5. \A d \in D : (\E e \in D : WaitsFor(d, e)) /\ (\E e \in D : WaitsFor(e, d))
  BY <1>1, <1>2, <1>4
<1>6. PICK s \in D : TRUE
  BY <1>1 DEF Circle
<1>7. QED BY <1>5, <1>6 DEF Deadlocked

\* For any number of administrators and requests: a circle of waiting requests has a
\* deadlock of transactions in it, and a request that ended blocks nobody.
THEOREM CirclesBroken == Spec => []CircleIsDeadlock
<1>1. QED BY CircleStep, AdminInvariance, PTL

\* A bound on the steps a request can still take before it has ended.
StepsLeft(s) ==
  CASE At(s, "look") -> 4
    [] At(s, "load") -> 3
    [] At(s, "lock") \/ At(s, "update") \/ At(s, "write") -> 2
    [] At(s, "locked") \/ At(s, "audit") -> 1
    [] OTHER -> 0

\* Whatever a step changes of a request that has begun brings it nearer to its end.
StepsBounded ==
  [][\A s \in Sessions :
       sess'[s] # sess[s] => At(s, "idle") \/ StepsLeft(s)' < StepsLeft(s)]_vars

LEMMA EndsLeft ==
  ASSUME IInv, NEW s \in Sessions, ~At(s, "idle"), Ends(s)
  PROVE  StepsLeft(s)' < StepsLeft(s)
<1>1. sess'[s] = Idle /\ sess[s] \in Session
  BY DEF Ends, IInv, TypeOK
<1>2. QED BY <1>1 DEF StepsLeft, At, Idle, Session

LEMMA GoesLeft ==
  ASSUME IInv, NEW s \in Sessions, NEW p, NEW x, Goes(s, p, x),
         \/ At(s, "look") /\ p = "load"
         \/ At(s, "load") /\ p \in {"update", "write", "audit"}
         \/ At(s, "lock") /\ p = "locked"
         \/ At(s, "update") /\ p = "audit"
  PROVE  StepsLeft(s)' < StepsLeft(s)
<1>1. sess'[s].phase = p /\ sess[s] \in Session
  BY DEF Goes, IInv, TypeOK, Session
<1>2. QED BY <1>1 DEF StepsLeft, At

\* A request takes at most four steps after it was admitted, whatever the others do: none is
\* tried again, and none leaves a request where it was.
THEOREM RequestsBounded == Spec => StepsBounded
<1>1. ASSUME IInv, NEW s \in Sessions, ~At(s, "idle"), Waits(s) \/ Steps(s) \/ Fails(s)
      PROVE  StepsLeft(s)' < StepsLeft(s)
  <2>1. CASE Ends(s)
    BY <1>1, <2>1, EndsLeft
  <2>2. CASE Lock(s)
    BY <1>1, <2>2, GoesLeft DEF Lock
  <2>3. CASE Look(s)
    BY <1>1, <2>3, GoesLeft DEF Look
  <2>4. CASE Load(s) \/ CancelEvent(s)
    BY <1>1, <2>1, <2>4, GoesLeft DEF Load, CancelEvent, AfterCancel
  <2>5. QED
    BY <1>1, <2>1, <2>2, <2>3, <2>4 DEF Waits, Steps, Refuse, Commit, Audit, WriteEvent,
       BreakDeadlock, Fails
<1>2. ASSUME IInv, Next, NEW s \in Sessions, sess'[s] # sess[s], ~At(s, "idle")
      PROVE  StepsLeft(s)' < StepsLeft(s)
  <2>1. sess \in [Sessions -> Session]
    BY <1>2 DEF IInv, TypeOK
  <2>2. ASSUME NEW t \in Sessions, t # s, Send(t) \/ Waits(t) \/ Steps(t) \/ Fails(t)
        PROVE  FALSE
    <3>1. \E r : sess' = [sess EXCEPT ![t] = r]
      BY <2>2 DEF Send, SendPatch, SendCancel, SendDelete, SendEdit, Admit, Waits, Steps, Lock,
         Refuse, Commit, Audit, Look, Load, CancelEvent, AfterCancel, WriteEvent,
         BreakDeadlock, Fails, Goes, Ends
    <3>2. QED BY <1>2, <2>1, <2>2, <3>1
  <2>3. ~Send(s)
    BY <1>2 DEF Send, SendPatch, SendCancel, SendDelete, SendEdit, Admit
  <2>4. ASSUME NEW r \in Arenas, UpdateArena(r)
        PROVE  FALSE
    BY <1>2, <2>4 DEF UpdateArena
  <2>5. QED BY <1>1, <1>2, <2>2, <2>3, <2>4 DEF Next
<1>3. IInv /\ [Next]_vars =>
        [\A s \in Sessions :
           sess'[s] # sess[s] => At(s, "idle") \/ StepsLeft(s)' < StepsLeft(s)]_vars
  BY <1>2
<1>4. QED BY <1>3, AdminInvariance, PTL DEF Spec, StepsBounded

=============================================================================
