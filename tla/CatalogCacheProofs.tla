------------------------- MODULE CatalogCacheProofs -------------------------
(***************************************************************************)
(* Proofs about CatalogCache, for any number of requests, changes and      *)
(* failures of Redis.                                                      *)
(***************************************************************************)
EXTENDS CatalogCache, TLAPS

-----------------------------------------------------------------------------
(* The inductive invariant. *)

\* What is promised to the readers of each version: f[v] is the last change a
\* bump had announced when the version became v.  Later versions promise more;
\* the entries and the lists loaded under a version hold what it promises.
Promises(f) ==
  /\ \A i, j \in Nat : i <= j /\ j <= version => f[i] <= f[j]
  /\ answered <= f[version] /\ f[version] <= db /\ f[0] = 0
  /\ \A k \in DOMAIN cache : k <= version /\ f[k] <= cache[k]
Served(f, r) ==
  /\ r.phase = "version" => r.floor <= f[version]
  /\ r.phase \in {"get", "load", "set"} => r.key <= version /\ r.floor <= f[r.key]
  /\ r.phase = "set" => f[r.key] <= r.value
  /\ r.phase = "reply" => r.floor <= r.value
  /\ r.phase = "bump" => r.value <= db
  /\ r.phase = "done" => r.value <= f[version]
Kept(f) == Promises(f) /\ \A s \in Sessions : Served(f, sess[s])

IInv == TypeOK /\ \E f \in [Nat -> Nat] : Kept(f)

LEMMA BecomesType ==
  ASSUME sess \in [Sessions -> Session], NEW s \in Sessions, NEW r \in Session, Becomes(s, r)
  PROVE  /\ sess' \in [Sessions -> Session] /\ sess'[s] = r
         /\ \A t \in Sessions \ {s} : sess'[t] = sess[t]
BY DEF Becomes

\* A step of one session that leaves the catalogue, its version and the entries.
LEMMA SessionStep ==
  ASSUME TypeOK, NEW f \in [Nat -> Nat], Kept(f), NEW s \in Sessions, NEW r \in Session,
         Becomes(s, r), Served(f, r), UNCHANGED <<db, version, cache, answered>>
  PROVE  IInv'
<1>1. /\ sess' \in [Sessions -> Session] /\ sess'[s] = r
      /\ \A t \in Sessions \ {s} : sess'[t] = sess[t]
  BY BecomesType DEF TypeOK
<1>2. TypeOK'
  BY <1>1 DEF TypeOK
<1>3. Promises(f)'
  BY DEF Kept, Promises
<1>4. \A t \in Sessions : Served(f, sess'[t])
  BY <1>1 DEF Kept
<1>5. (\A t \in Sessions : Served(f, sess[t]))'
  BY <1>4 DEF Served
<1>6. QED BY <1>2, <1>3, <1>5 DEF IInv, Kept

LEMMA InitInv == Init => IInv
<1> SUFFICES ASSUME Init PROVE IInv OBVIOUS
<1>1. IdleSession \in Session /\ IdleSession.phase = "idle"
  BY DEF IdleSession, Session
<1>2. TypeOK
  BY <1>1 DEF Init, TypeOK
<1> DEFINE f == [v \in Nat |-> 0]
<1>3. f \in [Nat -> Nat] /\ \A v \in Nat : f[v] = 0
  OBVIOUS
<1>4. /\ Promises(f)
      /\ \A s \in Sessions : Served(f, sess[s])
  BY <1>1, <1>3 DEF Init, Promises, Served
<1>5. QED BY <1>2, <1>3, <1>4 DEF IInv, Kept

\* The phases of a read, and the ends of a request, but for the store.
LEMMA ReadInv ==
  ASSUME IInv, NEW s \in Sessions,
         StartRead(s) \/ ReadVersion(s) \/ ReadVersionFails(s) \/ Hit(s) \/ Miss(s) \/ Load(s)
         \/ StoreFails(s) \/ Reply(s) \/ BumpFails(s) \/ Crash(s)
  PROVE  IInv'
<1>1. PICK f \in [Nat -> Nat] : Kept(f)
  BY DEF IInv
<1>2. /\ TypeOK /\ sess[s] \in Session /\ UNCHANGED <<db, version, cache, answered>>
      /\ db \in Nat /\ version \in Nat /\ answered \in Nat
  BY DEF IInv, TypeOK, StartRead, ReadVersion, ReadVersionFails, Hit, Miss, Load, StoreFails,
         Reply, BumpFails, Crash
<1>3. Served(f, sess[s]) /\ Promises(f)
  BY <1>1 DEF Kept
<1>4. CASE Becomes(s, IdleSession)
  <2>1. IdleSession \in Session /\ Served(f, IdleSession)
    BY DEF IdleSession, Session, Served
  <2>2. QED BY <1>1, <1>2, <1>4, <2>1, SessionStep
<1>5. CASE StartRead(s)
  <2> DEFINE r == [IdleSession EXCEPT !.phase = "version", !.floor = answered]
  <2>1. r \in Session /\ r.phase = "version" /\ r.floor = answered /\ Becomes(s, r)
    BY <1>2, <1>5 DEF StartRead, IdleSession, Session
  <2> HIDE DEF r
  <2>2. Served(f, r)
    BY <1>3, <2>1 DEF Served, Promises
  <2>3. QED BY <1>1, <1>2, <2>1, <2>2, SessionStep
<1>6. CASE ReadVersion(s)
  <2> DEFINE r == [sess[s] EXCEPT !.phase = "get", !.key = version]
  <2>1. /\ r \in Session /\ r.phase = "get" /\ r.key = version /\ r.floor = sess[s].floor
        /\ Becomes(s, r) /\ sess[s].phase = "version"
    BY <1>2, <1>6 DEF ReadVersion, Session, In
  <2> HIDE DEF r
  <2>2. Served(f, r)
    BY <1>2, <1>3, <2>1 DEF Served
  <2>3. QED BY <1>1, <1>2, <2>1, <2>2, SessionStep
<1>7. CASE ReadVersionFails(s)
  <2> DEFINE r == [sess[s] EXCEPT !.phase = "get", !.key = 0, !.floor = 0]
  <2>1. r \in Session /\ r.phase = "get" /\ r.key = 0 /\ r.floor = 0 /\ Becomes(s, r)
    BY <1>2, <1>7 DEF ReadVersionFails, Session
  <2> HIDE DEF r
  <2>2. Served(f, r)
    BY <1>2, <1>3, <2>1 DEF Served, Promises
  <2>3. QED BY <1>1, <1>2, <2>1, <2>2, SessionStep
<1>8. CASE Hit(s)
  <2> DEFINE r == [sess[s] EXCEPT !.phase = "reply", !.value = cache[sess[s].key]]
  <2>1. sess[s].key \in DOMAIN cache /\ cache[sess[s].key] \in Nat /\ sess[s].phase = "get"
    BY <1>2, <1>8 DEF Hit, TypeOK, In
  <2>2. /\ r \in Session /\ r.phase = "reply" /\ r.value = cache[sess[s].key]
        /\ r.floor = sess[s].floor /\ Becomes(s, r)
    BY <1>2, <1>8, <2>1 DEF Hit, Session
  <2> HIDE DEF r
  <2>3. f[sess[s].key] <= cache[sess[s].key] /\ sess[s].floor <= f[sess[s].key]
    BY <1>3, <2>1 DEF Served, Promises
  <2>4. sess[s].key \in Nat /\ sess[s].floor \in Nat /\ f[sess[s].key] \in Nat
    BY <1>2 DEF Session
  <2>5. Served(f, r)
    BY <2>1, <2>2, <2>3, <2>4 DEF Served
  <2>6. QED BY <1>1, <1>2, <2>2, <2>5, SessionStep
<1>9. CASE Miss(s)
  <2> DEFINE r == [sess[s] EXCEPT !.phase = "load"]
  <2>1. /\ r \in Session /\ r.phase = "load" /\ r.key = sess[s].key /\ r.floor = sess[s].floor
        /\ Becomes(s, r) /\ sess[s].phase = "get"
    BY <1>2, <1>9 DEF Miss, Session, In
  <2> HIDE DEF r
  <2>2. Served(f, r)
    BY <1>3, <2>1 DEF Served
  <2>3. QED BY <1>1, <1>2, <2>1, <2>2, SessionStep
<1>10. CASE Load(s)
  <2> DEFINE r == [sess[s] EXCEPT !.phase = "set", !.value = db]
  <2>1. /\ r \in Session /\ r.phase = "set" /\ r.key = sess[s].key /\ r.floor = sess[s].floor
        /\ r.value = db /\ Becomes(s, r) /\ sess[s].phase = "load" /\ r.key \in Nat
    BY <1>2, <1>10 DEF Load, Session, In
  <2> HIDE DEF r
  <2>2. f[r.key] <= f[version] /\ f[version] <= db
    BY <1>2, <1>3, <2>1 DEF Served, Promises
  <2>3. f[r.key] \in Nat /\ f[version] \in Nat
    BY <1>2, <2>1
  <2>4. Served(f, r)
    BY <1>2, <1>3, <2>1, <2>2, <2>3 DEF Served
  <2>5. QED BY <1>1, <1>2, <2>1, <2>4, SessionStep
<1>11. CASE StoreFails(s)
  <2>1. PICK r : r = [sess[s] EXCEPT !.phase = "reply"]
    OBVIOUS
  <2>2. /\ r \in Session /\ r.phase = "reply" /\ r.value = sess[s].value /\ r.floor = sess[s].floor
        /\ Becomes(s, r) /\ sess[s].phase = "set"
    BY <1>2, <1>11, <2>1 DEF StoreFails, Session, In
  <2>3. sess[s].floor <= f[sess[s].key] /\ f[sess[s].key] <= sess[s].value
    BY <1>3, <2>2 DEF Served
  <2>4. sess[s].floor \in Nat /\ f[sess[s].key] \in Nat /\ sess[s].value \in Nat
    BY <1>2 DEF Session
  <2>5. Served(f, r)
    BY <2>2, <2>3, <2>4 DEF Served
  <2>6. QED BY <1>1, <1>2, <2>2, <2>5, SessionStep
<1>12. QED BY <1>4, <1>5, <1>6, <1>7, <1>8, <1>9, <1>10, <1>11 DEF Reply, BumpFails, Crash

\* The store: the entry holds what its version promises.
LEMMA StoreInv ==
  ASSUME IInv, NEW s \in Sessions, Store(s)
  PROVE  IInv'
<1>1. PICK f \in [Nat -> Nat] : Kept(f)
  BY DEF IInv
<1>2. PICK r : r = [sess[s] EXCEPT !.phase = "reply"]
  OBVIOUS
<1>3. /\ TypeOK /\ sess[s] \in Session /\ UNCHANGED <<db, version, answered>>
      /\ sess[s].phase = "set" /\ Becomes(s, r)
  BY <1>2 DEF IInv, TypeOK, Store, In
<1> DEFINE k == sess[s].key
<1> DEFINE v == sess[s].value
<1>4. k \in Nat /\ v \in Nat /\ k <= version /\ f[k] <= v /\ sess[s].floor <= f[k]
      /\ sess[s].floor \in Nat /\ f[k] \in Nat
  BY <1>1, <1>3 DEF Kept, Served, Session
<1>5. r \in Session /\ r.phase = "reply" /\ r.value = v /\ r.floor = sess[s].floor
  BY <1>2, <1>3 DEF Session
<1>6. cache' = [j \in DOMAIN cache \cup {k} |-> IF j = k THEN v ELSE cache[j]]
  BY DEF Store
<1> HIDE DEF k, v
<1>7. /\ DOMAIN cache' = DOMAIN cache \cup {k} /\ cache'[k] = v
      /\ \A j \in DOMAIN cache \ {k} : cache'[j] = cache[j]
  BY <1>6
<1>8. /\ sess' \in [Sessions -> Session] /\ sess'[s] = r
      /\ \A t \in Sessions \ {s} : sess'[t] = sess[t]
  BY <1>3, <1>5, BecomesType DEF TypeOK
<1>9. TypeOK'
  BY <1>3, <1>4, <1>7, <1>8 DEF TypeOK
<1>10. \A j \in DOMAIN cache' : j <= version /\ f[j] <= cache'[j]
  BY <1>1, <1>4, <1>7 DEF Kept, Promises
<1>11. Promises(f)'
  BY <1>1, <1>3, <1>10 DEF Kept, Promises
<1>12. Served(f, r)
  BY <1>4, <1>5 DEF Served
<1>13. \A t \in Sessions : Served(f, sess'[t])
  BY <1>1, <1>8, <1>12 DEF Kept
<1>14. (\A t \in Sessions : Served(f, sess[t]))'
  BY <1>3, <1>13 DEF Served
<1>15. QED BY <1>9, <1>11, <1>14 DEF IInv, Kept

LEMMA ExpireInv ==
  ASSUME IInv, NEW k \in DOMAIN cache, Expire(k)
  PROVE  IInv'
<1>1. PICK f \in [Nat -> Nat] : Kept(f)
  BY DEF IInv
<1>2. /\ cache' = [j \in DOMAIN cache \ {k} |-> cache[j]] /\ UNCHANGED <<db, version, sess, answered>>
  BY DEF Expire
<1>3. DOMAIN cache' \subseteq DOMAIN cache /\ \A j \in DOMAIN cache' : cache'[j] = cache[j]
  BY <1>2
<1>4. TypeOK'
  BY <1>2, <1>3 DEF IInv, TypeOK
<1>5. Kept(f)'
  BY <1>1, <1>2, <1>3 DEF Kept, Promises, Served
<1>6. QED BY <1>1, <1>4, <1>5 DEF IInv

\* A change is promised to nobody until its bump.
LEMMA ChangeInv ==
  ASSUME IInv, NEW s \in Sessions, Change(s)
  PROVE  IInv'
<1>1. PICK f \in [Nat -> Nat] : Kept(f)
  BY DEF IInv
<1> DEFINE r == [IdleSession EXCEPT !.phase = "bump", !.value = db + 1]
<1>2. /\ TypeOK /\ db \in Nat /\ version \in Nat /\ answered \in Nat
      /\ db' = db + 1 /\ UNCHANGED <<version, cache, answered>>
  BY DEF IInv, TypeOK, Change
<1>3. r \in Session /\ r.phase = "bump" /\ r.value = db + 1 /\ Becomes(s, r)
  <2>1. db + 1 \in Nat /\ Becomes(s, r)
    BY <1>2 DEF Change
  <2>2. QED BY <2>1 DEF IdleSession, Session
<1> HIDE DEF r
<1>4. /\ sess' \in [Sessions -> Session] /\ sess'[s] = r
      /\ \A t \in Sessions \ {s} : sess'[t] = sess[t]
  BY <1>2, <1>3, BecomesType DEF TypeOK
<1>5. TypeOK'
  BY <1>2, <1>4 DEF TypeOK
<1>6. f[version] \in Nat /\ f[version] <= db
  BY <1>1, <1>2 DEF Kept, Promises
<1>7. f[version] <= db + 1
  BY <1>2, <1>6
<1>8. Promises(f)'
  BY <1>1, <1>2, <1>7 DEF Kept, Promises
<1>9. ASSUME NEW t \in Sessions PROVE Served(f, sess[t])'
  <2>1. CASE t = s
    BY <1>2, <1>3, <1>4, <2>1 DEF Served
  <2>2. CASE t # s
    <3>1. sess'[t] = sess[t] /\ sess[t] \in Session /\ Served(f, sess[t])
      BY <1>1, <1>2, <1>4, <2>2 DEF Kept, TypeOK
    <3>2. sess[t].phase = "bump" => sess[t].value <= db + 1
      BY <1>2, <3>1 DEF Served, Session
    <3>3. QED BY <1>2, <3>1, <3>2 DEF Served
  <2>3. QED BY <2>1, <2>2
<1>10. QED BY <1>1, <1>5, <1>8, <1>9 DEF IInv, Kept

\* The bump begins a version that promises this change too.
LEMMA BumpInv ==
  ASSUME IInv, NEW s \in Sessions, Bump(s)
  PROVE  IInv'
<1>1. PICK f \in [Nat -> Nat] : Kept(f)
  BY DEF IInv
<1>2. PICK r : r = [sess[s] EXCEPT !.phase = "done"]
  OBVIOUS
<1>3. /\ TypeOK /\ sess[s] \in Session /\ sess[s].phase = "bump" /\ Becomes(s, r)
      /\ db \in Nat /\ version \in Nat /\ answered \in Nat
      /\ version' = version + 1 /\ UNCHANGED <<db, cache, answered>>
  BY <1>2 DEF IInv, TypeOK, Bump, In
<1>4. r \in Session /\ r.phase = "done" /\ r.value = sess[s].value /\ r.value \in Nat
  BY <1>2, <1>3 DEF Session
<1>5. /\ sess' \in [Sessions -> Session] /\ sess'[s] = r
      /\ \A t \in Sessions \ {s} : sess'[t] = sess[t]
  BY <1>3, <1>4, BecomesType DEF TypeOK
<1>6. TypeOK'
  BY <1>3, <1>5 DEF TypeOK
<1>7. /\ f[version] \in Nat /\ f[version] <= db /\ r.value <= db /\ answered <= f[version]
      /\ \A i, j \in Nat : i <= j /\ j <= version => f[i] <= f[j]
  BY <1>1, <1>3, <1>4 DEF Kept, Promises, Served
<1> DEFINE top == Later(f[version], r.value)
<1>8. top \in Nat /\ f[version] <= top /\ r.value <= top /\ top <= db
  BY <1>4, <1>7 DEF Later
<1> HIDE DEF top
<1>9. PICK g \in [Nat -> Nat] :
        /\ \A i \in Nat : i <= version => g[i] = f[i]
        /\ g[version + 1] = top /\ g[0] = f[0] /\ g[version] = f[version]
  <2> DEFINE h == [i \in Nat |-> IF i <= version THEN f[i] ELSE top]
  <2>1. /\ h \in [Nat -> Nat] /\ \A i \in Nat : i <= version => h[i] = f[i]
        /\ h[version + 1] = top /\ h[0] = f[0] /\ h[version] = f[version]
    BY <1>3, <1>8
  <2> HIDE DEF h
  <2>2. QED BY <2>1
<1>10. \A i, j \in Nat : i <= j /\ j <= version + 1 => g[i] <= g[j]
  <2> SUFFICES ASSUME NEW i \in Nat, NEW j \in Nat, i <= j, j <= version + 1 PROVE g[i] <= g[j]
    OBVIOUS
  <2>1. CASE j <= version
    BY <1>3, <1>7, <1>9, <2>1
  <2>2. CASE j = version + 1 /\ i <= version
    <3>1. f[i] <= f[version] /\ f[i] \in Nat /\ g[i] = f[i] /\ g[j] = top
      BY <1>3, <1>7, <1>9, <2>2
    <3>2. QED BY <1>7, <1>8, <3>1
  <2>3. CASE j = version + 1 /\ i = version + 1
    BY <1>8, <1>9, <2>3
  <2>4. QED BY <1>3, <2>1, <2>2, <2>3
<1>11. answered <= top
  BY <1>3, <1>7, <1>8
<1>12. Promises(g)'
  <2>1. \A k \in DOMAIN cache : k \in Nat /\ k <= version /\ f[k] <= cache[k]
    BY <1>1, <1>3 DEF Kept, Promises, TypeOK
  <2>2. \A k \in DOMAIN cache : k <= version + 1 /\ g[k] <= cache[k]
    BY <1>3, <1>9, <2>1
  <2>3. f[0] = 0
    BY <1>1 DEF Kept, Promises
  <2>4. QED BY <1>3, <1>8, <1>9, <1>10, <1>11, <2>2, <2>3 DEF Promises
<1>13. ASSUME NEW t \in Sessions PROVE Served(g, sess[t])'
  <2>1. CASE t = s
    BY <1>3, <1>4, <1>5, <1>8, <1>9, <2>1 DEF Served
  <2>2. CASE t # s
    <3>1. /\ sess'[t] = sess[t] /\ sess[t].floor \in Nat /\ sess[t].key \in Nat
          /\ sess[t].value \in Nat /\ Served(f, sess[t])
      BY <1>1, <1>3, <1>5, <2>2 DEF Kept, TypeOK, Session
    <3>2. /\ sess[t].phase = "version" => sess[t].floor <= top
          /\ sess[t].phase = "done" => sess[t].value <= top
      BY <1>7, <1>8, <3>1 DEF Served
    <3>3. sess[t].phase \in {"get", "load", "set"} =>
            /\ sess[t].key <= version + 1 /\ sess[t].floor <= g[sess[t].key]
            /\ sess[t].phase = "set" => g[sess[t].key] <= sess[t].value
      BY <1>3, <1>9, <3>1 DEF Served
    <3>4. QED BY <1>3, <1>9, <3>1, <3>2, <3>3 DEF Served
  <2>3. QED BY <2>1, <2>2
<1>14. QED BY <1>6, <1>9, <1>12, <1>13 DEF IInv, Kept

LEMMA DoneInv ==
  ASSUME IInv, NEW s \in Sessions, Done(s)
  PROVE  IInv'
<1>1. PICK f \in [Nat -> Nat] : Kept(f)
  BY DEF IInv
<1>2. /\ TypeOK /\ sess[s] \in Session /\ sess[s].phase = "done" /\ Becomes(s, IdleSession)
      /\ version \in Nat /\ answered \in Nat /\ sess[s].value \in Nat
      /\ answered' = Later(answered, sess[s].value) /\ UNCHANGED <<db, version, cache>>
  BY DEF IInv, TypeOK, Done, In, Session
<1>3. IdleSession \in Session /\ IdleSession.phase = "idle"
  BY DEF IdleSession, Session
<1>4. /\ sess' \in [Sessions -> Session] /\ sess'[s] = IdleSession
      /\ \A t \in Sessions \ {s} : sess'[t] = sess[t]
  BY <1>2, <1>3, BecomesType DEF TypeOK
<1>5. answered' \in Nat /\ answered' <= f[version]
  BY <1>1, <1>2 DEF Kept, Promises, Served, Later
<1>6. TypeOK'
  BY <1>2, <1>4, <1>5 DEF TypeOK
<1>7. Promises(f)'
  BY <1>1, <1>2, <1>5 DEF Kept, Promises
<1>8. (\A t \in Sessions : Served(f, sess[t]))'
  BY <1>1, <1>2, <1>3, <1>4 DEF Kept, Served
<1>9. QED BY <1>6, <1>7, <1>8 DEF IInv, Kept

LEMMA NextInv == IInv /\ [Next]_vars => IInv'
<1> SUFFICES ASSUME IInv, [Next]_vars PROVE IInv' OBVIOUS
<1>1. ASSUME NEW s \in Sessions, StartRead(s) \/ Change(s) \/ Progress(s) \/ Crash(s)
      PROVE  IInv'
  BY <1>1, ReadInv, StoreInv, ChangeInv, BumpInv, DoneInv DEF Progress
<1>2. ASSUME NEW k \in DOMAIN cache, Expire(k)
      PROVE  IInv'
  BY <1>2, ExpireInv
<1>3. CASE UNCHANGED vars
  BY <1>3 DEF vars, IInv, TypeOK, Kept, Promises, Served
<1>4. QED BY <1>1, <1>2, <1>3 DEF Next

-----------------------------------------------------------------------------
(* The theorems. *)

\* Every variable keeps its type.
THEOREM CatalogTypes == Spec => []TypeOK
<1>1. IInv => TypeOK BY DEF IInv
<1>2. QED BY <1>1, InitInv, NextInv, PTL DEF Spec

\* A list shows every change that was announced and answered before it was asked
\* for, for any number of readers and changes.
THEOREM FreshKept == Spec => []Fresh
<1>1. IInv => Fresh
  <2> SUFFICES ASSUME IInv, NEW s \in Sessions, In(s, "reply") PROVE sess[s].value >= sess[s].floor
    BY DEF Fresh
  <2>1. sess[s].floor <= sess[s].value
    BY DEF IInv, Kept, Served, In
  <2>2. sess[s].floor \in Nat /\ sess[s].value \in Nat
    BY DEF IInv, TypeOK, Session
  <2>3. QED BY <2>1, <2>2
<1>2. QED BY <1>1, InitInv, NextInv, PTL DEF Spec

-----------------------------------------------------------------------------
(* What Converges needs of the steps, without fairness: old entries come   *)
(* only from the readers that loaded before the last change.               *)

LEMMA StaleStep ==
  ASSUME TypeOK, Next, db' = db
  PROVE  StaleShrinks /\ StaleStoredOnce
<1>1. sess \in [Sessions -> Session]
  BY DEF TypeOK
<1>2. ASSUME NEW s \in Sessions, NEW r \in Session, Becomes(s, r),
             r.phase # "set" \/ r.value = db
      PROVE  StaleReaders' = StaleReaders \ {s}
  BY <1>1, <1>2, BecomesType DEF StaleReaders, In
<1>3. ASSUME NEW s \in Sessions, NEW r \in Session, Becomes(s, r),
             r.phase # "set" \/ r.value = db, cache' = cache
      PROVE  StaleShrinks /\ StaleStoredOnce
  BY <1>2, <1>3 DEF StaleShrinks, StaleStoredOnce, StaleKeys
<1>4. ASSUME NEW s \in Sessions, StartRead(s) \/ Change(s) \/ Progress(s) \/ Crash(s)
      PROVE  StaleShrinks /\ StaleStoredOnce
  <2>1. sess[s] \in Session /\ IdleSession \in Session /\ IdleSession.phase = "idle"
    BY <1>1 DEF IdleSession, Session
  <2>2. ~Change(s)
    BY DEF Change, TypeOK
  <2>3. CASE Becomes(s, IdleSession) /\ cache' = cache
    BY <1>3, <2>1, <2>3
  <2>4. CASE StartRead(s)
    <3>1. PICK r \in Session : r = [IdleSession EXCEPT !.phase = "version", !.floor = answered]
      BY DEF TypeOK, IdleSession, Session
    <3>2. r.phase = "version" /\ Becomes(s, r) /\ cache' = cache
      BY <2>4, <3>1 DEF StartRead, IdleSession
    <3>3. QED BY <1>3, <3>2
  <2>5. CASE ReadVersion(s) \/ ReadVersionFails(s)
    <3>1. PICK r \in Session : r.phase = "get" /\ Becomes(s, r) /\ cache' = cache
      BY <2>1, <2>5 DEF ReadVersion, ReadVersionFails, TypeOK, Session
    <3>2. QED BY <1>3, <3>1
  <2>6. CASE Hit(s)
    <3>1. sess[s].key \in DOMAIN cache /\ cache[sess[s].key] \in Nat
      BY <2>6 DEF Hit, TypeOK
    <3>2. PICK r \in Session : r.phase = "reply" /\ Becomes(s, r) /\ cache' = cache
      BY <2>1, <2>6, <3>1 DEF Hit, Session
    <3>3. QED BY <1>3, <3>2
  <2>7. CASE Miss(s) \/ StoreFails(s) \/ Bump(s)
    <3>1. PICK r \in Session : r.phase # "set" /\ Becomes(s, r) /\ cache' = cache
      BY <2>1, <2>7 DEF Miss, StoreFails, Bump, Session
    <3>2. QED BY <1>3, <3>1
  <2>8. CASE Load(s)
    <3>1. PICK r \in Session : r.value = db /\ Becomes(s, r) /\ cache' = cache
      BY <2>1, <2>8 DEF Load, TypeOK, Session
    <3>2. QED BY <1>3, <3>1
  <2>9. CASE Store(s)
    <3>1. PICK r \in Session : r.phase = "reply" /\ Becomes(s, r)
      BY <2>1, <2>9 DEF Store, Session
    <3>2. StaleReaders' = StaleReaders \ {s}
      BY <1>2, <3>1
    <3>3. CASE sess[s].value = db
      <4>1. StaleKeys' \subseteq StaleKeys
        BY <2>9, <3>3 DEF Store, StaleKeys
      <4>2. QED BY <3>2, <4>1 DEF StaleShrinks, StaleStoredOnce
    <3>4. CASE sess[s].value # db
      <4>1. s \in StaleReaders
        BY <2>9, <3>4 DEF Store, StaleReaders
      <4>2. QED BY <3>2, <4>1 DEF StaleShrinks, StaleStoredOnce
    <3>5. QED BY <3>3, <3>4
  <2>10. QED BY <1>4, <2>2, <2>3, <2>4, <2>5, <2>6, <2>7, <2>8, <2>9
           DEF Progress, Reply, BumpFails, Done, Crash
<1>5. ASSUME NEW k \in DOMAIN cache, Expire(k)
      PROVE  StaleShrinks /\ StaleStoredOnce
  BY <1>5 DEF Expire, StaleShrinks, StaleStoredOnce, StaleKeys, StaleReaders, In
<1>6. QED BY <1>4, <1>5 DEF Next

\* While the catalogue stays as it is, no reader becomes one that is about to store an old
\* list, and each that is puts at most one old entry back before it is none: after as many
\* stores as there are requests only the times to live are left to wait for.
THEOREM StaleRunsOut == Spec => OldListsRunOut
<1>1. TypeOK /\ [Next]_vars => [db' = db => StaleShrinks /\ StaleStoredOnce]_vars
  BY StaleStep
<1>2. QED BY <1>1, CatalogTypes, PTL DEF Spec, OldListsRunOut

=============================================================================
