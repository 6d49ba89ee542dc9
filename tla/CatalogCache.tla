---------------------------- MODULE CatalogCache ----------------------------
(***************************************************************************)
(* The Redis cache of the public catalogue: GET /events and GET            *)
(* /categories read through it, under a key that holds the catalogue's     *)
(* version, and the routes that change events and categories increment     *)
(* that version after their commit.  Every await is a step of its own, and *)
(* any call to Redis may fail.  The catalogue is the number of changes     *)
(* committed so far; one query is modelled, the keys of the others are     *)
(* independent.                                                            *)
(***************************************************************************)
EXTENDS Naturals

CONSTANTS
  Sessions,      \* requests served concurrently
  Faults,        \* the calls to Redis that may fail
  MaxChanges     \* bound on the changes to the catalogue

ASSUME BoundsAssumption ==
  MaxChanges \in Nat /\ Faults \subseteq {"version", "get", "set", "bump"}

VARIABLES
  db,        \* the catalogue in Postgres: how many changes it holds
  version,   \* PUBLIC_CATALOG_CACHE_VERSION_KEY, 0 when there is none
  cache,     \* the entries, by the version in their key
  sess,      \* what each session is doing
  answered   \* history: the last change announced (its bump succeeded) and answered

vars == <<db, version, cache, sess, answered>>

Session == [phase : {"idle", "version", "get", "load", "set", "reply", "bump", "done"},
            floor : Nat, key : Nat, value : Nat]
IdleSession == [phase |-> "idle", floor |-> 0, key |-> 0, value |-> 0]

TypeOK ==
  /\ db \in Nat /\ version \in Nat /\ answered \in Nat
  /\ DOMAIN cache \subseteq Nat /\ \A k \in DOMAIN cache : cache[k] \in Nat
  /\ sess \in [Sessions -> Session]

Init ==
  /\ db = 0 /\ version = 0 /\ answered = 0
  /\ cache = [k \in {} |-> 0]
  /\ sess = [s \in Sessions |-> IdleSession]

In(s, phase) == sess[s].phase = phase
Becomes(s, r) == sess' = [sess EXCEPT ![s] = r]
Later(n, m) == IF n < m THEN m ELSE n

-----------------------------------------------------------------------------
(* Reading: listPublicEvents and listPublicCategories. *)

\* What was answered before the request came is what it must show.
StartRead(s) ==
  /\ In(s, "idle")
  /\ Becomes(s, [IdleSession EXCEPT !.phase = "version", !.floor = answered])
  /\ UNCHANGED <<db, version, cache, answered>>

\* getPublicCatalogVersion
ReadVersion(s) ==
  /\ In(s, "version")
  /\ Becomes(s, [sess[s] EXCEPT !.phase = "get", !.key = version])
  /\ UNCHANGED <<db, version, cache, answered>>

\* It answers "0" when Redis fails: the list may then be one of any age, and
\* nothing is expected of it.
ReadVersionFails(s) ==
  /\ "version" \in Faults /\ In(s, "version")
  /\ Becomes(s, [sess[s] EXCEPT !.phase = "get", !.key = 0, !.floor = 0])
  /\ UNCHANGED <<db, version, cache, answered>>

\* Mutated form: a hit stores its entry again, to prolong its time to live.
Hit_Prolongs(s) ==
  /\ In(s, "get") /\ sess[s].key \in DOMAIN cache
  /\ Becomes(s, [sess[s] EXCEPT !.phase = "set", !.value = cache[sess[s].key]])
  /\ UNCHANGED <<db, version, cache, answered>>
\* getReadThroughJson: a hit is the answer; a miss or a failure loads.
Hit(s) ==
  /\ In(s, "get") /\ sess[s].key \in DOMAIN cache
  /\ Becomes(s, [sess[s] EXCEPT !.phase = "reply", !.value = cache[sess[s].key]])
  /\ UNCHANGED <<db, version, cache, answered>>

Miss(s) ==
  /\ In(s, "get") /\ ("get" \in Faults \/ sess[s].key \notin DOMAIN cache)
  /\ Becomes(s, [sess[s] EXCEPT !.phase = "load"])
  /\ UNCHANGED <<db, version, cache, answered>>

Load(s) ==
  /\ In(s, "load")
  /\ Becomes(s, [sess[s] EXCEPT !.phase = "set", !.value = db])
  /\ UNCHANGED <<db, version, cache, answered>>

\* Mutated form: the entry is stored under the version of the moment.
Store_Now(s) ==
  /\ In(s, "set")
  /\ cache' = [k \in DOMAIN cache \cup {version} |->
                 IF k = version THEN sess[s].value ELSE cache[k]]
  /\ Becomes(s, [sess[s] EXCEPT !.phase = "reply"])
  /\ UNCHANGED <<db, version, answered>>
Store(s) ==
  /\ In(s, "set")
  /\ cache' = [k \in DOMAIN cache \cup {sess[s].key} |->
                 IF k = sess[s].key THEN sess[s].value ELSE cache[k]]
  /\ Becomes(s, [sess[s] EXCEPT !.phase = "reply"])
  /\ UNCHANGED <<db, version, answered>>

StoreFails(s) ==
  /\ "set" \in Faults /\ In(s, "set")
  /\ Becomes(s, [sess[s] EXCEPT !.phase = "reply"])
  /\ UNCHANGED <<db, version, cache, answered>>

Reply(s) ==
  /\ In(s, "reply")
  /\ Becomes(s, IdleSession)
  /\ UNCHANGED <<db, version, cache, answered>>

\* Mutated form: entries are stored without a time to live.
Perishable_Not == {}
Perishable == DOMAIN cache

\* The time to live of an entry ends.
Expire(k) ==
  /\ k \in Perishable
  /\ cache' = [j \in DOMAIN cache \ {k} |-> cache[j]]
  /\ UNCHANGED <<db, version, sess, answered>>

-----------------------------------------------------------------------------
(* Changing: the routes of events, categories and admin/events. *)

Change(s) ==
  /\ In(s, "idle") /\ db < MaxChanges
  /\ db' = db + 1
  /\ Becomes(s, [IdleSession EXCEPT !.phase = "bump", !.value = db + 1])
  /\ UNCHANGED <<version, cache, answered>>

\* bumpPublicCatalogVersion
Bump(s) ==
  /\ In(s, "bump")
  /\ version' = version + 1
  /\ Becomes(s, [sess[s] EXCEPT !.phase = "done"])
  /\ UNCHANGED <<db, cache, answered>>

\* An error is swallowed: the change is answered all the same, and announced
\* by a later bump or by the end of the entries' time to live.
BumpFails(s) ==
  /\ "bump" \in Faults /\ In(s, "bump")
  /\ Becomes(s, IdleSession)
  /\ UNCHANGED <<db, version, cache, answered>>

Done(s) ==
  /\ In(s, "done")
  /\ answered' = Later(answered, sess[s].value)
  /\ Becomes(s, IdleSession)
  /\ UNCHANGED <<db, version, cache>>

\* The process dies, or the admin's audit insert fails after the commit.
Crash(s) ==
  ~In(s, "idle") /\ Becomes(s, IdleSession) /\ UNCHANGED <<db, version, cache, answered>>

Progress(s) ==
  \/ ReadVersion(s) \/ ReadVersionFails(s) \/ Hit(s) \/ Miss(s) \/ Load(s) \/ Store(s) \/ StoreFails(s) \/ Reply(s)
  \/ Bump(s) \/ BumpFails(s) \/ Done(s)

Next ==
  \/ \E s \in Sessions : StartRead(s) \/ Change(s) \/ Progress(s) \/ Crash(s)
  \/ \E k \in DOMAIN cache : Expire(k)

Spec == Init /\ [][Next]_vars

\* Requests are served and the time to live of an entry ends.
Fairness ==
  /\ \A s \in Sessions : WF_vars(Progress(s))
  /\ \A k \in 0 .. MaxChanges : WF_vars(Expire(k))

FairSpec == Spec /\ Fairness

-----------------------------------------------------------------------------
(* What must hold. *)

\* A list shows every change whose bump succeeded and whose request was answered
\* before the list was asked for, whatever reads were under way when the change was
\* made, whatever reads or writes of entries fail and whatever other bump is lost.
Fresh == \A s \in Sessions : In(s, "reply") => sess[s].value >= sess[s].floor

\* Whatever Redis does and whatever bump is lost, once the catalogue changes no
\* more the cache comes to hold nothing else.
Converges == <>[](\A k \in DOMAIN cache : cache[k] = db)

\* The requests about to store an old list, and the entries that hold one.
StaleReaders == {s \in Sessions : In(s, "set") /\ sess[s].value # db}
StaleKeys == {k \in DOMAIN cache : cache[k] # db}

StaleShrinks == StaleReaders' \subseteq StaleReaders
StaleStoredOnce == StaleKeys' \subseteq StaleKeys \/ StaleReaders' # StaleReaders

\* While the catalogue stays as it is, no request becomes one that is about to store an
\* old list, and one that is puts an old entry back only by being none any more: an old
\* list never feeds the cache again, so only times to live are left to wait for.
OldListsRunOut == [][db' = db => StaleShrinks /\ StaleStoredOnce]_vars

=============================================================================
