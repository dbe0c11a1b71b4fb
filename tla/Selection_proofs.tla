--------------------------- MODULE Selection_proofs ---------------------------
(***************************************************************************)
(* What failover invocations rely on when they choose a profile, for any   *)
(* profiles, pools, invocations, status and routing commands, clocks and   *)
(* answers of the provider.                                                *)
(*                                                                         *)
(* The invariant SelectionInv has a part for each of the three things the  *)
(* selection reads: the entries of the cache with the signals and the      *)
(* exhaustions that reached them, the definitions with what an editor has  *)
(* verified, and the invocation's own evidence.  A second invariant,       *)
(* BoundsInv, adds to it what type correctness needs: every entry passes   *)
(* validate, every stamp is one of the clock, and no counter outgrows the  *)
(* profiles.                                                               *)
(***************************************************************************)
EXTENDS Selection, FiniteSetTheorems, TLAPS

------------------------------------------------------------------------------
(* The inductive invariant *)

(* An entry's fields, and what they say of each other.                      *)
IsEntry(e) ==
  /\ e = [availability |-> e.availability, source |-> e.source, usage |-> e.usage,
          observed_at |-> e.observed_at, latest_event_at |-> e.latest_event_at,
          expires_at |-> e.expires_at, required_at |-> e.required_at,
          failures |-> e.failures, next_refresh_at |-> e.next_refresh_at,
          last_failure |-> e.last_failure]
  /\ e.availability \in Snapshot \cup {"unsupported"}
  /\ e.observed_at \in Nat /\ e.latest_event_at \in Nat
  /\ e.expires_at \in Int /\ e.required_at \in Int
  /\ e.last_failure = "none" => e.observed_at = e.latest_event_at
  /\ e.availability = "exhausted" => e.expires_at = e.observed_at + FreshTtl

(* The latest event is no older than the last signal, and an exhausted      *)
(* entry no newer than the last exhaustion.                                 *)
EntryInStep(e, signal, exhaustion) ==
  \/ e = NoEntry /\ signal = Unset
  \/ /\ IsEntry(e)
     /\ signal <= e.latest_event_at
     /\ e.availability = "exhausted" => exhaustion >= e.observed_at

CacheInStep ==
  /\ cache = [p \in Profile |-> cache[p]]
  /\ signalled \in [Profile -> Int] /\ exhaustedAt \in [Profile -> Int]
  /\ \A p \in Profile : EntryInStep(cache[p], signalled[p], exhaustedAt[p])

SelectorType ==
  [pc : {"idle", "run", "signal", "revalidate", "trigger", "pool",
         "pick", "probe", "handoff", "done"},
   source : Profile \cup {0}, cooldown : SUBSET Profile,
   pool_id : Pool \cup {Free}, members : Seq(Profile),
   ended_revision : Nat, revision : Nat, signal_at : Int, trigger_at : Int,
   offset : Nat, probe_at : Int, read : Snapshot \cup Failure \cup {"none"},
   evidence_at : Int, exhausted : Nat, unknown : Nat, busy : Nat, cooled : Nat,
   outcome : {"none", "error", "exited", "Exhausted", "Busy", "AllUnknown", "NoEligible"}]

(* Where the pass over the pool is.                                         *)
CandidateOf(t) ==
  LET m == t.members
      i == CHOOSE i \in DOMAIN m : m[i] = t.source
  IN m[((i - 1 + t.offset) % Len(m)) + 1]

SelectorInStep(s, t) ==
  /\ t \in SelectorType
  /\ t.pc \notin {"idle", "done"} => t.source \in Profile
  /\ t.pc \in {"signal", "revalidate", "trigger"} => t.signal_at \in Nat
  /\ t.pc \in {"trigger", "probe"} => t.probe_at \in Nat
  /\ t.pc = "trigger" => t.read \in Snapshot
  /\ t.pc \in {"pool", "pick", "probe", "handoff"} => t.trigger_at >= t.signal_at
  /\ t.ended_revision <= defs.revision
  /\ t.pc \in {"pick", "probe", "handoff"} =>
       t.revision >= t.ended_revision /\ t.source \in Range(t.members)
  /\ t.pc \in {"probe", "handoff"} =>
       t.offset < Len(t.members) /\ lease[CandidateOf(t)] = s
  /\ t.pc = "handoff" =>
       /\ t.evidence_at >= t.trigger_at
       /\ t.read = "available" \/ t.evidence_at > t.probe_at

ObserverState ==
  {Idle, Ended}
    \cup [pc : {"read"}, profile : Profile]
    \cup [pc : {"stamp"}, profile : Profile, result : Snapshot \cup Failure]
    \cup [pc : {"record"}, profile : Profile, result : Snapshot \cup Failure, at : Nat]

Editing == [pc : {"edit"}, mutation : Mutation, revision : Nat, todo : SUBSET Profile]

(* What an editor still has to verify, or has verified and holds, where the *)
(* document is still the one it read.                                       *)
EditorInStep(e, t) ==
  t \in Editing =>
    /\ t.revision <= defs.revision /\ t.revision < MaxRevision
    /\ t.revision = defs.revision => ToVerify(defs, t.mutation) \subseteq t.todo \cup Holding(e)

SelectionInv ==
  /\ CacheInStep
  /\ IsDefinitions(defs) /\ Valid(defs)
  /\ lease \in [Profile -> Editor \cup Selector \cup Observer \cup {Free}]
  /\ clock \in Nat
  /\ selector \in [Selector -> SelectorType]
  /\ \A s \in Selector : SelectorInStep(s, selector[s])
  /\ observer \in [Observer -> ObserverState]
  /\ editor \in [Editor -> {Idle, Ended} \cup Editing]
  /\ \A e \in Editor : EditorInStep(e, editor[e])

------------------------------------------------------------------------------
(* Operators *)

LEMMA MaxOfTwo ==
  ASSUME NEW a \in Int, NEW b \in Int
  PROVE  Max({a, b}) \in Int /\ Max({a, b}) >= a /\ Max({a, b}) >= b
  <1>1. \E x \in {a, b} : \A y \in {a, b} : x >= y
    OBVIOUS
  <1>2. Max({a, b}) \in {a, b} /\ \A y \in {a, b} : Max({a, b}) >= y
    BY <1>1 DEF Max
  <1> QED BY <1>2

(* The candidate is a member of the pool. *)
LEMMA CandidateTyped ==
  ASSUME NEW t, t.members \in Seq(Profile), t.source \in Range(t.members), t.offset \in Nat
  PROVE  CandidateOf(t) \in Profile
  <1> DEFINE m == t.members
  <1> DEFINE i == CHOOSE i \in DOMAIN m : m[i] = t.source
  <1>1. i \in DOMAIN m
    BY DEF Range
  <1>2. Len(m) \in Nat /\ DOMAIN m = 1..Len(m) /\ i \in 1..Len(m)
    BY <1>1
  <1> HIDE DEF i
  <1>3. \A k \in Int, n \in Nat \ {0} : k % n \in 0..(n - 1)
    OBVIOUS
  <1>4. (i - 1 + t.offset) % Len(m) \in 0..(Len(m) - 1)
    <2>1. i - 1 + t.offset \in Int /\ Len(m) \in Nat \ {0}
      BY <1>2
    <2> QED BY <2>1, <1>3
  <1>5. ((i - 1 + t.offset) % Len(m)) + 1 \in 1..Len(m)
    BY <1>2, <1>4
  <1>6. m[((i - 1 + t.offset) % Len(m)) + 1] \in Profile
    BY <1>5
  <1> QED BY <1>6 DEF CandidateOf, i

LEMMA CandidateIs ==
  ASSUME NEW s \in Selector
  PROVE  Candidate(s) = CandidateOf(selector[s])
  BY DEF Candidate, CandidateOf

LEMMA ViewTells ==
  ASSUME NEW e, IsEntry(e) \/ e = NoEntry, NEW now \in Int, NEW view \in {"available", "exhausted"},
         View(e, now) = view
  PROVE  /\ IsEntry(e) /\ e.availability = view /\ e.last_failure = "none"
         /\ e.required_at < e.observed_at /\ ~Expired(e, now)
  BY DEF View, IsEntry

(* An event that is not out of order takes the entry's place. *)
LEMMA Replaced ==
  ASSUME CacheInStep, NEW p \in Profile, NEW at \in Nat, NEW entry, cache' = Replace(p, at, entry)
  PROVE  /\ cache' = [q \in Profile |-> cache'[q]]
         /\ \A q \in Profile \ {p} : cache'[q] = cache[q]
         /\ \/ /\ cache'[p] = cache[p] /\ cache[p] # NoEntry /\ IsEntry(cache[p])
               /\ at < cache[p].latest_event_at
            \/ /\ cache'[p] = entry
               /\ cache[p] # NoEntry => at >= cache[p].latest_event_at
  <1>1. cache[p] # NoEntry => IsEntry(cache[p])
    BY DEF CacheInStep, EntryInStep
  <1>2. cache[p] # NoEntry => cache[p].latest_event_at \in Nat
    BY <1>1 DEF IsEntry
  <1>3. CASE is_out_of_order(p, at)
    BY <1>1, <1>3 DEF Replace, is_out_of_order, CacheInStep
  <1>4. CASE ~is_out_of_order(p, at)
    <2>1. cache' = [cache EXCEPT ![p] = entry]
      BY <1>4 DEF Replace
    <2>2. cache = [q \in Profile |-> cache[q]]
      BY DEF CacheInStep
    <2>3. cache' = [q \in Profile |-> IF q = p THEN entry ELSE cache[q]]
      BY <2>1, <2>2
    <2>4. cache[p] # NoEntry => at >= cache[p].latest_event_at
      BY <1>2, <1>4 DEF is_out_of_order
    <2> QED BY <2>3, <2>4
  <1> QED BY <1>3, <1>4

(* What holds of one entry, where the histories of the others stay.         *)
LEMMA EntryStep ==
  ASSUME CacheInStep, NEW p \in Profile, cache' = [q \in Profile |-> cache'[q]],
         \A q \in Profile \ {p} : cache'[q] = cache[q],
         NEW signal \in Int, NEW exhaustion \in Int,
         signalled' = [signalled EXCEPT ![p] = signal],
         exhaustedAt' = [exhaustedAt EXCEPT ![p] = exhaustion],
         EntryInStep(cache'[p], signal, exhaustion)
  PROVE  CacheInStep'
  <1>1. /\ signalled' \in [Profile -> Int] /\ exhaustedAt' \in [Profile -> Int]
        /\ signalled'[p] = signal /\ exhaustedAt'[p] = exhaustion
        /\ \A q \in Profile \ {p} : signalled'[q] = signalled[q] /\ exhaustedAt'[q] = exhaustedAt[q]
    BY DEF CacheInStep
  <1>2. \A q \in Profile : EntryInStep(cache'[q], signalled'[q], exhaustedAt'[q])
    BY <1>1 DEF CacheInStep
  <1> QED BY <1>1, <1>2 DEF CacheInStep, EntryInStep, IsEntry

LEMMA NoEntryIsNone == ~IsEntry(NoEntry)
  BY DEF IsEntry, NoEntry, Snapshot

Fields(a, b, c, d, g, h, i, j, k, l) ==
  [availability |-> a, source |-> b, usage |-> c, observed_at |-> d, latest_event_at |-> g,
   expires_at |-> h, required_at |-> i, failures |-> j, next_refresh_at |-> k, last_failure |-> l]

LEMMA Exhausts ==
  ASSUME CacheInStep, NEW p \in Profile, NEW r, NEW at \in Nat, exhaustedAt' = Exhausting(p, r, at)
  PROVE  \E x \in Int : /\ exhaustedAt' = [exhaustedAt EXCEPT ![p] = x]
                        /\ x >= exhaustedAt[p] /\ (r = "exhausted" => x >= at)
  <1>1. exhaustedAt[p] \in Int /\ exhaustedAt \in [Profile -> Int]
    BY DEF CacheInStep
  <1>2. CASE r = "exhausted"
    <2>1. PICK x : x = Max({exhaustedAt[p], at})
      OBVIOUS
    <2>2. PICK a \in Int, b \in Int : a = exhaustedAt[p] /\ b = at
      BY <1>1
    <2>3. x \in Int /\ x >= a /\ x >= b
      <3>1. x = Max({a, b})
        BY <2>1, <2>2
      <3> QED BY <3>1, MaxOfTwo
    <2>4. exhaustedAt' = [exhaustedAt EXCEPT ![p] = x]
      BY <1>2, <2>1 DEF Exhausting
    <2> QED BY <2>2, <2>3, <2>4
  <1>3. CASE r # "exhausted"
    <2>1. PICK x \in Int : x = exhaustedAt[p]
      BY <1>1
    <2>2. exhaustedAt' = [exhaustedAt EXCEPT ![p] = x]
      BY <1>1, <1>3, <2>1 DEF Exhausting
    <2>3. x >= exhaustedAt[p]
      BY <2>1
    <2> QED BY <1>3, <2>2, <2>3
  <1> QED BY <1>2, <1>3

(* A snapshot is recorded: the entry is that snapshot, or one of a later    *)
(* event.                                                                   *)
LEMMA UsageStep ==
  ASSUME CacheInStep, NEW p \in Profile, NEW r \in Snapshot, NEW at \in Nat,
         cache' = observe_usage(p, r, at), UNCHANGED signalled, exhaustedAt' = Exhausting(p, r, at)
  PROVE  /\ CacheInStep' /\ IsEntry(cache'[p])
         /\ \/ cache'[p].availability = r
            \/ at < cache'[p].latest_event_at
         /\ cache'[p].availability = "exhausted" => exhaustedAt'[p] >= cache'[p].observed_at
  <1>1. PICK e : e = [availability |-> r, source |-> "read", usage |-> TRUE,
                      observed_at |-> at, latest_event_at |-> at,
                      expires_at |-> at + FreshTtl, required_at |-> Unset, failures |-> 0,
                      next_refresh_at |-> at + FreshTtl, last_failure |-> "none"]
    OBVIOUS
  <1>2. /\ IsEntry(e) /\ e.availability = r /\ e.observed_at = at /\ e.latest_event_at = at
    BY <1>1, UsageAssumption DEF IsEntry, Unset
  <1>3. cache' = Replace(p, at, e)
    BY <1>1 DEF observe_usage
  <1>4. PICK x \in Int : /\ exhaustedAt' = [exhaustedAt EXCEPT ![p] = x]
                         /\ x >= exhaustedAt[p] /\ (r = "exhausted" => x >= at)
    BY Exhausts
  <1>5. /\ signalled' = [signalled EXCEPT ![p] = signalled[p]] /\ signalled[p] \in Int
        /\ exhaustedAt[p] \in Int /\ exhaustedAt'[p] = x /\ EntryInStep(cache[p], signalled[p], exhaustedAt[p])
    BY <1>4 DEF CacheInStep
  <1>6. /\ cache' = [q \in Profile |-> cache'[q]]
        /\ \A q \in Profile \ {p} : cache'[q] = cache[q]
        /\ \/ /\ cache'[p] = cache[p] /\ cache[p] # NoEntry /\ IsEntry(cache[p])
              /\ at < cache[p].latest_event_at
           \/ /\ cache'[p] = e
              /\ cache[p] # NoEntry => at >= cache[p].latest_event_at
    BY <1>3, Replaced
  <1>7. CASE /\ cache'[p] = cache[p] /\ cache[p] # NoEntry /\ IsEntry(cache[p])
             /\ at < cache[p].latest_event_at
    <2>1. EntryInStep(cache'[p], signalled[p], x)
      BY <1>4, <1>5, <1>7 DEF EntryInStep, IsEntry
    <2>2. CacheInStep'
      BY <1>4, <1>5, <1>6, <2>1, EntryStep
    <2> QED BY <1>5, <1>7, <2>1, <2>2 DEF EntryInStep
  <1>8. CASE /\ cache'[p] = e
             /\ cache[p] # NoEntry => at >= cache[p].latest_event_at
    <2>1. signalled[p] <= at
      BY <1>5, <1>8, NoEntryIsNone DEF EntryInStep, IsEntry, Unset
    <2>2. EntryInStep(cache'[p], signalled[p], x)
      BY <1>2, <1>4, <1>8, <2>1 DEF EntryInStep
    <2>3. CacheInStep'
      BY <1>4, <1>5, <1>6, <2>2, EntryStep
    <2> QED BY <1>2, <1>4, <1>5, <1>8, <2>3
  <1> QED BY <1>6, <1>7, <1>8

(* A failed read is recorded: it leaves no fresh entry, but may keep one of *)
(* a later event.                                                           *)
LEMMA FailureStep ==
  ASSUME CacheInStep, NEW p \in Profile, NEW r \in Failure, NEW at \in Nat,
         cache' = observe_failure(p, r, at), UNCHANGED signalled, exhaustedAt' = Exhausting(p, r, at)
  PROVE  CacheInStep'
  <1>0. /\ exhaustedAt \in [Profile -> Int] /\ signalled \in [Profile -> Int]
        /\ EntryInStep(cache[p], signalled[p], exhaustedAt[p])
    BY DEF CacheInStep
  <1>1. exhaustedAt' = [exhaustedAt EXCEPT ![p] = exhaustedAt[p]]
    BY <1>0 DEF Exhausting, Failure
  <1>2. /\ signalled' = [signalled EXCEPT ![p] = signalled[p]] /\ signalled[p] \in Int
        /\ exhaustedAt[p] \in Int
    BY <1>0
  <1>3. PICK e : /\ cache' = Replace(p, at, e)
                 /\ \/ /\ cache[p] # NoEntry
                       /\ e = [cache[p] EXCEPT !.latest_event_at = at, !.required_at = Unset,
                                  !.failures = Failures(p), !.next_refresh_at = retry_at(at, Failures(p)),
                                  !.last_failure = r]
                    \/ e = [availability |-> IF r = "unsupported" THEN r ELSE "unknown",
                            source |-> "read", usage |-> FALSE, observed_at |-> at, latest_event_at |-> at,
                            expires_at |-> Unset, required_at |-> Unset, failures |-> Failures(p),
                            next_refresh_at |-> retry_at(at, Failures(p)), last_failure |-> r]
    BY DEF observe_failure
  <1>4. /\ IsEntry(e) /\ e.latest_event_at = at
        /\ e.availability = "exhausted" => exhaustedAt[p] >= e.observed_at
    <2>1. CASE e = [availability |-> IF r = "unsupported" THEN r ELSE "unknown",
                    source |-> "read", usage |-> FALSE, observed_at |-> at, latest_event_at |-> at,
                    expires_at |-> Unset, required_at |-> Unset, failures |-> Failures(p),
                    next_refresh_at |-> retry_at(at, Failures(p)), last_failure |-> r]
      BY <2>1 DEF IsEntry, Unset, Snapshot, Failure
    <2>2. ASSUME cache[p] # NoEntry, NEW f, NEW n, f = Failures(p), n = retry_at(at, Failures(p)),
                 e = [cache[p] EXCEPT !.latest_event_at = at, !.required_at = Unset,
                        !.failures = Failures(p), !.next_refresh_at = retry_at(at, Failures(p)),
                        !.last_failure = r]
          PROVE  /\ IsEntry(e) /\ e.latest_event_at = at
                 /\ e.availability = "exhausted" => exhaustedAt[p] >= e.observed_at
      <3>1. /\ IsEntry(cache[p])
            /\ cache[p].availability = "exhausted" => exhaustedAt[p] >= cache[p].observed_at
        BY <1>0, <2>2 DEF EntryInStep
      <3>2. e = [cache[p] EXCEPT !.latest_event_at = at, !.required_at = Unset,
                   !.failures = f, !.next_refresh_at = n, !.last_failure = r]
        BY <2>2
      <3>3. e = [availability |-> cache[p].availability, source |-> cache[p].source, usage |-> cache[p].usage,
                 observed_at |-> cache[p].observed_at, latest_event_at |-> at,
                 expires_at |-> cache[p].expires_at, required_at |-> Unset, failures |-> f,
                 next_refresh_at |-> n, last_failure |-> r]
        <4>1. PICK a, b, c, d, g, h, i, j, k, l : cache[p] = Fields(a, b, c, d, g, h, i, j, k, l)
          BY <3>1 DEF IsEntry, Fields
        <4>2. e = Fields(a, b, c, d, at, h, Unset, f, n, r)
          <5> DEFINE e1 == [cache[p] EXCEPT !.latest_event_at = at]
          <5> DEFINE e2 == [e1 EXCEPT !.required_at = Unset]
          <5> DEFINE e3 == [e2 EXCEPT !.failures = f]
          <5> DEFINE e4 == [e3 EXCEPT !.next_refresh_at = n]
          <5> DEFINE e5 == [e4 EXCEPT !.last_failure = r]
          <5>0. e = e5
            BY <3>2
          <5> HIDE DEF e5
          <5>1. e1 = Fields(a, b, c, d, at, h, i, j, k, l)
            BY <4>1 DEF Fields
          <5> HIDE DEF e1
          <5>2. e2 = Fields(a, b, c, d, at, h, Unset, j, k, l)
            BY <5>1 DEF Fields
          <5> HIDE DEF e2
          <5>3. e3 = Fields(a, b, c, d, at, h, Unset, f, k, l)
            BY <5>2 DEF Fields
          <5> HIDE DEF e3
          <5>4. e4 = Fields(a, b, c, d, at, h, Unset, f, n, l)
            BY <5>3 DEF Fields
          <5> HIDE DEF e4
          <5>5. e5 = Fields(a, b, c, d, at, h, Unset, f, n, r)
            BY <5>4 DEF Fields, e5
          <5> QED BY <5>0, <5>5
        <4> QED BY <4>1, <4>2 DEF Fields
      <3>4. r # "none"
        BY DEF Failure
      <3> QED BY <3>1, <3>3, <3>4 DEF IsEntry, Unset
    <2> QED BY <1>3, <2>1, <2>2
  <1>5. /\ cache' = [q \in Profile |-> cache'[q]]
        /\ \A q \in Profile \ {p} : cache'[q] = cache[q]
        /\ \/ /\ cache'[p] = cache[p] /\ cache[p] # NoEntry
              /\ at < cache[p].latest_event_at
           \/ /\ cache'[p] = e
              /\ cache[p] # NoEntry => at >= cache[p].latest_event_at
    BY <1>3, Replaced
  <1>6. CASE cache'[p] = cache[p]
    BY <1>0, <1>1, <1>2, <1>5, <1>6, EntryStep
  <1>7. CASE /\ cache'[p] = e
             /\ cache[p] # NoEntry => at >= cache[p].latest_event_at
    <2>1. signalled[p] <= at
      BY <1>0, <1>2, <1>7, NoEntryIsNone DEF EntryInStep, IsEntry, Unset
    <2>2. EntryInStep(cache'[p], signalled[p], exhaustedAt[p])
      BY <1>4, <1>7, <2>1 DEF EntryInStep
    <2> QED BY <1>1, <1>2, <1>5, <2>2, EntryStep
  <1> QED BY <1>5, <1>6, <1>7

(* A signal is recorded, or a later event is there already.                 *)
LEMMA SignalStep ==
  ASSUME CacheInStep, NEW p \in Profile, NEW at \in Nat, cache' = require_revalidation(p, at),
         signalled' = [signalled EXCEPT ![p] = at], UNCHANGED exhaustedAt
  PROVE  CacheInStep'
  <1>0. exhaustedAt' = [exhaustedAt EXCEPT ![p] = exhaustedAt[p]] /\ exhaustedAt[p] \in Int
        /\ EntryInStep(cache[p], signalled[p], exhaustedAt[p])
    BY DEF CacheInStep
  <1>1. PICK e : e = [availability |-> "unknown", source |-> "signal", usage |-> FALSE,
                      observed_at |-> at, latest_event_at |-> at,
                      expires_at |-> Unset, required_at |-> at, failures |-> 0,
                      next_refresh_at |-> at, last_failure |-> "none"]
    OBVIOUS
  <1>2. IsEntry(e) /\ e.availability = "unknown" /\ e.latest_event_at = at
    BY <1>1 DEF IsEntry, Unset, Snapshot
  <1>3. cache' = Replace(p, at, e)
    BY <1>1 DEF require_revalidation
  <1>4. /\ cache' = [q \in Profile |-> cache'[q]]
        /\ \A q \in Profile \ {p} : cache'[q] = cache[q]
        /\ \/ /\ cache'[p] = cache[p] /\ cache[p] # NoEntry /\ IsEntry(cache[p])
              /\ at < cache[p].latest_event_at
           \/ cache'[p] = e
    BY <1>3, Replaced
  <1>5. EntryInStep(cache'[p], at, exhaustedAt[p])
    <2>1. CASE cache'[p] = e
      BY <1>2, <2>1 DEF EntryInStep
    <2>2. CASE cache'[p] = cache[p] /\ cache[p] # NoEntry /\ at < cache[p].latest_event_at
      BY <1>0, <2>2 DEF EntryInStep, IsEntry
    <2> QED BY <1>4, <2>1, <2>2
  <1>6. at \in Int
    OBVIOUS
  <1> QED BY <1>0, <1>4, <1>5, <1>6, EntryStep

(* Whatever a read answered. *)
LEMMA ObserveStep ==
  ASSUME CacheInStep, NEW p \in Profile, NEW r \in Snapshot \cup Failure, NEW at \in Nat,
         cache' = Observe(p, r, at), UNCHANGED signalled, exhaustedAt' = Exhausting(p, r, at)
  PROVE  /\ CacheInStep'
         /\ r \notin Failure => cache' = observe_usage(p, r, at) /\ r \in Snapshot
  <1>1. CASE r \in Failure
    BY <1>1, FailureStep DEF Observe
  <1>2. CASE r \notin Failure
    BY <1>2, UsageStep DEF Observe
  <1> QED BY <1>1, <1>2

------------------------------------------------------------------------------
(* Mutations of the definitions *)

PoolRecord == [domain : Domain, active : BOOLEAN, members : Seq(Profile)]

Doc(r, x, q) == [revision |-> r, domains |-> x, pools |-> q]

LEMMA DocFields ==
  ASSUME NEW d, IsDefinitions(d), NEW f
  PROVE  /\ [d EXCEPT !.domains = f] = Doc(d.revision, f, d.pools)
         /\ [d EXCEPT !.pools = f] = Doc(d.revision, d.domains, f)
         /\ [d EXCEPT !.revision = f] = Doc(f, d.domains, d.pools)
  BY DEF IsDefinitions, Doc

LEMMA DocTyped ==
  ASSUME NEW r \in 0..MaxRevision, NEW x, NEW q,
         DOMAIN x \subseteq Domain, \A y \in DOMAIN x : x[y] \subseteq Profile,
         DOMAIN q \subseteq Pool, \A y \in DOMAIN q : q[y] \in PoolRecord
  PROVE  IsDefinitions(Doc(r, x, q))
  BY DEF IsDefinitions, Doc, PoolRecord

LEMMA RangeTyped ==
  ASSUME NEW l \in Seq(Profile)
  PROVE  Range(l) \subseteq Profile
  BY DEF Range

(* The pools that a mutation makes active are those it verifies.            *)
Activates(d, m, q) ==
  \A y \in DOMAIN q : q[y].active /\ ~(y \in DOMAIN d.pools /\ d.pools[y].active) =>
    Range(q[y].members) = ToVerify(d, m)

LEMMA MutationKinds ==
  ASSUME NEW m \in Mutation
  PROVE  \/ m.kind = "Rename"
         \/ m.kind = "RemoveDomain" /\ m.id \in Domain
         \/ m.kind \in {"RemovePool", "Disable", "Enable"} /\ m.id \in Pool
         \/ m.kind \in {"CreateDomain", "ReplaceDomainMembers"} /\ m.id \in Domain /\ m.members \in Seq(Profile)
         \/ m.kind = "CreatePool" /\ m.id \in Pool /\ m.domain \in Domain /\ m.members \in Seq(Profile)
         \/ m.kind = "ReplacePoolMembers" /\ m.id \in Pool /\ m.members \in Seq(Profile)
  <1>1. MemberList \subseteq Seq(Profile)
    BY RoutingAssumption
  <1>2. CASE m = [kind |-> "Rename"]
    BY <1>2
  <1>3. CASE m \in [kind : {"RemoveDomain"}, id : Domain]
    BY <1>3
  <1>4. CASE m \in [kind : {"RemovePool", "Disable", "Enable"}, id : Pool]
    BY <1>4
  <1>5. CASE m \in [kind : {"CreateDomain", "ReplaceDomainMembers"}, id : Domain, members : MemberList]
    BY <1>1, <1>5
  <1>6. CASE m \in [kind : {"CreatePool"}, id : Pool, domain : Domain, members : MemberList]
    BY <1>1, <1>6
  <1>7. CASE m \in [kind : {"ReplacePoolMembers"}, id : Pool, members : MemberList]
    BY <1>1, <1>7
  <1> QED BY <1>2, <1>3, <1>4, <1>5, <1>6, <1>7 DEF Mutation

(* A change of domains. *)
LEMMA DomainMutation ==
  ASSUME NEW d, IsDefinitions(d), NEW m \in Mutation,
         m.kind \in {"CreateDomain", "ReplaceDomainMembers", "RemoveDomain"},
         NEW n \in ApplyMutation(d, m)
  PROVE  \E x : /\ n = Doc(d.revision, x, d.pools)
                /\ DOMAIN x \subseteq Domain /\ \A y \in DOMAIN x : x[y] \subseteq Profile
  <1>1. /\ DOMAIN d.domains \subseteq Domain /\ \A y \in DOMAIN d.domains : d.domains[y] \subseteq Profile
        /\ DOMAIN d.pools \subseteq Pool /\ Domain \cap Pool = {}
    BY RoutingAssumption DEF IsDefinitions
  <1>2. m.id \in Domain /\ (m.kind # "RemoveDomain" => m.members \in Seq(Profile))
    BY MutationKinds
  <1>3. CASE m.kind = "CreateDomain"
    <2>1. PICK x : x = With(d.domains, m.id, Range(m.members))
      OBVIOUS
    <2>2. n = Doc(d.revision, x, d.pools)
      BY <1>3, <2>1, DocFields DEF ApplyMutation
    <2>3. DOMAIN x \subseteq Domain /\ \A y \in DOMAIN x : x[y] \subseteq Profile
      BY <1>1, <1>2, <1>3, <2>1, RangeTyped DEF With
    <2> QED BY <2>2, <2>3
  <1>4. CASE m.kind = "ReplaceDomainMembers"
    <2>1. PICK x : x = [d.domains EXCEPT ![m.id] = Range(m.members)]
      OBVIOUS
    <2>2. n = Doc(d.revision, x, d.pools)
      BY <1>4, <2>1, DocFields DEF ApplyMutation
    <2>3. DOMAIN x \subseteq Domain /\ \A y \in DOMAIN x : x[y] \subseteq Profile
      BY <1>1, <1>2, <1>4, <2>1, RangeTyped
    <2> QED BY <2>2, <2>3
  <1>5. CASE m.kind = "RemoveDomain"
    <2>1. PICK x : x = Without(d.domains, m.id)
      OBVIOUS
    <2>2. n = Doc(d.revision, x, d.pools)
      BY <1>5, <2>1, DocFields DEF ApplyMutation
    <2>3. DOMAIN x \subseteq Domain /\ \A y \in DOMAIN x : x[y] \subseteq Profile
      BY <1>1, <2>1 DEF Without
    <2> QED BY <2>2, <2>3
  <1> QED BY <1>3, <1>4, <1>5

(* A change of pools. *)
LEMMA PoolMutation ==
  ASSUME NEW d, IsDefinitions(d), NEW m \in Mutation,
         m.kind \in {"CreatePool", "ReplacePoolMembers", "RemovePool", "Enable", "Disable"},
         NEW n \in ApplyMutation(d, m)
  PROVE  \E q : /\ n = Doc(d.revision, d.domains, q)
                /\ DOMAIN q \subseteq Pool /\ \A y \in DOMAIN q : q[y] \in PoolRecord
                /\ Activates(d, m, q)
  <1>1. /\ DOMAIN d.domains \subseteq Domain
        /\ DOMAIN d.pools \subseteq Pool /\ Domain \cap Pool = {}
        /\ \A y \in DOMAIN d.pools : d.pools[y] \in PoolRecord
    BY RoutingAssumption DEF IsDefinitions, PoolRecord
  <1>2. /\ m.id \in Pool
        /\ m.kind \in {"CreatePool", "ReplacePoolMembers"} => m.members \in Seq(Profile)
        /\ m.kind = "CreatePool" => m.domain \in Domain
    BY MutationKinds
  <1>3. CASE m.kind = "CreatePool"
    <2>1. PICK r : r = [domain |-> m.domain, active |-> FALSE, members |-> m.members]
      OBVIOUS
    <2>2. PICK q : q = With(d.pools, m.id, r)
      OBVIOUS
    <2>3. n = Doc(d.revision, d.domains, q)
      BY <1>3, <2>1, <2>2, DocFields DEF ApplyMutation
    <2>4. r \in PoolRecord /\ r.active = FALSE
      BY <1>2, <1>3, <2>1 DEF PoolRecord
    <2>5. DOMAIN q \subseteq Pool /\ \A y \in DOMAIN q : q[y] \in PoolRecord
      BY <1>1, <1>2, <2>2, <2>4 DEF With
    <2>6. Activates(d, m, q)
      BY <2>2, <2>4 DEF Activates, With
    <2> QED BY <2>3, <2>5, <2>6
  <1>4. CASE m.kind = "RemovePool"
    <2>1. PICK q : q = Without(d.pools, m.id)
      OBVIOUS
    <2>2. n = Doc(d.revision, d.domains, q)
      BY <1>4, <2>1, DocFields DEF ApplyMutation
    <2>3. (DOMAIN q \subseteq Pool /\ \A y \in DOMAIN q : q[y] \in PoolRecord) /\ Activates(d, m, q)
      BY <1>1, <2>1 DEF Without, Activates
    <2> QED BY <2>2, <2>3
  <1>5. CASE m.kind \in {"ReplacePoolMembers", "Enable", "Disable"}
    <2>1. m.id \in DOMAIN d.pools
      BY <1>1, <1>2, <1>5 DEF ApplyMutation
    <2>2. PICK r : r = IF m.kind = "ReplacePoolMembers" THEN [d.pools[m.id] EXCEPT !.members = m.members]
                       ELSE [d.pools[m.id] EXCEPT !.active = (m.kind = "Enable")]
      OBVIOUS
    <2>3. PICK q : q = [d.pools EXCEPT ![m.id] = r]
      OBVIOUS
    <2>4. n = Doc(d.revision, d.domains, q)
      <3>1. CASE m.kind = "ReplacePoolMembers"
        <4>1. n = [d EXCEPT !.pools = [d.pools EXCEPT ![m.id].members = m.members]]
          BY <2>1, <3>1 DEF ApplyMutation
        <4>2. q = [d.pools EXCEPT ![m.id].members = m.members]
          BY <2>2, <2>3, <3>1
        <4> QED BY <4>1, <4>2, DocFields
      <3>2. CASE m.kind \in {"Enable", "Disable"}
        <4>1. n = [d EXCEPT !.pools = [d.pools EXCEPT ![m.id].active = (m.kind = "Enable")]]
          BY <2>1, <3>2 DEF ApplyMutation
        <4>2. q = [d.pools EXCEPT ![m.id].active = (m.kind = "Enable")]
          BY <2>2, <2>3, <3>2
        <4>3. n = [d EXCEPT !.pools = q]
          BY <4>1, <4>2, Zenon
        <4> QED BY <4>3, DocFields
      <3> QED BY <1>5, <3>1, <3>2
    <2>5. d.pools[m.id] \in PoolRecord
      BY <1>1, <2>1
    <2>6. r \in PoolRecord
      BY <1>2, <1>5, <2>2, <2>5 DEF PoolRecord
    <2>7. DOMAIN q \subseteq Pool /\ \A y \in DOMAIN q : q[y] \in PoolRecord
      BY <1>1, <2>3, <2>6
    <2>8. r.active /\ ~d.pools[m.id].active => m.kind = "Enable" /\ r.members = d.pools[m.id].members
      BY <1>5, <2>2, <2>5 DEF PoolRecord
    <2>9. m.kind = "Enable" => ToVerify(d, m) = Range(d.pools[m.id].members)
      BY DEF ToVerify
    <2>10. Activates(d, m, q)
      BY <2>1, <2>3, <2>8, <2>9 DEF Activates
    <2> QED BY <2>4, <2>7, <2>10
  <1> QED BY <1>3, <1>4, <1>5

(* An applied mutation leaves the document, or a valid one of the next      *)
(* revision.                                                                *)
LEMMA Applied ==
  ASSUME NEW d, IsDefinitions(d), Valid(d), d.revision < MaxRevision, NEW m \in Mutation, NEW n \in Apply(d, m)
  PROVE  /\ IsDefinitions(n) /\ Valid(n)
         /\ n = d \/ n.revision = d.revision + 1
         /\ Activates(d, m, n.pools)
  <1>1. PICK k \in ApplyMutation(d, m) :
          /\ Valid(k)
          /\ n = [k EXCEPT !.revision = IF k = d /\ m.kind # "Rename" THEN @ ELSE @ + 1]
    BY DEF Apply
  <1>2. /\ d.revision \in 0..MaxRevision /\ d = Doc(d.revision, d.domains, d.pools)
        /\ DOMAIN d.domains \subseteq Domain /\ \A y \in DOMAIN d.domains : d.domains[y] \subseteq Profile
        /\ DOMAIN d.pools \subseteq Pool /\ \A y \in DOMAIN d.pools : d.pools[y] \in PoolRecord
        /\ MaxRevision \in Nat
    BY RoutingAssumption DEF IsDefinitions, PoolRecord, Doc
  <1>3. PICK x, q :
          /\ k = Doc(d.revision, x, q)
          /\ DOMAIN x \subseteq Domain /\ \A y \in DOMAIN x : x[y] \subseteq Profile
          /\ DOMAIN q \subseteq Pool /\ \A y \in DOMAIN q : q[y] \in PoolRecord
          /\ Activates(d, m, q)
    <2>1. Activates(d, m, d.pools)
      BY DEF Activates
    <2>2. CASE m.kind = "Rename"
      <3>1. k = d
        BY <1>1, <2>2 DEF ApplyMutation
      <3> QED BY <1>2, <2>1, <3>1
    <2>3. CASE m.kind \in {"CreateDomain", "ReplaceDomainMembers", "RemoveDomain"}
      BY <1>2, <2>1, <2>3, DomainMutation
    <2>4. CASE m.kind \in {"CreatePool", "ReplacePoolMembers", "RemovePool", "Enable", "Disable"}
      BY <1>2, <2>4, PoolMutation
    <2> QED BY <2>2, <2>3, <2>4, MutationKinds
  <1>4. IsDefinitions(k)
    BY <1>2, <1>3, DocTyped
  <1>5. k.revision = d.revision /\ k.domains = x /\ k.pools = q
    BY <1>3 DEF Doc
  <1>6. PICK r \in {d.revision, d.revision + 1} :
          n = [k EXCEPT !.revision = r] /\ (r = d.revision => k = d)
    BY <1>1, <1>2, <1>5
  <1>7. n = Doc(r, x, q)
    BY <1>4, <1>5, <1>6, DocFields
  <1>8. r \in 0..MaxRevision /\ (r = d.revision => n = d)
    BY <1>2, <1>3, <1>6, <1>7
  <1>9. n.revision = r /\ n.domains = x /\ n.pools = q
    BY <1>7 DEF Doc
  <1>10. Valid(n)
    BY <1>1, <1>5, <1>9 DEF Valid
  <1>11. IsDefinitions(n)
    BY <1>3, <1>7, <1>8, DocTyped
  <1> QED BY <1>3, <1>6, <1>8, <1>9, <1>10, <1>11

------------------------------------------------------------------------------
(* Steps of one process *)

(* Leases that were free, or its own, move. *)
LeasesKept(x) ==
  /\ lease' \in [Profile -> Editor \cup Selector \cup Observer \cup {Free}]
  /\ \A p \in Profile : lease'[p] = lease[p] \/ lease[p] \in {Free, x}

LEMMA Releases ==
  ASSUME SelectionInv, NEW x, lease' = Released(x)
  PROVE  LeasesKept(x)
  BY DEF SelectionInv, LeasesKept, Released

LEMMA TakesLease ==
  ASSUME SelectionInv, NEW x \in Editor \cup Selector \cup Observer, NEW p \in Profile, lease[p] = Free,
         lease' = [lease EXCEPT ![p] = x]
  PROVE  LeasesKept(x) /\ lease'[p] = x
  BY DEF SelectionInv, LeasesKept

LEMMA LeasesStay ==
  ASSUME SelectionInv, NEW x, UNCHANGED lease
  PROVE  LeasesKept(x)
  BY DEF SelectionInv, LeasesKept

(* What a step leaves of the others. *)
LEMMA OtherSelectors ==
  ASSUME SelectionInv, NEW x, LeasesKept(x), NEW s \in Selector, s # x, selector'[s] = selector[s],
         defs'.revision \in Nat, defs'.revision >= defs.revision
  PROVE  SelectorInStep(s, selector[s])'
  <1>1. SelectorInStep(s, selector[s]) /\ selector[s] \in SelectorType /\ s # Free /\ defs.revision \in Nat
    BY RoutingAssumption, SelectionAssumption DEF SelectionInv, IsDefinitions
  <1>2. PICK t : t = selector[s] /\ t = selector'[s]
    OBVIOUS
  <1>3. t.pc \in {"probe", "handoff"} => CandidateOf(t) \in Profile
    BY <1>1, <1>2, CandidateTyped DEF SelectorInStep, SelectorType
  <1>4. t.pc \in {"probe", "handoff"} => lease'[CandidateOf(t)] = s
    BY <1>1, <1>2, <1>3 DEF SelectorInStep, LeasesKept
  <1>5. t.ended_revision <= defs'.revision
    BY <1>1, <1>2 DEF SelectorInStep, SelectorType
  <1>6. SelectorInStep(s, t)'
    BY <1>1, <1>2, <1>4, <1>5 DEF SelectorInStep
  <1> QED BY <1>2, <1>6

LEMMA OtherEditors ==
  ASSUME SelectionInv, NEW x, LeasesKept(x), NEW e \in Editor, e # x, editor'[e] = editor[e],
         defs' = defs
  PROVE  EditorInStep(e, editor[e])'
  <1>1. EditorInStep(e, editor[e]) /\ e # Free
    BY RoutingAssumption DEF SelectionInv
  <1>2. Holding(e) \subseteq Holding(e)'
    BY <1>1 DEF Holding, LeasesKept
  <1> QED BY <1>1, <1>2 DEF EditorInStep

LEMMA SelectStep ==
  ASSUME SelectionInv, NEW s \in Selector, NEW t, selector' = [selector EXCEPT ![s] = t],
         SelectorInStep(s, t)', LeasesKept(s), SQuiet, CacheInStep'
  PROVE  SelectionInv'
  <1>1. UNCHANGED <<defs, editor, clock, observer>> /\ defs.revision \in Nat
    BY RoutingAssumption DEF SQuiet, SelectionInv, IsDefinitions
  <1>2. /\ t \in SelectorType /\ selector' \in [Selector -> SelectorType] /\ selector'[s] = t
        /\ \A o \in Selector \ {s} : selector'[o] = selector[o]
    BY DEF SelectorInStep, SelectionInv
  <1>3. \A o \in Selector : SelectorInStep(o, selector[o])'
    <2> SUFFICES ASSUME NEW o \in Selector PROVE SelectorInStep(o, selector[o])'
      OBVIOUS
    <2>1. CASE o = s
      BY <1>2, <2>1 DEF SelectorInStep
    <2>2. CASE o # s
      BY <1>1, <1>2, <2>2, OtherSelectors
    <2> QED BY <2>1, <2>2
  <1>4. \A e \in Editor : EditorInStep(e, editor[e])'
    <2> SUFFICES ASSUME NEW e \in Editor PROVE EditorInStep(e, editor[e])'
      OBVIOUS
    <2>1. e # s
      BY SelectionAssumption
    <2> QED BY <1>1, <2>1, OtherEditors
  <1>5. (IsDefinitions(defs) /\ Valid(defs))'
    BY <1>1 DEF SelectionInv, IsDefinitions, Valid
  <1> QED BY <1>1, <1>2, <1>3, <1>4, <1>5 DEF SelectionInv, LeasesKept

LEMMA CacheStays ==
  ASSUME SelectionInv, UNCHANGED <<cache, history>>
  PROVE  CacheInStep'
  BY DEF SelectionInv, CacheInStep, EntryInStep, IsEntry, history

Outcomes == {"none", "error", "exited", "Exhausted", "Busy", "AllUnknown", "NoEligible"}

LEMMA StartTyped ==
  /\ Start0 \in SelectorType /\ Start0.pc = "idle" /\ Start0.ended_revision = 0
  <1>1. << >> \in Seq(Profile)
    OBVIOUS
  <1> QED BY <1>1 DEF Start0, SelectorType, Unset

(* The invocation ends. *)
LEMMA DoneStep ==
  ASSUME SelectionInv, NEW s \in Selector, NEW o \in Outcomes, Done(s, o), SQuiet, CacheInStep'
  PROVE  SelectionInv'
  <1>1. PICK t : /\ t = [Start0 EXCEPT !.pc = "done", !.outcome = o]
                 /\ selector' = [selector EXCEPT ![s] = t]
    BY DEF Done
  <1>2. t \in SelectorType /\ t.pc = "done" /\ t.ended_revision = 0
    <2>1. Start0 \in SelectorType /\ Start0.ended_revision = 0
      BY StartTyped
    <2>2. t.pc = "done" /\ t.ended_revision = 0
      BY <1>1, <2>1 DEF SelectorType
    <2>3. t \in SelectorType
      BY <1>1, <2>1 DEF SelectorType, Outcomes
    <2> QED BY <2>2, <2>3
  <1>3. defs' = defs /\ defs.revision \in Nat
    BY RoutingAssumption DEF SelectionInv, IsDefinitions, SQuiet
  <1>4. SelectorInStep(s, t)'
    BY <1>2, <1>3 DEF SelectorInStep
  <1>5. LeasesKept(s)
    BY Releases DEF Done
  <1> QED BY <1>1, <1>4, <1>5, SelectStep

------------------------------------------------------------------------------
(* The failover invocation *)

LEMMA StartStep ==
  ASSUME SelectionInv, NEW s \in Selector, Start(s)
  PROVE  SelectionInv'
  <1>1. PICK q \in DOMAIN defs.pools, p \in First :
          /\ selector[s].pc = "idle" /\ lease[p] = Free /\ lease' = [lease EXCEPT ![p] = s]
          /\ selector' = [selector EXCEPT ![s].pc = "run", ![s].source = p,
                                          ![s].cooldown = {p}, ![s].pool_id = q]
    BY DEF Start
  <1>2. p \in Profile /\ q \in Pool /\ selector[s] \in SelectorType /\ SelectorInStep(s, selector[s])
    BY SelectionAssumption DEF SelectionInv, IsDefinitions
  <1>3. PICK t : /\ t = [selector[s] EXCEPT !.pc = "run", !.source = p, !.cooldown = {p}, !.pool_id = q]
                 /\ selector' = [selector EXCEPT ![s] = t]
    BY <1>1
  <1>4. t \in SelectorType /\ t.pc = "run" /\ t.source = p /\ t.ended_revision = selector[s].ended_revision
    BY <1>2, <1>3 DEF SelectorType
  <1>5. LeasesKept(s) /\ SQuiet /\ CacheInStep'
    BY <1>1, <1>2, TakesLease, CacheStays DEF Start
  <1>6. SelectorInStep(s, t)'
    BY <1>2, <1>4, <1>5 DEF SelectorInStep, SQuiet
  <1> QED BY <1>3, <1>5, <1>6, SelectStep

LEMMA GenerationEndsStep ==
  ASSUME SelectionInv, NEW s \in Selector, GenerationEnds(s)
  PROVE  SelectionInv'
  <1>1. selector[s].pc = "run" /\ SQuiet /\ CacheInStep'
    BY CacheStays DEF GenerationEnds
  <1>2. CASE Done(s, "exited")
    BY <1>1, <1>2, DoneStep DEF Outcomes
  <1>3. CASE /\ selector' = [selector EXCEPT ![s].pc = "signal", ![s].signal_at = clock,
                                             ![s].ended_revision = defs.revision]
             /\ lease' = Released(s)
    <2>1. PICK t : /\ t = [selector[s] EXCEPT !.pc = "signal", !.signal_at = clock,
                                              !.ended_revision = defs.revision]
                   /\ selector' = [selector EXCEPT ![s] = t]
      BY <1>3
    <2>2. /\ selector[s] \in SelectorType /\ SelectorInStep(s, selector[s]) /\ clock \in Nat /\ defs.revision \in Nat
      BY RoutingAssumption DEF SelectionInv, IsDefinitions
    <2>3. /\ t \in SelectorType /\ t.pc = "signal" /\ t.source = selector[s].source
          /\ t.signal_at = clock /\ t.ended_revision = defs.revision
      <3>1. /\ t.pc = "signal" /\ t.source = selector[s].source
            /\ t.signal_at = clock /\ t.ended_revision = defs.revision
        BY <2>1, <2>2 DEF SelectorType
      <3>2. clock \in Int
        BY <2>2
      <3>3. t \in SelectorType
        BY <2>1, <2>2, <3>2 DEF SelectorType
      <3> QED BY <3>1, <3>3
    <2>4. SelectorInStep(s, t)'
      BY <1>1, <2>2, <2>3 DEF SelectorInStep, SQuiet
    <2> QED BY <1>1, <1>3, <2>1, <2>4, Releases, SelectStep
  <1> QED BY <1>2, <1>3 DEF GenerationEnds

LEMMA LockSourceStep ==
  ASSUME SelectionInv, NEW s \in Selector, LockSource(s)
  PROVE  SelectionInv'
  <1>1. /\ selector[s].pc = "signal" /\ SQuiet /\ UNCHANGED exhaustedAt
        /\ selector[s] \in SelectorType /\ SelectorInStep(s, selector[s]) /\ CacheInStep
    BY DEF LockSource, SelectionInv
  <1>2. PICK p \in Profile, at \in Nat : p = selector[s].source /\ at = selector[s].signal_at
    BY <1>1 DEF SelectorInStep
  <1>3. CASE Done(s, "error") /\ UNCHANGED <<cache, signalled>>
    BY <1>1, <1>3, CacheStays, DoneStep DEF Outcomes, history
  <1>4. CASE ~(Done(s, "error") /\ UNCHANGED <<cache, signalled>>)
    <2>1. /\ lease[p] = Free /\ lease' = [lease EXCEPT ![p] = s]
          /\ cache' = require_revalidation(p, at)
          /\ signalled' = [signalled EXCEPT ![p] = at]
          /\ selector' = [selector EXCEPT ![s].pc = "revalidate"]
      BY <1>2, <1>4 DEF LockSource
    <2>2. CacheInStep'
      BY <1>1, <2>1, SignalStep
    <2>3. PICK t : t = [selector[s] EXCEPT !.pc = "revalidate"] /\ selector' = [selector EXCEPT ![s] = t]
      BY <2>1
    <2>4. /\ t \in SelectorType /\ t.pc = "revalidate" /\ t.source = selector[s].source
          /\ t.signal_at = selector[s].signal_at /\ t.ended_revision = selector[s].ended_revision
      BY <1>1, <2>3 DEF SelectorType
    <2>5. SelectorInStep(s, t)'
      BY <1>1, <2>4 DEF SelectorInStep, SQuiet
    <2> QED BY <1>1, <2>1, <2>2, <2>3, <2>5, TakesLease, SelectStep
  <1> QED BY <1>3, <1>4

LEMMA RevalidateStep ==
  ASSUME SelectionInv, NEW s \in Selector, Revalidate(s)
  PROVE  SelectionInv'
  <1>1. /\ selector[s].pc = "revalidate" /\ SQuiet /\ CacheInStep' /\ clock \in Nat
        /\ selector[s] \in SelectorType /\ SelectorInStep(s, selector[s])
    BY CacheStays DEF Revalidate, SelectionInv
  <1>2. CASE Done(s, "error")
    BY <1>1, <1>2, DoneStep DEF Outcomes
  <1>3. CASE ~Done(s, "error")
    <2>1. PICK r \in Snapshot :
            selector' = [selector EXCEPT ![s].pc = "trigger", ![s].read = r, ![s].probe_at = clock]
      BY <1>3 DEF Revalidate
    <2>2. lease' = lease
      BY <1>3 DEF Revalidate
    <2>3. PICK t : /\ t = [selector[s] EXCEPT !.pc = "trigger", !.read = r, !.probe_at = clock]
                   /\ selector' = [selector EXCEPT ![s] = t]
      BY <2>1
    <2>4. /\ t \in SelectorType /\ t.pc = "trigger" /\ t.source = selector[s].source /\ t.read = r
          /\ t.probe_at = clock
          /\ t.signal_at = selector[s].signal_at /\ t.ended_revision = selector[s].ended_revision
      <3>1. /\ t.pc = "trigger" /\ t.source = selector[s].source /\ t.read = r /\ t.probe_at = clock
            /\ t.signal_at = selector[s].signal_at /\ t.ended_revision = selector[s].ended_revision
        BY <1>1, <2>3 DEF SelectorType
      <3>2. clock \in Int
        BY <1>1
      <3>3. t \in SelectorType
        BY <1>1, <2>3, <3>2 DEF SelectorType
      <3> QED BY <3>1, <3>3
    <2>5. SelectorInStep(s, t)'
      BY <1>1, <2>4 DEF SelectorInStep, SQuiet
    <2> QED BY <1>1, <2>2, <2>3, <2>5, LeasesStay, SelectStep
  <1> QED BY <1>2, <1>3

LEMMA TriggerStep ==
  ASSUME SelectionInv, NEW s \in Selector, Trigger(s)
  PROVE  SelectionInv'
  <1>1. /\ selector[s].pc = "trigger" /\ SQuiet /\ UNCHANGED signalled
        /\ selector[s] \in SelectorType /\ SelectorInStep(s, selector[s]) /\ CacheInStep
    BY DEF Trigger, SelectionInv
  <1>2. PICK p \in Profile, at \in Nat, r \in Snapshot :
          p = selector[s].source /\ at = selector[s].probe_at /\ r = selector[s].read
    BY <1>1 DEF SelectorInStep
  <1>3. cache' = observe_usage(p, r, at) /\ exhaustedAt' = Exhausting(p, r, at)
    BY <1>2 DEF Trigger
  <1>4. CacheInStep' /\ IsEntry(cache'[p])
    BY <1>1, <1>3, UsageStep
  <1>5. CASE Done(s, "error")
    BY <1>1, <1>4, <1>5, DoneStep DEF Outcomes
  <1>6. CASE ~Done(s, "error")
    <2>1. /\ cache'[p].observed_at >= selector[s].signal_at /\ UNCHANGED lease
          /\ selector' = [selector EXCEPT ![s].pc = "pool", ![s].read = "none",
                            ![s].probe_at = Unset, ![s].trigger_at = cache'[p].observed_at]
      BY <1>2, <1>6 DEF Trigger
    <2>2. PICK o \in Int : o = cache'[p].observed_at
      BY <1>4 DEF IsEntry
    <2>3. PICK t : /\ t = [selector[s] EXCEPT !.pc = "pool", !.read = "none", !.probe_at = Unset, !.trigger_at = o]
                   /\ selector' = [selector EXCEPT ![s] = t]
      BY <2>1, <2>2
    <2>4. /\ t.pc = "pool" /\ t.source = selector[s].source /\ t.trigger_at = o
          /\ t.signal_at = selector[s].signal_at /\ t.ended_revision = selector[s].ended_revision
      BY <1>1, <2>3 DEF SelectorType
    <2>5. Unset \in Int
      BY DEF Unset
    <2>6. t \in SelectorType
      BY <1>1, <2>3, <2>5 DEF SelectorType
    <2>7. SelectorInStep(s, t)'
      BY <1>1, <2>1, <2>2, <2>4, <2>6 DEF SelectorInStep, SQuiet
    <2> QED BY <1>1, <1>4, <2>1, <2>3, <2>7, LeasesStay, SelectStep
  <1> QED BY <1>5, <1>6

LEMMA ReadPoolStep ==
  ASSUME SelectionInv, NEW s \in Selector, ReadPool(s)
  PROVE  SelectionInv'
  <1>1. /\ selector[s].pc = "pool" /\ SQuiet /\ CacheInStep'
        /\ selector[s] \in SelectorType /\ SelectorInStep(s, selector[s])
    BY CacheStays DEF ReadPool, SelectionInv
  <1>2. CASE Done(s, "error")
    BY <1>1, <1>2, DoneStep DEF Outcomes
  <1>3. CASE ~Done(s, "error")
    <2>1. PICK x \in EnabledPool(s) :
            /\ UNCHANGED lease
            /\ selector' = [selector EXCEPT ![s].pc = "pick", ![s].members = x[1],
                              ![s].revision = x[2], ![s].offset = 1,
                              ![s].exhausted = 0, ![s].unknown = 0, ![s].busy = 0, ![s].cooled = 0]
      BY <1>3 DEF ReadPool
    <2>2. PICK q \in DOMAIN defs.pools :
            /\ x = <<defs.pools[q].members, defs.revision>>
            /\ selector[s].source \in Range(defs.pools[q].members)
      BY <2>1 DEF EnabledPool
    <2>3. PICK m \in Seq(Profile), r \in Nat :
            m = x[1] /\ r = x[2] /\ r = defs.revision /\ selector[s].source \in Range(m)
      <3>1. defs.pools[q].members \in Seq(Profile) /\ defs.revision \in Nat
        BY RoutingAssumption DEF SelectionInv, IsDefinitions
      <3> QED BY <2>2, <3>1
    <2>4. PICK u : /\ u = [selector[s] EXCEPT !.pc = "pick", !.members = m, !.revision = r, !.offset = 1]
                   /\ u \in SelectorType
                   /\ u.pc = "pick" /\ u.members = m /\ u.revision = r /\ u.source = selector[s].source
                   /\ u.signal_at = selector[s].signal_at /\ u.trigger_at = selector[s].trigger_at
                   /\ u.ended_revision = selector[s].ended_revision
      <3>1. PICK u : u = [selector[s] EXCEPT !.pc = "pick", !.members = m, !.revision = r, !.offset = 1]
        OBVIOUS
      <3>2. /\ u.pc = "pick" /\ u.members = m /\ u.revision = r /\ u.source = selector[s].source
            /\ u.signal_at = selector[s].signal_at /\ u.trigger_at = selector[s].trigger_at
            /\ u.ended_revision = selector[s].ended_revision
        BY <1>1, <3>1 DEF SelectorType
      <3>3. u \in SelectorType
        BY <1>1, <3>1 DEF SelectorType
      <3> QED BY <3>1, <3>2, <3>3
    <2>5. PICK t : /\ t = [u EXCEPT !.exhausted = 0, !.unknown = 0, !.busy = 0, !.cooled = 0]
                   /\ selector' = [selector EXCEPT ![s] = t]
      <3>1. PICK g : g = [selector EXCEPT ![s].pc = "pick", ![s].members = m, ![s].revision = r, ![s].offset = 1]
        OBVIOUS
      <3>2. selector' = [g EXCEPT ![s].exhausted = 0, ![s].unknown = 0, ![s].busy = 0, ![s].cooled = 0]
        BY <2>1, <2>3, <3>1
      <3>3. g = [selector EXCEPT ![s] = u]
        BY <2>4, <3>1
      <3>4. selector \in [Selector -> SelectorType]
        BY DEF SelectionInv
      <3>5. g[s] = u
        BY <3>3, <3>4
      <3>6. PICK t : t = [u EXCEPT !.exhausted = 0, !.unknown = 0, !.busy = 0, !.cooled = 0]
        OBVIOUS
      <3>7. selector' = [g EXCEPT ![s] = t]
        BY <3>2, <3>5, <3>6
      <3>8. selector' = [selector EXCEPT ![s] = t]
        BY <3>3, <3>7
      <3> QED BY <3>6, <3>8
    <2>6. /\ t.pc = "pick" /\ t.members = m /\ t.revision = r /\ t.source = selector[s].source
          /\ t.signal_at = selector[s].signal_at /\ t.trigger_at = selector[s].trigger_at
          /\ t.ended_revision = selector[s].ended_revision
      BY <2>4, <2>5 DEF SelectorType
    <2>7. t \in SelectorType
      <3>1. PICK z \in Nat : z = 0
        OBVIOUS
      <3>2. t = [u EXCEPT !.exhausted = z, !.unknown = z, !.busy = z, !.cooled = z] /\ u \in SelectorType
        BY <2>4, <2>5, <3>1
      <3>3. [u EXCEPT !.exhausted = z, !.unknown = z, !.busy = z, !.cooled = z] \in SelectorType
        BY <3>2 DEF SelectorType
      <3> QED BY <3>2, <3>3
    <2>8. SelectorInStep(s, t)'
      BY <1>1, <2>3, <2>6, <2>7 DEF SelectorInStep, SQuiet
    <2> QED BY <1>1, <2>1, <2>5, <2>8, LeasesStay, SelectStep
  <1> QED BY <1>2, <1>3

(* How many candidates the pass has judged. *)
Judged(t) == t.exhausted + t.unknown + t.busy + t.cooled

(* The candidate is counted. *)
LEMMA Counts ==
  ASSUME NEW s \in Selector, selector \in [Selector -> SelectorType], NEW f, CountAs(s, f)
  PROVE  \E t \in SelectorType :
           /\ selector' = [selector EXCEPT ![s] = t]
           /\ t.pc = "pick" /\ t.members = selector[s].members /\ t.revision = selector[s].revision
           /\ t.source = selector[s].source /\ t.ended_revision = selector[s].ended_revision
           /\ t.signal_at = selector[s].signal_at /\ t.trigger_at = selector[s].trigger_at
           /\ t.probe_at = Unset /\ t.evidence_at = selector[s].evidence_at
           /\ t.offset = selector[s].offset + 1
           /\ t.exhausted > selector[s].exhausted => f = "exhausted"
           /\ f \in {"exhausted", "unknown", "busy", "cooled"} => Judged(t) = Judged(selector[s]) + 1
  <1>1. selector[s] \in SelectorType
    OBVIOUS
  <1> DEFINE more(k) == IF f = k THEN 1 ELSE 0
  <1>2. PICK a \in Nat, b \in Nat, c \in Nat, d \in Nat :
          /\ a = selector[s].exhausted + more("exhausted") /\ b = selector[s].unknown + more("unknown")
          /\ c = selector[s].busy + more("busy") /\ d = selector[s].cooled + more("cooled")
    <2>1. /\ selector[s].exhausted \in Nat /\ selector[s].unknown \in Nat
          /\ selector[s].busy \in Nat /\ selector[s].cooled \in Nat
      BY <1>1 DEF SelectorType
    <2>2. \A k \in Nat : k + 1 \in Nat /\ k + 0 \in Nat
      OBVIOUS
    <2>3. PICK a \in Nat : a = selector[s].exhausted + more("exhausted")
      BY <2>1, <2>2
    <2>4. PICK b \in Nat : b = selector[s].unknown + more("unknown")
      BY <2>1, <2>2
    <2>5. PICK c \in Nat : c = selector[s].busy + more("busy")
      BY <2>1, <2>2
    <2>6. PICK d \in Nat : d = selector[s].cooled + more("cooled")
      BY <2>1, <2>2
    <2> QED BY <2>3, <2>4, <2>5, <2>6
  <1>3. PICK o \in Nat, z \in Int : o = selector[s].offset + 1 /\ z = Unset
    BY <1>1 DEF SelectorType, Unset
  <1>4. PICK u : u = [selector[s] EXCEPT !.pc = "pick", !.offset = o, !.probe_at = z]
    OBVIOUS
  <1>5. /\ u.pc = "pick" /\ u.members = selector[s].members /\ u.revision = selector[s].revision
        /\ u.source = selector[s].source /\ u.ended_revision = selector[s].ended_revision
        /\ u.signal_at = selector[s].signal_at /\ u.trigger_at = selector[s].trigger_at
        /\ u.probe_at = z /\ u.evidence_at = selector[s].evidence_at /\ u.offset = o
    BY <1>1, <1>4 DEF SelectorType
  <1>6. u \in SelectorType
    BY <1>1, <1>3, <1>4 DEF SelectorType
  <1>7. PICK t : t = [u EXCEPT !.exhausted = a, !.unknown = b, !.busy = c, !.cooled = d]
    OBVIOUS
  <1>8. selector' = [selector EXCEPT ![s] = t]
    <2>1. PICK g : g = [selector EXCEPT ![s].pc = "pick", ![s].offset = o, ![s].probe_at = z]
      OBVIOUS
    <2>2. g = [selector EXCEPT ![s] = u]
      BY <1>4, <2>1
    <2>3. g[s] = u
      BY <2>2
    <2>4. selector' = [selector EXCEPT ![s].pc = "pick", ![s].offset = selector[s].offset + 1, ![s].probe_at = Unset,
                 ![s].exhausted = selector[s].exhausted + more("exhausted"), ![s].unknown = selector[s].unknown + more("unknown"),
                 ![s].busy = selector[s].busy + more("busy"), ![s].cooled = selector[s].cooled + more("cooled")]
      BY <1>1 DEF CountAs, SelectorType
    <2>5. selector' = [selector EXCEPT ![s].pc = "pick", ![s].offset = o, ![s].probe_at = z,
                 ![s].exhausted = a, ![s].unknown = b, ![s].busy = c, ![s].cooled = d]
      BY <1>2, <1>3, <2>4
    <2>6. selector' = [g EXCEPT ![s].exhausted = a, ![s].unknown = b, ![s].busy = c, ![s].cooled = d]
      BY <2>1, <2>5
    <2>7. selector' = [g EXCEPT ![s] = t]
      BY <1>7, <2>3, <2>6
    <2> QED BY <2>2, <2>7
  <1>9. /\ t.pc = "pick" /\ t.members = selector[s].members /\ t.revision = selector[s].revision
        /\ t.source = selector[s].source /\ t.ended_revision = selector[s].ended_revision
        /\ t.signal_at = selector[s].signal_at /\ t.trigger_at = selector[s].trigger_at
        /\ t.probe_at = z /\ t.evidence_at = selector[s].evidence_at /\ t.offset = o
        /\ t.exhausted = a /\ t.unknown = b /\ t.busy = c /\ t.cooled = d
    BY <1>5, <1>6, <1>7 DEF SelectorType
  <1>10. t \in SelectorType
    BY <1>6, <1>7 DEF SelectorType
  <1>11. a > selector[s].exhausted => f = "exhausted"
    BY <1>1, <1>2 DEF SelectorType
  <1>12. ASSUME f \in {"exhausted", "unknown", "busy", "cooled"}
         PROVE  Judged(t) = Judged(selector[s]) + 1
    <2>1. PICK a0 \in Nat, b0 \in Nat, c0 \in Nat, d0 \in Nat :
            /\ a0 = selector[s].exhausted /\ b0 = selector[s].unknown
            /\ c0 = selector[s].busy /\ d0 = selector[s].cooled
      BY <1>1 DEF SelectorType
    <2>2. a + b + c + d = a0 + b0 + c0 + d0 + 1
      BY <1>2, <1>12, <2>1
    <2> QED BY <1>9, <2>1, <2>2 DEF Judged
  <1> QED BY <1>3, <1>8, <1>9, <1>10, <1>11, <1>12

LEMMA CountStep ==
  ASSUME SelectionInv, NEW s \in Selector, selector[s].pc \in {"pick", "probe"}, NEW f, CountAs(s, f),
         LeasesKept(s), SQuiet, CacheInStep'
  PROVE  SelectionInv'
  <1>1. selector \in [Selector -> SelectorType] /\ SelectorInStep(s, selector[s])
    BY DEF SelectionInv
  <1>2. PICK t \in SelectorType :
           /\ selector' = [selector EXCEPT ![s] = t]
           /\ t.pc = "pick" /\ t.members = selector[s].members /\ t.revision = selector[s].revision
           /\ t.source = selector[s].source /\ t.ended_revision = selector[s].ended_revision
           /\ t.signal_at = selector[s].signal_at /\ t.trigger_at = selector[s].trigger_at
    BY <1>1, Counts
  <1>3. SelectorInStep(s, t)'
    BY <1>1, <1>2 DEF SelectorInStep, SQuiet
  <1> QED BY <1>2, <1>3, SelectStep

LEMMA SkipStep ==
  ASSUME SelectionInv, NEW s \in Selector, SkipCooldown(s) \/ SkipExhausted(s)
  PROVE  SelectionInv'
  <1>1. PICK f : selector[s].pc = "pick" /\ CountAs(s, f) /\ SQuiet /\ UNCHANGED lease /\ UNCHANGED <<cache, history>>
    BY DEF SkipCooldown, SkipExhausted, Eligible, More
  <1> QED BY <1>1, CacheStays, LeasesStay, CountStep

LEMMA ReserveStep ==
  ASSUME SelectionInv, NEW s \in Selector, Reserve(s)
  PROVE  SelectionInv'
  <1>1. /\ selector[s].pc = "pick" /\ selector[s].offset < Len(selector[s].members) /\ SQuiet /\ CacheInStep'
        /\ selector[s] \in SelectorType /\ SelectorInStep(s, selector[s]) /\ clock \in Nat
    BY CacheStays DEF Reserve, Eligible, More, SelectionInv
  <1>2. PICK p \in Profile : p = Candidate(s) /\ p = CandidateOf(selector[s])
    BY <1>1, CandidateIs, CandidateTyped DEF SelectorInStep, SelectorType
  <1>3. CASE Done(s, "error")
    BY <1>1, <1>3, DoneStep DEF Outcomes
  <1>4. CASE CountAs(s, "busy") /\ UNCHANGED lease
    BY <1>1, <1>4, LeasesStay, CountStep
  <1>5. CASE /\ lease[p] = Free /\ lease' = [lease EXCEPT ![p] = s]
             /\ selector' = [selector EXCEPT ![s].pc = "probe", ![s].probe_at = clock]
    <2>1. PICK t : /\ t = [selector[s] EXCEPT !.pc = "probe", !.probe_at = clock]
                   /\ selector' = [selector EXCEPT ![s] = t]
      BY <1>5
    <2>2. /\ t.pc = "probe" /\ t.probe_at = clock /\ t.source = selector[s].source /\ t.members = selector[s].members
          /\ t.offset = selector[s].offset /\ t.revision = selector[s].revision
          /\ t.signal_at = selector[s].signal_at /\ t.trigger_at = selector[s].trigger_at
          /\ t.ended_revision = selector[s].ended_revision
      BY <1>1, <2>1 DEF SelectorType
    <2>3. clock \in Int
      BY <1>1
    <2>4. t \in SelectorType
      BY <1>1, <2>1, <2>3 DEF SelectorType
    <2>5. CandidateOf(t) = p
      BY <1>2, <2>2 DEF CandidateOf
    <2>6. LeasesKept(s) /\ lease'[p] = s
      BY <1>5, TakesLease
    <2>7. SelectorInStep(s, t)'
      BY <1>1, <2>2, <2>4, <2>5, <2>6 DEF SelectorInStep, SQuiet
    <2> QED BY <1>1, <2>1, <2>6, <2>7, SelectStep
  <1> QED BY <1>2, <1>3, <1>4, <1>5 DEF Reserve

(* What the probe judges: a fresh entry is the answer of its own read, or   *)
(* one of a later event.                                                    *)
LEMMA ProbeStep ==
  ASSUME SelectionInv, NEW s \in Selector, Probe(s)
  PROVE  SelectionInv'
  <1>1. /\ selector[s].pc = "probe" /\ SQuiet /\ UNCHANGED signalled
        /\ selector[s] \in SelectorType /\ SelectorInStep(s, selector[s]) /\ CacheInStep
    BY DEF Probe, SelectionInv
  <1>2. PICK p \in Profile, at \in Nat :
          p = Candidate(s) /\ p = CandidateOf(selector[s]) /\ lease[p] = s /\ at = selector[s].probe_at
    <2>1. CandidateOf(selector[s]) \in Profile
      BY <1>1, CandidateTyped DEF SelectorInStep, SelectorType
    <2> QED BY <1>1, <2>1, CandidateIs DEF SelectorInStep
  <1>3. PICK r \in Snapshot \cup Failure :
          /\ cache' = Observe(p, r, at) /\ exhaustedAt' = Exhausting(p, r, at)
          /\ IF /\ r \notin Failure /\ FreshlyAvailable(cache'[p], at)
                /\ cache'[p].observed_at >= selector[s].trigger_at
             THEN /\ selector' = [selector EXCEPT ![s].pc = "handoff", ![s].read = r,
                                    ![s].evidence_at = cache'[p].observed_at]
                  /\ UNCHANGED lease
             ELSE /\ lease' = [lease EXCEPT ![p] = Free]
                  /\ CountAs(s, IF r \notin Failure /\ View(cache'[p], at) = "exhausted"
                                THEN "exhausted" ELSE "unknown")
    BY <1>2 DEF Probe
  <1>4. CacheInStep' /\ (r \notin Failure => cache' = observe_usage(p, r, at) /\ r \in Snapshot)
    BY <1>1, <1>3, ObserveStep
  <1>5. CASE ~(/\ r \notin Failure /\ FreshlyAvailable(cache'[p], at)
               /\ cache'[p].observed_at >= selector[s].trigger_at)
    <2>1. PICK f : CountAs(s, f) /\ lease' = [lease EXCEPT ![p] = Free]
      BY <1>3, <1>5
    <2>2. LeasesKept(s)
      BY <1>2, <2>1 DEF SelectionInv, LeasesKept
    <2> QED BY <1>1, <1>4, <2>1, <2>2, CountStep
  <1>6. CASE /\ r \notin Failure /\ FreshlyAvailable(cache'[p], at)
             /\ cache'[p].observed_at >= selector[s].trigger_at
    <2>1. /\ selector' = [selector EXCEPT ![s].pc = "handoff", ![s].read = r,
                            ![s].evidence_at = cache'[p].observed_at]
          /\ UNCHANGED lease
      BY <1>3, <1>6
    <2>2. r \in Snapshot /\ cache' = observe_usage(p, r, at)
      BY <1>4, <1>6
    <2>3. IsEntry(cache'[p]) /\ (cache'[p].availability = r \/ at < cache'[p].latest_event_at)
      BY <1>1, <1>3, <2>2, UsageStep
    <2>4. cache'[p].availability = "available" /\ cache'[p].last_failure = "none"
      <3>1. View(cache'[p], at) = "available" /\ at \in Int
        BY <1>6 DEF FreshlyAvailable
      <3>2. PICK v \in {"available", "exhausted"} : v = "available"
        OBVIOUS
      <3>3. PICK e : e = cache'[p]
        OBVIOUS
      <3>4. e.availability = v /\ e.last_failure = "none"
        BY <2>3, <3>1, <3>2, <3>3, ViewTells
      <3> QED BY <3>2, <3>3, <3>4
    <2>5. PICK o \in Int : o = cache'[p].observed_at
      BY <2>3 DEF IsEntry
    <2>6. r = "available" \/ o > at
      BY <2>3, <2>4, <2>5 DEF IsEntry
    <2>7. PICK t : /\ t = [selector[s] EXCEPT !.pc = "handoff", !.read = r, !.evidence_at = o]
                   /\ selector' = [selector EXCEPT ![s] = t]
      BY <2>1, <2>5
    <2>8. /\ t.pc = "handoff" /\ t.probe_at = at /\ t.read = r /\ t.evidence_at = o
          /\ t.source = selector[s].source /\ t.members = selector[s].members
          /\ t.offset = selector[s].offset /\ t.revision = selector[s].revision
          /\ t.signal_at = selector[s].signal_at /\ t.trigger_at = selector[s].trigger_at
          /\ t.ended_revision = selector[s].ended_revision
      BY <1>1, <1>2, <2>7 DEF SelectorType
    <2>9. t \in SelectorType
      BY <1>1, <2>7 DEF SelectorType
    <2>10. CandidateOf(t) = p
      BY <1>2, <2>8 DEF CandidateOf
    <2>11. o >= selector[s].trigger_at /\ lease'[p] = s
      BY <1>2, <1>6, <2>1, <2>5
    <2>12. SelectorInStep(s, t)'
      BY <1>1, <2>6, <2>8, <2>9, <2>10, <2>11 DEF SelectorInStep, SQuiet
    <2> QED BY <1>1, <1>4, <2>1, <2>7, <2>12, LeasesStay, SelectStep
  <1> QED BY <1>5, <1>6

LEMMA HandOffStep ==
  ASSUME SelectionInv, NEW s \in Selector, HandOff(s)
  PROVE  SelectionInv'
  <1>1. /\ selector[s].pc = "handoff" /\ SQuiet /\ CacheInStep'
        /\ selector[s] \in SelectorType /\ SelectorInStep(s, selector[s])
    BY CacheStays DEF HandOff, SelectionInv
  <1>2. CASE Done(s, "error")
    BY <1>1, <1>2, DoneStep DEF Outcomes
  <1>3. CASE ~Done(s, "error")
    <2>1. PICK p \in Profile : p = Candidate(s)
      BY <1>1, CandidateIs, CandidateTyped DEF SelectorInStep, SelectorType
    <2>2. /\ UNCHANGED lease
          /\ selector' = [selector EXCEPT ![s].pc = "run", ![s].source = p,
                            ![s].cooldown = @ \cup {p}, ![s].offset = 0, ![s].probe_at = Unset,
                            ![s].read = "none", ![s].evidence_at = Unset, ![s].trigger_at = Unset]
      BY <1>3, <2>1 DEF HandOff
    <2>3. PICK c \in SUBSET Profile : c = selector[s].cooldown \cup {p}
      BY <1>1 DEF SelectorType
    <2>4. PICK z \in Nat, y \in Int : z = 0 /\ y = Unset
      BY DEF Unset
    <2>5. PICK u : u = [selector[s] EXCEPT !.pc = "run", !.source = p, !.cooldown = c, !.offset = z]
      OBVIOUS
    <2>6. u.pc = "run" /\ u.source = p /\ u.ended_revision = selector[s].ended_revision
      BY <1>1, <2>5 DEF SelectorType
    <2>7. u \in SelectorType
      BY <1>1, <2>5 DEF SelectorType
    <2>8. PICK t : t = [u EXCEPT !.probe_at = y, !.read = "none", !.evidence_at = y, !.trigger_at = y]
      OBVIOUS
    <2>9. t.pc = "run" /\ t.source = p /\ t.ended_revision = selector[s].ended_revision
      BY <2>6, <2>7, <2>8 DEF SelectorType
    <2>10. t \in SelectorType
      BY <2>7, <2>8 DEF SelectorType
    <2>11. selector' = [selector EXCEPT ![s] = t]
      <3>1. PICK g : g = [selector EXCEPT ![s].pc = "run", ![s].source = p, ![s].cooldown = c, ![s].offset = z]
        OBVIOUS
      <3>2. selector' = [selector EXCEPT ![s].pc = "run", ![s].source = p,
                           ![s].cooldown = c, ![s].offset = z, ![s].probe_at = y,
                           ![s].read = "none", ![s].evidence_at = y, ![s].trigger_at = y]
        BY <1>1, <2>2, <2>3, <2>4 DEF SelectorType
      <3>3. selector' = [g EXCEPT ![s].probe_at = y, ![s].read = "none", ![s].evidence_at = y, ![s].trigger_at = y]
        BY <3>1, <3>2
      <3>4. g = [selector EXCEPT ![s] = u]
        BY <2>5, <3>1
      <3>5. g[s] = u
        BY <3>4 DEF SelectionInv
      <3>6. selector' = [g EXCEPT ![s] = t]
        BY <2>8, <3>3, <3>5
      <3> QED BY <3>4, <3>6
    <2>12. SelectorInStep(s, t)'
      BY <1>1, <2>9, <2>10 DEF SelectorInStep, SQuiet
    <2> QED BY <1>1, <2>2, <2>11, <2>12, LeasesStay, SelectStep
  <1> QED BY <1>2, <1>3

LEMMA StopStep ==
  ASSUME SelectionInv, NEW s \in Selector, Stop(s)
  PROVE  SelectionInv'
  <1>1. Outcome(s) \in Outcomes
    BY DEF Outcome, Outcomes
  <1> QED BY <1>1, CacheStays, DoneStep DEF Stop


LEMMA SelectKeepsInv ==
  ASSUME SelectionInv, NEW s \in Selector, Select(s)
  PROVE  SelectionInv'
  BY StartStep, GenerationEndsStep, LockSourceStep, RevalidateStep, TriggerStep, ReadPoolStep, SkipStep,
     ReserveStep, ProbeStep, HandOffStep, StopStep DEF Select

------------------------------------------------------------------------------
(* Status commands and the clock *)

LEMMA NoDecisionStep ==
  ASSUME SelectionInv, NEW x, x \notin Selector \cup Editor, LeasesKept(x),
         UNCHANGED <<defs, editor, selector>>, CacheInStep', clock' \in Nat,
         observer' \in [Observer -> ObserverState]
  PROVE  SelectionInv'
  <1>1. defs.revision \in Nat /\ defs' = defs /\ editor' = editor /\ selector' = selector
    BY RoutingAssumption DEF SelectionInv, IsDefinitions
  <1>2. \A s \in Selector : SelectorInStep(s, selector[s])'
    <2> SUFFICES ASSUME NEW s \in Selector PROVE SelectorInStep(s, selector[s])'
      OBVIOUS
    <2> QED BY <1>1, OtherSelectors
  <1>3. \A e \in Editor : EditorInStep(e, editor[e])'
    <2> SUFFICES ASSUME NEW e \in Editor PROVE EditorInStep(e, editor[e])'
      OBVIOUS
    <2> QED BY <1>1, OtherEditors
  <1>4. (IsDefinitions(defs) /\ Valid(defs))'
    BY <1>1 DEF SelectionInv, IsDefinitions, Valid
  <1> QED BY <1>1, <1>2, <1>3, <1>4 DEF SelectionInv, LeasesKept

(* The states of a status command are told apart by pc. *)
LEMMA ObserverKinds ==
  ASSUME NEW t \in ObserverState
  PROVE  /\ t.pc = "read" => t \in [pc : {"read"}, profile : Profile]
         /\ t.pc = "stamp" => t \in [pc : {"stamp"}, profile : Profile, result : Snapshot \cup Failure]
         /\ t.pc = "record" =>
              t \in [pc : {"record"}, profile : Profile, result : Snapshot \cup Failure, at : Nat]
  BY DEF ObserverState, Idle, Ended

LEMMA StatusKeepsInv ==
  ASSUME SelectionInv, NEW o \in Observer, Status(o)
  PROVE  SelectionInv'
  <1>1. /\ o \notin Selector \cup Editor /\ clock \in Nat /\ CacheInStep
        /\ observer \in [Observer -> ObserverState] /\ observer[o] \in ObserverState
    BY SelectionAssumption DEF SelectionInv
  <1>2. CASE StatusLock(o)
    <2>1. PICK p \in Profile : /\ lease[p] = Free /\ lease' = [lease EXCEPT ![p] = o]
                               /\ observer' = [observer EXCEPT ![o] = [pc |-> "read", profile |-> p]]
      BY <1>2 DEF StatusLock
    <2>2. LeasesKept(o)
      BY <2>1, TakesLease
    <2>3. [pc |-> "read", profile |-> p] \in ObserverState
      BY DEF ObserverState
    <2>4. observer' \in [Observer -> ObserverState]
      BY <1>1, <2>1, <2>3
    <2> QED BY <1>1, <1>2, <2>2, <2>4, CacheStays, NoDecisionStep DEF StatusLock
  <1>3. CASE StatusRead(o)
    <2>1. PICK r \in Snapshot \cup Failure :
            observer' = [observer EXCEPT ![o] = [pc |-> "stamp", profile |-> observer[o].profile, result |-> r]]
      BY <1>3 DEF StatusRead
    <2>2. observer[o].profile \in Profile
      BY <1>1, <1>3, ObserverKinds DEF StatusRead
    <2>3. [pc |-> "stamp", profile |-> observer[o].profile, result |-> r] \in ObserverState
      BY <2>2 DEF ObserverState
    <2>4. observer' \in [Observer -> ObserverState]
      BY <1>1, <2>1, <2>3
    <2> QED BY <1>1, <1>3, <2>4, Releases, CacheStays, NoDecisionStep DEF StatusRead
  <1>4. CASE StatusStamp(o)
    <2>1. /\ lease' = lease /\ UNCHANGED <<defs, editor, selector, clock, cache, history>>
          /\ observer' = [observer EXCEPT ![o] =
                            [pc |-> "record", profile |-> observer[o].profile,
                             result |-> observer[o].result, at |-> clock]]
      BY <1>4 DEF StatusStamp, routing
    <2>2. observer[o].profile \in Profile /\ observer[o].result \in Snapshot \cup Failure
      BY <1>1, <1>4, ObserverKinds DEF StatusStamp
    <2>3. [pc |-> "record", profile |-> observer[o].profile, result |-> observer[o].result, at |-> clock]
             \in ObserverState
      BY <1>1, <2>2 DEF ObserverState
    <2>4. observer' \in [Observer -> ObserverState]
      BY <1>1, <2>1, <2>3
    <2> QED BY <1>1, <2>1, <2>4, LeasesStay, CacheStays, NoDecisionStep
  <1>5. CASE StatusRecord(o)
    <2>1. PICK p \in Profile, r \in Snapshot \cup Failure, at \in Nat :
            p = observer[o].profile /\ r = observer[o].result /\ at = observer[o].at
      BY <1>1, <1>5, ObserverKinds DEF StatusRecord
    <2>2. /\ cache' = Observe(p, r, at) /\ exhaustedAt' = Exhausting(p, r, at) /\ UNCHANGED signalled
          /\ observer' = [observer EXCEPT ![o] = Ended]
          /\ lease' = lease /\ UNCHANGED <<defs, editor, selector, clock>>
      BY <1>5, <2>1 DEF StatusRecord, routing
    <2>3. CacheInStep'
      BY <1>1, <2>2, ObserveStep
    <2>4. observer' \in [Observer -> ObserverState]
      BY <1>1, <2>2 DEF ObserverState
    <2> QED BY <1>1, <2>2, <2>3, <2>4, LeasesStay, NoDecisionStep
  <1> QED BY <1>2, <1>3, <1>4, <1>5 DEF Status

LEMMA TickKeepsInv ==
  ASSUME SelectionInv, Tick \/ UNCHANGED vars
  PROVE  SelectionInv'
  <1>1. /\ lease' = lease /\ UNCHANGED <<defs, editor, selector>> /\ UNCHANGED <<cache, history>>
        /\ observer' = observer /\ clock' \in {clock, clock + 1}
    BY DEF Tick, vars, routing
  <1>2. clock' \in Nat /\ observer' \in [Observer -> ObserverState]
    BY <1>1 DEF SelectionInv
  <1>3. Free \notin Selector \cup Editor
    BY RoutingAssumption, SelectionAssumption
  <1> QED BY <1>1, <1>2, <1>3, LeasesStay, CacheStays, NoDecisionStep

------------------------------------------------------------------------------
(* Routing commands *)

LEMMA EditorStep ==
  ASSUME SelectionInv, NEW e \in Editor, LeasesKept(e), UNCHANGED <<cache, clock, selector, observer, history>>,
         IsDefinitions(defs)', Valid(defs)', defs' = defs \/ defs'.revision = defs.revision + 1,
         NEW t \in {Idle, Ended} \cup Editing, editor' = [editor EXCEPT ![e] = t], EditorInStep(e, t)'
  PROVE  SelectionInv'
  <1>1. defs.revision \in Nat /\ defs'.revision \in Nat /\ defs'.revision >= defs.revision
    <2>1. defs.revision \in Nat
      BY RoutingAssumption DEF SelectionInv, IsDefinitions
    <2> QED BY <2>1
  <1>2. \A s \in Selector : SelectorInStep(s, selector[s])'
    <2> SUFFICES ASSUME NEW s \in Selector PROVE SelectorInStep(s, selector[s])'
      OBVIOUS
    <2>1. s # e /\ selector'[s] = selector[s]
      BY SelectionAssumption
    <2> QED BY <1>1, <2>1, OtherSelectors
  <1>3. /\ editor' \in [Editor -> {Idle, Ended} \cup Editing] /\ editor'[e] = t
        /\ \A o \in Editor \ {e} : editor'[o] = editor[o]
    BY DEF SelectionInv
  <1>4. \A o \in Editor : EditorInStep(o, editor[o])'
    <2> SUFFICES ASSUME NEW o \in Editor PROVE EditorInStep(o, editor[o])'
      OBVIOUS
    <2>1. CASE o = e
      BY <1>3, <2>1 DEF EditorInStep
    <2>2. CASE o # e /\ defs' = defs
      BY <1>3, <2>2, OtherEditors
    <2>3. CASE o # e /\ defs'.revision = defs.revision + 1
      <3>1. EditorInStep(o, editor[o]) /\ editor'[o] = editor[o]
        BY <1>3, <2>3 DEF SelectionInv
      <3>2. editor[o] \in Editing => editor[o].revision \in Nat
        BY DEF Editing
      <3> QED BY <1>1, <2>3, <3>1, <3>2 DEF EditorInStep
    <2> QED BY <2>1, <2>2, <2>3
  <1>5. CacheInStep'
    BY CacheStays
  <1> QED BY <1>2, <1>3, <1>4, <1>5 DEF SelectionInv, LeasesKept


LEMMA EditReadStep ==
  ASSUME SelectionInv, NEW e \in Editor, NEW m \in Mutation, EditRead(e, m),
         UNCHANGED <<cache, clock, selector, observer, history>>
  PROVE  SelectionInv'
  <1>1. /\ defs.revision < MaxRevision /\ UNCHANGED <<defs, lease>> /\ Apply(defs, m) # {}
        /\ IsDefinitions(defs) /\ Valid(defs) /\ defs.revision \in Nat /\ MaxRevision \in Nat
    BY RoutingAssumption DEF EditRead, SelectionInv, IsDefinitions
  <1>2. ToVerify(defs, m) \subseteq Profile
    <2>1. CASE m.kind \in {"CreateDomain", "ReplaceDomainMembers", "CreatePool", "ReplacePoolMembers"}
      <3>1. m.members \in Seq(Profile)
        BY <2>1, MutationKinds
      <3> QED BY <2>1, <3>1, RangeTyped DEF ToVerify
    <2>2. CASE m.kind = "Enable"
      <3>1. PICK n \in ApplyMutation(defs, m) : TRUE
        BY <1>1 DEF Apply
      <3>2. m.id \in Pool
        BY <2>2, MutationKinds
      <3>3. m.id \in DOMAIN defs.pools
        BY <1>1, <2>2, <3>1, <3>2, RoutingAssumption DEF ApplyMutation, IsDefinitions
      <3>4. defs.pools[m.id].members \in Seq(Profile)
        BY <1>1, <3>3 DEF IsDefinitions
      <3>5. ToVerify(defs, m) = Range(defs.pools[m.id].members)
        BY <2>2 DEF ToVerify
      <3> QED BY <3>4, <3>5, RangeTyped
    <2>3. CASE m.kind \notin {"CreateDomain", "ReplaceDomainMembers", "CreatePool", "ReplacePoolMembers", "Enable"}
      BY <2>3 DEF ToVerify
    <2> QED BY <2>1, <2>2, <2>3
  <1>3. PICK t : t = [pc |-> "edit", mutation |-> m, revision |-> defs.revision, todo |-> ToVerify(defs, m)]
    OBVIOUS
  <1>4. t \in Editing
    BY <1>1, <1>2, <1>3 DEF Editing
  <1>5. t.mutation = m /\ t.revision = defs.revision /\ t.todo = ToVerify(defs, m)
    BY <1>3
  <1>6. EditorInStep(e, t)'
    BY <1>1, <1>5 DEF EditorInStep
  <1>7. editor' = [editor EXCEPT ![e] = t]
    BY <1>3 DEF EditRead
  <1>8. IsDefinitions(defs)' /\ Valid(defs)'
    BY <1>1 DEF IsDefinitions, Valid
  <1> QED BY <1>1, <1>4, <1>6, <1>7, <1>8, LeasesStay, EditorStep

LEMMA EditingIs ==
  ASSUME SelectionInv, NEW e \in Editor, editor[e].pc = "edit"
  PROVE  editor[e] \in Editing /\ EditorInStep(e, editor[e])
  BY DEF SelectionInv, Idle, Ended

LEMMA EndedStep ==
  ASSUME SelectionInv, NEW e \in Editor, editor' = [editor EXCEPT ![e] = Ended], lease' = Released(e),
         UNCHANGED <<cache, clock, selector, observer, history>>,
         IsDefinitions(defs)', Valid(defs)', defs' = defs \/ defs'.revision = defs.revision + 1
  PROVE  SelectionInv'
  <1>1. EditorInStep(e, Ended)'
    BY DEF EditorInStep, Editing, Ended
  <1> QED BY <1>1, Releases, EditorStep

LEMMA EditVerifyStep ==
  ASSUME SelectionInv, NEW e \in Editor, EditVerify(e), UNCHANGED <<cache, clock, selector, observer, history>>
  PROVE  SelectionInv'
  <1>1. /\ editor[e] \in Editing /\ EditorInStep(e, editor[e]) /\ editor[e].todo # {} /\ defs' = defs
    BY EditingIs DEF EditVerify
  <1>3. IsDefinitions(defs)' /\ Valid(defs)'
    BY <1>1 DEF SelectionInv, IsDefinitions, Valid
  <1>4. CASE editor' = [editor EXCEPT ![e] = Ended] /\ lease' = Released(e)
    BY <1>1, <1>3, <1>4, EndedStep
  <1>5. ASSUME NEW p \in editor[e].todo, lease[p] = Free, lease' = [lease EXCEPT ![p] = e],
               editor' = [editor EXCEPT ![e].todo = @ \ {p}]
        PROVE  SelectionInv'
    <2>0. p \in Profile
      BY <1>1 DEF Editing
    <2>1. PICK t : t = [editor[e] EXCEPT !.todo = editor[e].todo \ {p}] /\ editor' = [editor EXCEPT ![e] = t]
      BY <1>5
    <2>2. t.mutation = editor[e].mutation /\ t.revision = editor[e].revision /\ t.todo = editor[e].todo \ {p}
      BY <1>1, <2>1 DEF Editing
    <2>3. t \in Editing
      BY <1>1, <2>1 DEF Editing
    <2>4. LeasesKept(e) /\ lease'[p] = e
      BY <1>5, <2>0, TakesLease
    <2>5. Holding(e) \cup {p} \subseteq Holding(e)'
      <3>2. \A x \in Profile : lease'[x] = IF x = p THEN e ELSE lease[x]
        BY <1>5 DEF SelectionInv
      <3> QED BY <2>0, <3>2 DEF Holding
    <2>6. EditorInStep(e, t)'
      BY <1>1, <2>2, <2>5 DEF EditorInStep
    <2> QED BY <1>1, <1>3, <2>1, <2>3, <2>4, <2>6, EditorStep
  <1> QED BY <1>4, <1>5 DEF EditVerify

LEMMA EditCommitStep ==
  ASSUME SelectionInv, NEW e \in Editor, EditCommit(e), UNCHANGED <<cache, clock, selector, observer, history>>
  PROVE  /\ SelectionInv'
         /\ defs' = defs \/ \E m \in Mutation : Activates(defs, m, defs'.pools) /\ ToVerify(defs, m) \subseteq Holding(e)
  <1>1. /\ editor[e] \in Editing /\ EditorInStep(e, editor[e]) /\ editor[e].todo = {}
        /\ IsDefinitions(defs) /\ Valid(defs)
    BY EditingIs DEF EditCommit, SelectionInv
  <1>2. CASE defs' = defs
    <2>1. IsDefinitions(defs)' /\ Valid(defs)'
      BY <1>1, <1>2 DEF IsDefinitions, Valid
    <2> QED BY <1>2, <2>1, EndedStep DEF EditCommit
  <1>3. CASE defs' # defs
    <2>1. defs.revision = editor[e].revision /\ defs' \in Apply(defs, editor[e].mutation)
      BY <1>3 DEF EditCommit, Committed
    <2>2. PICK m \in Mutation : m = editor[e].mutation
      BY <1>1 DEF Editing
    <2>3. defs.revision < MaxRevision /\ ToVerify(defs, m) \subseteq Holding(e)
      BY <1>1, <2>1, <2>2 DEF EditorInStep
    <2>4. PICK n \in Apply(defs, m) : n = defs'
      BY <2>1, <2>2
    <2>5. /\ IsDefinitions(n) /\ Valid(n) /\ (n = defs \/ n.revision = defs.revision + 1)
          /\ Activates(defs, m, n.pools)
      BY <1>1, <2>3, Applied
    <2>6. IsDefinitions(defs)' /\ Valid(defs)'
      BY <2>4, <2>5 DEF IsDefinitions, Valid
    <2> QED BY <2>3, <2>4, <2>5, <2>6, EndedStep DEF EditCommit
  <1> QED BY <1>2, <1>3


LEMMA EditKeepsInv ==
  ASSUME SelectionInv, NEW e \in Editor, EditStep(e)
  PROVE  SelectionInv'
  BY EditReadStep, EditVerifyStep, EditCommitStep DEF EditStep, Edit

------------------------------------------------------------------------------
(* Theorems *)

LEMMA InitSelection == Init => SelectionInv
  <1> SUFFICES ASSUME Init PROVE SelectionInv
    OBVIOUS
  <1>1. CacheInStep
    <2>1. Unset \in Int
      BY DEF Unset
    <2> QED BY <2>1 DEF Init, CacheInStep, EntryInStep
  <1>2. IsDefinitions(defs) /\ Valid(defs) /\ defs.revision \in Nat
    <2>1. IsDefinitions(defs) /\ Valid(defs)
      BY RoutingAssumption DEF Init
    <2> QED BY <2>1, RoutingAssumption DEF IsDefinitions
  <1>3. \A s \in Selector : selector[s] = Start0
    BY DEF Init
  <1>4. selector \in [Selector -> SelectorType]
    BY StartTyped DEF Init
  <1>5. \A s \in Selector : SelectorInStep(s, selector[s])
    BY <1>2, <1>3, StartTyped DEF SelectorInStep
  <1>6. \A e \in Editor : EditorInStep(e, editor[e])
    BY DEF Init, EditorInStep, Editing, Idle
  <1>7. observer \in [Observer -> ObserverState]
    BY DEF Init, ObserverState
  <1> QED BY <1>1, <1>2, <1>4, <1>5, <1>6, <1>7 DEF SelectionInv, Init

LEMMA NextSelection ==
  ASSUME SelectionInv, [Next]_vars
  PROVE  SelectionInv'
  BY SelectKeepsInv, StatusKeepsInv, EditKeepsInv, TickKeepsInv DEF Next

(* The state that failover invocations, status and routing commands share   *)
(* keeps SelectionInv: the cache in step with the signals and exhaustions   *)
(* recorded in it (usage.rs), the definitions valid (routing.rs), and each  *)
(* command's view of them no newer than they are.                           *)
THEOREM SelectionInvariant == Spec => []SelectionInv
  <1>1. SelectionInv /\ [Next]_vars => SelectionInv'
    BY NextSelection
  <1> QED BY <1>1, InitSelection, PTL DEF Spec

(* No order of reads, failures and usage-limit signals lets a snapshot      *)
(* older than a signal count as available.                                  *)
THEOREM SignalsHold == Spec => []SignalHolds
  <1>1. SelectionInv => SignalHolds
    <2> SUFFICES ASSUME SelectionInv, NEW p \in Profile,
                        cache[p].availability = "available" /\ cache[p].last_failure = "none"
                 PROVE  cache[p].observed_at >= signalled[p]
      BY DEF SignalHolds
    <2>1. EntryInStep(cache[p], signalled[p], exhaustedAt[p]) /\ signalled[p] \in Int
      BY DEF SelectionInv, CacheInStep
    <2>2. cache[p] # NoEntry
      BY DEF NoEntry
    <2> QED BY <2>1, <2>2 DEF EntryInStep, IsEntry
  <1> QED BY <1>1, SelectionInvariant, PTL

(* A handoff begins on evidence no older than the exhaustion that triggered *)
(* it, which is no older than the signal; the evidence is the probe's own   *)
(* available answer or a later event (select_once and SelectionTrigger).    *)
THEOREM TargetsHaveEvidence == Spec => []SelectedOnEvidence
  <1>1. SelectionInv => SelectedOnEvidence
    BY DEF SelectionInv, SelectorInStep, SelectedOnEvidence
  <1> QED BY <1>1, SelectionInvariant, PTL

(* A handoff follows a pool read after its generation ended                 *)
(* (enabled_pool_for_source), however many rounds came before.              *)
THEOREM PoolsAreCurrent == Spec => []PolicyIsCurrent
  <1>1. SelectionInv => PolicyIsCurrent
    BY DEF SelectionInv, SelectorInStep, PolicyIsCurrent
  <1> QED BY <1>1, SelectionInvariant, PTL


(* A step of an invocation leaves the others, and counts a candidate as     *)
(* exhausted only from the cache or after a probe.                          *)
Alone(s) == \A o \in Selector \ {s} : selector'[o] = selector[o]
Counted(s) == selector'[s].exhausted > selector[s].exhausted

LEMMA DoneAlone ==
  ASSUME NEW s \in Selector, selector \in [Selector -> SelectorType], NEW o, Done(s, o)
  PROVE  Alone(s) /\ ~Counted(s)
  <1>1. PICK t : t = [Start0 EXCEPT !.pc = "done", !.outcome = o] /\ selector' = [selector EXCEPT ![s] = t]
    BY DEF Done
  <1>2. t.exhausted = 0
    BY <1>1 DEF Start0
  <1>3. selector'[s] = t /\ Alone(s)
    BY <1>1 DEF Alone
  <1>4. selector[s].exhausted \in Nat
    BY DEF SelectorType
  <1> QED BY <1>2, <1>3, <1>4 DEF Counted

LEMMA CountsAlone ==
  ASSUME NEW s \in Selector, selector \in [Selector -> SelectorType], NEW f, CountAs(s, f)
  PROVE  Alone(s) /\ (f # "exhausted" => ~Counted(s))
  <1>1. PICK t \in SelectorType :
           selector' = [selector EXCEPT ![s] = t] /\ (t.exhausted > selector[s].exhausted => f = "exhausted")
    BY Counts
  <1> QED BY <1>1 DEF Alone, Counted

LEMMA SelectAlone ==
  ASSUME NEW s \in Selector, selector \in [Selector -> SelectorType], Select(s)
  PROVE  SQuiet /\ Alone(s) /\ (Counted(s) => SkipExhausted(s) \/ Probe(s))
  <1>1. selector[s] \in SelectorType /\ selector[s].exhausted \in Nat
    BY DEF SelectorType
  <1>2. CASE Start(s)
    <2>1. SQuiet
      BY <1>2 DEF Start
    <2>4. CASE TRUE
      <3>1. PICK q \in DOMAIN defs.pools, p \in First : selector' = [selector EXCEPT ![s].pc = "run", ![s].source = p, ![s].cooldown = {p}, ![s].pool_id = q]
        BY <1>2, <2>4 DEF Start
      <3>2. selector'[s].exhausted = selector[s].exhausted
        BY <1>1, <3>1 DEF SelectorType
      <3>3. Alone(s)
        BY <3>1 DEF Alone
      <3> QED BY <1>1, <2>1, <3>2, <3>3 DEF Counted
    <2> QED BY <2>4
  <1>3. CASE GenerationEnds(s)
    <2>1. SQuiet
      BY <1>3 DEF GenerationEnds
    <2>2. CASE Done(s, "exited")
      BY <2>1, <2>2, DoneAlone
    <2>4. CASE ~Done(s, "exited")
      <3>1. selector' = [selector EXCEPT ![s].pc = "signal", ![s].signal_at = clock, ![s].ended_revision = defs.revision]
        BY <1>3, <2>4 DEF GenerationEnds
      <3>2. selector'[s].exhausted = selector[s].exhausted
        BY <1>1, <3>1 DEF SelectorType
      <3>3. Alone(s)
        BY <3>1 DEF Alone
      <3> QED BY <1>1, <2>1, <3>2, <3>3 DEF Counted
    <2> QED BY <2>2, <2>4
  <1>4. CASE LockSource(s)
    <2>1. SQuiet
      BY <1>4 DEF LockSource
    <2>2. CASE Done(s, "error")
      BY <2>1, <2>2, DoneAlone
    <2>4. CASE ~Done(s, "error")
      <3>1. selector' = [selector EXCEPT ![s].pc = "revalidate"]
        BY <1>4, <2>4 DEF LockSource
      <3>2. selector'[s].exhausted = selector[s].exhausted
        BY <1>1, <3>1 DEF SelectorType
      <3>3. Alone(s)
        BY <3>1 DEF Alone
      <3> QED BY <1>1, <2>1, <3>2, <3>3 DEF Counted
    <2> QED BY <2>2, <2>4
  <1>5. CASE Revalidate(s)
    <2>1. SQuiet
      BY <1>5 DEF Revalidate
    <2>2. CASE Done(s, "error")
      BY <2>1, <2>2, DoneAlone
    <2>4. CASE ~Done(s, "error")
      <3>1. PICK r \in Snapshot : selector' = [selector EXCEPT ![s].pc = "trigger", ![s].read = r, ![s].probe_at = clock]
        BY <1>5, <2>4 DEF Revalidate
      <3>2. selector'[s].exhausted = selector[s].exhausted
        BY <1>1, <3>1 DEF SelectorType
      <3>3. Alone(s)
        BY <3>1 DEF Alone
      <3> QED BY <1>1, <2>1, <3>2, <3>3 DEF Counted
    <2> QED BY <2>2, <2>4
  <1>6. CASE Trigger(s)
    <2>1. SQuiet
      BY <1>6 DEF Trigger
    <2>2. CASE Done(s, "error")
      BY <2>1, <2>2, DoneAlone
    <2>4. CASE ~Done(s, "error")
      <3>1. PICK x : selector' = [selector EXCEPT ![s].pc = "pool", ![s].read = "none", ![s].probe_at = Unset, ![s].trigger_at = x]
        BY <1>6, <2>4 DEF Trigger
      <3>2. selector'[s].exhausted = selector[s].exhausted
        BY <1>1, <3>1 DEF SelectorType
      <3>3. Alone(s)
        BY <3>1 DEF Alone
      <3> QED BY <1>1, <2>1, <3>2, <3>3 DEF Counted
    <2> QED BY <2>2, <2>4
  <1>7. CASE ReadPool(s)
    <2>1. SQuiet
      BY <1>7 DEF ReadPool
    <2>2. CASE Done(s, "error")
      BY <2>1, <2>2, DoneAlone
    <2>4. CASE ~Done(s, "error")
      <3>1. PICK x : selector' = [selector EXCEPT ![s].pc = "pick", ![s].members = x[1], ![s].revision = x[2], ![s].offset = 1,
                               ![s].exhausted = 0, ![s].unknown = 0, ![s].busy = 0, ![s].cooled = 0]
        BY <1>7, <2>4 DEF ReadPool
      <3>2. selector'[s].exhausted = 0
        BY <1>1, <3>1 DEF SelectorType
      <3>3. Alone(s)
        BY <3>1 DEF Alone
      <3> QED BY <1>1, <2>1, <3>2, <3>3 DEF Counted
    <2> QED BY <2>2, <2>4
  <1>8. CASE Reserve(s)
    <2>1. SQuiet
      BY <1>8 DEF Reserve
    <2>2. CASE Done(s, "error")
      BY <2>1, <2>2, DoneAlone
    <2>3. CASE CountAs(s, "busy")
      BY <2>1, <2>3, CountsAlone
    <2>4. CASE ~Done(s, "error") /\ ~CountAs(s, "busy")
      <3>1. selector' = [selector EXCEPT ![s].pc = "probe", ![s].probe_at = clock]
        BY <1>8, <2>4 DEF Reserve
      <3>2. selector'[s].exhausted = selector[s].exhausted
        BY <1>1, <3>1 DEF SelectorType
      <3>3. Alone(s)
        BY <3>1 DEF Alone
      <3> QED BY <1>1, <2>1, <3>2, <3>3 DEF Counted
    <2> QED BY <2>2, <2>3, <2>4
  <1>9. CASE HandOff(s)
    <2>1. SQuiet
      BY <1>9 DEF HandOff
    <2>2. CASE Done(s, "error")
      BY <2>1, <2>2, DoneAlone
    <2>4. CASE ~Done(s, "error")
      <3>1. PICK c : selector' = [selector EXCEPT ![s].pc = "run", ![s].source = c, ![s].cooldown = @ \cup {c},
                               ![s].offset = 0, ![s].probe_at = Unset, ![s].read = "none",
                               ![s].evidence_at = Unset, ![s].trigger_at = Unset]
        BY <1>9, <2>4 DEF HandOff
      <3>2. selector'[s].exhausted = selector[s].exhausted
        BY <1>1, <3>1 DEF SelectorType
      <3>3. Alone(s)
        BY <3>1 DEF Alone
      <3> QED BY <1>1, <2>1, <3>2, <3>3 DEF Counted
    <2> QED BY <2>2, <2>4
  <1>10. CASE SkipCooldown(s)
    BY <1>10, CountsAlone DEF SkipCooldown
  <1>11. CASE SkipExhausted(s)
    BY <1>11, CountsAlone DEF SkipExhausted
  <1>12. CASE Probe(s)
    <2>1. SQuiet
      BY <1>12 DEF Probe
    <2>2. CASE \E f \in {"exhausted", "unknown"} : CountAs(s, f)
      BY <1>12, <2>1, <2>2, CountsAlone
    <2>3. CASE ~CountAs(s, "exhausted") /\ ~CountAs(s, "unknown")
      <3>1. PICK r, x : selector' = [selector EXCEPT ![s].pc = "handoff", ![s].read = r, ![s].evidence_at = x]
        BY <1>12, <2>3 DEF Probe
      <3> QED BY <1>12, <2>1, <3>1 DEF Alone
    <2> QED BY <2>2, <2>3
  <1>13. CASE Stop(s)
    BY <1>13, DoneAlone DEF Stop
  <1> QED BY <1>2, <1>3, <1>4, <1>5, <1>6, <1>7, <1>8, <1>9, <1>10, <1>11, <1>12, <1>13 DEF Select

(* The pools that a routing command enables are those whose members it      *)
(* verified and still holds (membership_validation, Store::commit).         *)
THEOREM EnabledPoolsVerified == Spec => EnabledAreVerified
  <1> DEFINE Verified ==
        \A q \in DOMAIN defs'.pools :
          defs'.pools[q].active /\ ~(q \in DOMAIN defs.pools /\ defs.pools[q].active) =>
            \E e \in Editor : Range(defs'.pools[q].members) \subseteq Holding(e)
  <1>1. SelectionInv /\ [Next]_vars => [Verified]_vars
    <2> SUFFICES ASSUME SelectionInv, Next PROVE Verified
      OBVIOUS
    <2>1. CASE defs' = defs
      BY <2>1
    <2>2. ASSUME NEW e \in Editor, EditStep(e), defs' # defs
          PROVE  Verified
      <3>1. EditCommit(e) /\ UNCHANGED <<cache, clock, selector, observer, history>>
        BY <2>2 DEF EditStep, Edit, EditRead, EditVerify
      <3>2. PICK m \in Mutation : Activates(defs, m, defs'.pools) /\ ToVerify(defs, m) \subseteq Holding(e)
        BY <2>2, <3>1, EditCommitStep
      <3> QED BY <3>2 DEF Activates
    <2>3. ASSUME NEW s \in Selector, Select(s) PROVE defs' = defs
      BY <2>3, SelectAlone DEF SelectionInv, SQuiet
    <2>4. ASSUME NEW o \in Observer, Status(o) PROVE defs' = defs
      BY <2>4 DEF Status, StatusLock, StatusRead, StatusStamp, StatusRecord, routing
    <2>5. Tick => defs' = defs
      BY DEF Tick, routing
    <2> QED BY <2>1, <2>2, <2>3, <2>4, <2>5 DEF Next
  <1> QED BY <1>1, SelectionInvariant, PTL DEF Spec, EnabledAreVerified

(* A fresh exhausted entry was left by a read that is fresh.                *)
LEMMA ExhaustionIsFresh ==
  ASSUME NEW e, IsEntry(e), NEW now \in Int, View(e, now) = "exhausted", NEW x \in Int,
         e.availability = "exhausted" => x >= e.observed_at
  PROVE  x # Unset /\ now - x < FreshTtl
  <1>1. PICK v \in {"available", "exhausted"} : v = "exhausted"
    OBVIOUS
  <1>2. e.availability = "exhausted" /\ ~Expired(e, now)
    BY <1>1, ViewTells
  <1>3. FreshTtl \in Nat
    BY UsageAssumption
  <1>4. e.observed_at \in Nat /\ e.expires_at = e.observed_at + FreshTtl /\ x >= e.observed_at
    BY <1>2 DEF IsEntry
  <1>5. now < e.observed_at + FreshTtl
    BY <1>2, <1>3, <1>4 DEF Expired, Unset
  <1> QED BY <1>3, <1>4, <1>5 DEF Unset

(* A candidate counts as exhausted only on a read that found it exhausted   *)
(* and is still fresh when it is judged, from the cache or from the probe   *)
(* (select_once).                                                           *)
THEOREM ExhaustedIsTrue == Spec => NoFalseExhausted
  <1> DEFINE Fresh ==
        \A s \in Selector :
          selector'[s].exhausted > selector[s].exhausted =>
            LET now == IF selector[s].pc = "probe" THEN selector[s].probe_at ELSE clock
                seen == exhaustedAt'[Candidate(s)]
            IN seen # Unset /\ now - seen < FreshTtl
  <1>1. SelectionInv /\ [Next]_vars => [Fresh]_vars
    <2> SUFFICES ASSUME SelectionInv, Next, NEW s \in Selector, selector'[s].exhausted > selector[s].exhausted,
                        NEW now, now = IF selector[s].pc = "probe" THEN selector[s].probe_at ELSE clock,
                        NEW seen, seen = exhaustedAt'[Candidate(s)]
                 PROVE  seen # Unset /\ now - seen < FreshTtl
      OBVIOUS
    <2>1. selector \in [Selector -> SelectorType] /\ selector[s].exhausted \in Nat
      BY DEF SelectionInv, SelectorType
    <2>2. Select(s)
      <3>1. ASSUME NEW o \in Selector, Select(o) PROVE o = s
        BY <2>1, <3>1, SelectAlone DEF Alone
      <3>2. (\E o \in Observer : Status(o)) \/ (\E e \in Editor : EditStep(e)) \/ Tick => selector' = selector
        BY DEF Status, StatusLock, StatusRead, StatusStamp, StatusRecord, EditStep, Tick
      <3> QED BY <2>1, <3>1, <3>2 DEF Next
    <2>3. PICK p \in Profile : p = Candidate(s)
      <3>1. selector[s].pc \in {"pick", "probe"}
        BY <2>1, <2>2, SelectAlone DEF Counted, SkipExhausted, Eligible, More, Probe
      <3> QED BY <2>1, <3>1, CandidateIs, CandidateTyped DEF SelectionInv, SelectorInStep, SelectorType
    <2>4. CASE SkipExhausted(s)
      <3>1. /\ EntryInStep(cache[p], signalled[p], exhaustedAt[p]) /\ exhaustedAt[p] \in Int /\ clock \in Int
        BY DEF SelectionInv, CacheInStep
      <3>2. View(cache[p], clock) = "exhausted" /\ seen = exhaustedAt[p] /\ now = clock
        BY <2>3, <2>4 DEF SkipExhausted, CachedExhaustion, Eligible, More, history
      <3>3. cache[p] # NoEntry
        BY <3>2 DEF View
      <3>4. IsEntry(cache[p]) /\ (cache[p].availability = "exhausted" => exhaustedAt[p] >= cache[p].observed_at)
        BY <3>1, <3>3 DEF EntryInStep
      <3> QED BY <3>1, <3>2, <3>4, ExhaustionIsFresh
    <2>5. CASE Probe(s)
      <3>1. PICK at \in Nat : at = selector[s].probe_at /\ now = at
        BY <2>5 DEF Probe, SelectionInv, SelectorInStep
      <3>2. PICK r \in Snapshot \cup Failure :
              /\ cache' = Observe(p, r, at) /\ exhaustedAt' = Exhausting(p, r, at)
              /\ IF /\ r \notin Failure /\ FreshlyAvailable(cache'[p], at)
                    /\ cache'[p].observed_at >= selector[s].trigger_at
                 THEN selector' = [selector EXCEPT ![s].pc = "handoff", ![s].read = r,
                                     ![s].evidence_at = cache'[p].observed_at]
                 ELSE CountAs(s, IF r \notin Failure /\ View(cache'[p], at) = "exhausted"
                                 THEN "exhausted" ELSE "unknown")
        BY <2>3, <2>5, <3>1 DEF Probe
      <3>3. r \notin Failure /\ View(cache'[p], at) = "exhausted"
        <4>1. CASE selector' = [selector EXCEPT ![s].pc = "handoff", ![s].read = r,
                                  ![s].evidence_at = cache'[p].observed_at]
          BY <2>1, <4>1 DEF SelectorType
        <4>2. CASE CountAs(s, "unknown")
          BY <2>1, <4>2, CountsAlone DEF Counted
        <4> QED BY <3>2, <4>1, <4>2
      <3>4. CacheInStep /\ UNCHANGED signalled
        BY <2>5 DEF Probe, SelectionInv
      <3>5. r \in Snapshot /\ cache' = observe_usage(p, r, at)
        BY <3>2, <3>3, <3>4, ObserveStep
      <3>6. /\ CacheInStep' /\ IsEntry(cache'[p])
            /\ cache'[p].availability = "exhausted" => exhaustedAt'[p] >= cache'[p].observed_at
        BY <3>2, <3>4, <3>5, UsageStep
      <3>7. PICK x \in Int, e \in {cache'[p]} : x = exhaustedAt'[p]
        BY <3>6 DEF CacheInStep
      <3>8. /\ IsEntry(e) /\ View(e, at) = "exhausted" /\ at \in Int
            /\ e.availability = "exhausted" => x >= e.observed_at
        BY <3>3, <3>6, <3>7
      <3>9. x # Unset /\ at - x < FreshTtl
        BY <3>8, ExhaustionIsFresh
      <3> QED BY <2>3, <3>1, <3>7, <3>9
    <2> QED BY <2>1, <2>2, <2>4, <2>5, SelectAlone DEF Counted
  <1> QED BY <1>1, SelectionInvariant, PTL DEF Spec, NoFalseExhausted

------------------------------------------------------------------------------
(* Type correctness *)

(* What SelectionInv leaves open of TypeOK: stamps of the clock, counters   *)
(* of candidates, and the entries that CacheDocument::validate accepts.  A  *)
(* pass has judged each candidate before its offset once, and a pool names  *)
(* a profile once, so no counter outgrows the profiles.                     *)
IsStored(e) == e \in Entry /\ ValidEntry(e)

SelectorTimed(t) ==
  t.signal_at \in Stamp /\ t.trigger_at \in Stamp /\ t.probe_at \in Stamp /\ t.evidence_at \in Stamp

SelectorCounts(t) ==
  /\ t.offset \in Count /\ t.exhausted \in Count /\ t.unknown \in Count
  /\ t.busy \in Count /\ t.cooled \in Count
  /\ t.pc \in {"pick", "probe", "handoff"} =>
       /\ t.offset = Judged(t) + 1 /\ t.offset <= Len(t.members)
       /\ Len(t.members) <= Cardinality(Profile)

CacheStored ==
  /\ \A p \in Profile : cache[p] = NoEntry \/ IsStored(cache[p])
  /\ signalled \in [Profile -> Stamp] /\ exhaustedAt \in [Profile -> Stamp]

BoundsInv ==
  /\ CacheStored
  /\ clock \in Time
  /\ \A s \in Selector : SelectorTimed(selector[s]) /\ SelectorCounts(selector[s])
  /\ \A o \in Observer : observer[o].pc = "record" => observer[o].at \in Time

------------------------------------------------------------------------------
(* The cache *)

LEMMA Powers ==
  ASSUME NEW k \in 0..30
  PROVE  2^k \in Nat
  <1>1. CASE k \in 0..7
    <2>1. /\ 2^0 \in Nat /\ 2^1 \in Nat /\ 2^2 \in Nat /\ 2^3 \in Nat
          /\ 2^4 \in Nat /\ 2^5 \in Nat /\ 2^6 \in Nat /\ 2^7 \in Nat
      OBVIOUS
    <2>2. k = 0 \/ k = 1 \/ k = 2 \/ k = 3 \/ k = 4 \/ k = 5 \/ k = 6 \/ k = 7
      BY <1>1
    <2> QED BY <2>1, <2>2, Zenon
  <1>2. CASE k \in 8..15
    <2>1. /\ 2^8 \in Nat /\ 2^9 \in Nat /\ 2^10 \in Nat /\ 2^11 \in Nat
          /\ 2^12 \in Nat /\ 2^13 \in Nat /\ 2^14 \in Nat /\ 2^15 \in Nat
      OBVIOUS
    <2>2. k = 8 \/ k = 9 \/ k = 10 \/ k = 11 \/ k = 12 \/ k = 13 \/ k = 14 \/ k = 15
      BY <1>2
    <2> QED BY <2>1, <2>2, Zenon
  <1>3. CASE k \in 16..23
    <2>1. /\ 2^16 \in Nat /\ 2^17 \in Nat /\ 2^18 \in Nat /\ 2^19 \in Nat
          /\ 2^20 \in Nat /\ 2^21 \in Nat /\ 2^22 \in Nat /\ 2^23 \in Nat
      OBVIOUS
    <2>2. k = 16 \/ k = 17 \/ k = 18 \/ k = 19 \/ k = 20 \/ k = 21 \/ k = 22 \/ k = 23
      BY <1>3
    <2> QED BY <2>1, <2>2, Zenon
  <1>4. CASE k \in 24..30
    <2>1. /\ 2^24 \in Nat /\ 2^25 \in Nat /\ 2^26 \in Nat /\ 2^27 \in Nat
          /\ 2^28 \in Nat /\ 2^29 \in Nat /\ 2^30 \in Nat
      OBVIOUS
    <2>2. k = 24 \/ k = 25 \/ k = 26 \/ k = 27 \/ k = 28 \/ k = 29 \/ k = 30
      BY <1>4
    <2> QED BY <2>1, <2>2, Zenon
  <1> QED BY <1>1, <1>2, <1>3, <1>4

(* A failed read is tried again no earlier than it failed. *)
LEMMA RetryAt ==
  ASSUME NEW at \in Nat, NEW f \in Nat \ {0}
  PROVE  retry_at(at, f) \in Nat /\ retry_at(at, f) >= at
  <1>1. PICK k \in 0..30 : k = IF f > 30 THEN 30 ELSE f - 1
    OBVIOUS
  <1>2. PICK x \in Nat : x = 2^k
    BY Powers
  <1>3. RetryBase \in Nat /\ RetryMax \in Nat
    BY UsageAssumption
  <1>4. \A y, z \in Nat : y * z \in Nat
    OBVIOUS
  <1>5. PICK d \in Nat : d = RetryBase * x
    BY <1>3, <1>4
  <1>6. retry_at(at, f) = at + (IF d < RetryMax THEN d ELSE RetryMax)
    BY <1>1, <1>2, <1>5 DEF retry_at
  <1> QED BY <1>3, <1>6

LEMMA UsageStored ==
  ASSUME NEW r \in Snapshot, NEW at \in Time
  PROVE  IsStored([availability |-> r, source |-> "read", usage |-> TRUE,
                   observed_at |-> at, latest_event_at |-> at,
                   expires_at |-> at + FreshTtl, required_at |-> Unset, failures |-> 0,
                   next_refresh_at |-> at + FreshTtl, last_failure |-> "none"])
  <1>1. /\ FreshTtl \in Nat /\ FailureLimit \in Nat /\ MaxTime \in Nat /\ at \in Nat /\ Unset = -1
    BY UsageAssumption DEF Time, Unset
  <1>2. PICK n \in Nat : n = at + FreshTtl /\ n >= at /\ n # Unset
    BY <1>1
  <1>3. PICK e : e = [availability |-> r, source |-> "read", usage |-> TRUE,
                   observed_at |-> at, latest_event_at |-> at,
                   expires_at |-> n, required_at |-> Unset, failures |-> 0,
                   next_refresh_at |-> n, last_failure |-> "none"]
    OBVIOUS
  <1>4. 0 \in 0..FailureLimit
    BY <1>1
  <1>5. e \in Entry
    BY <1>3, <1>4 DEF Entry, Source, Failure
  <1>6. ValidEntry(e)
    BY <1>1, <1>2, <1>3 DEF ValidEntry, Snapshot
  <1> QED BY <1>2, <1>3, <1>5, <1>6 DEF IsStored

LEMMA SignalStored ==
  ASSUME NEW at \in Time
  PROVE  IsStored([availability |-> "unknown", source |-> "signal", usage |-> FALSE,
                   observed_at |-> at, latest_event_at |-> at,
                   expires_at |-> Unset, required_at |-> at, failures |-> 0,
                   next_refresh_at |-> at, last_failure |-> "none"])
  <1>1. FailureLimit \in Nat /\ MaxTime \in Nat /\ at \in Nat
    BY UsageAssumption DEF Time
  <1>2. PICK e : e = [availability |-> "unknown", source |-> "signal", usage |-> FALSE,
                   observed_at |-> at, latest_event_at |-> at,
                   expires_at |-> Unset, required_at |-> at, failures |-> 0,
                   next_refresh_at |-> at, last_failure |-> "none"]
    OBVIOUS
  <1>3. 0 \in 0..FailureLimit
    BY <1>1
  <1>4. e \in Entry
    BY <1>1, <1>2, <1>3 DEF Entry, Source, Failure, Snapshot
  <1>5. ValidEntry(e)
    BY <1>1, <1>2 DEF ValidEntry
  <1> QED BY <1>2, <1>4, <1>5 DEF IsStored

LEMMA FailuresTyped ==
  ASSUME NEW p, cache[p] = NoEntry \/ IsStored(cache[p])
  PROVE  Failures(p) \in 0..FailureLimit /\ Failures(p) \in Nat \ {0}
  <1>1. FailureLimit \in Nat \ {0}
    BY UsageAssumption
  <1>2. cache[p] # NoEntry => cache[p].failures \in 0..FailureLimit
    BY DEF IsStored, Entry
  <1> QED BY <1>1, <1>2 DEF Failures

LEMMA FailureStored ==
  ASSUME NEW r \in Failure, NEW at \in Time, NEW f \in 0..FailureLimit, NEW n \in Nat, n >= at
  PROVE  IsStored([availability |-> IF r = "unsupported" THEN r ELSE "unknown",
                   source |-> "read", usage |-> FALSE, observed_at |-> at, latest_event_at |-> at,
                   expires_at |-> Unset, required_at |-> Unset, failures |-> f,
                   next_refresh_at |-> n, last_failure |-> r])
  <1>1. MaxTime \in Nat /\ at \in Nat
    BY UsageAssumption DEF Time
  <1>2. PICK a \in Snapshot \cup {"unsupported"} : a = IF r = "unsupported" THEN r ELSE "unknown"
    BY DEF Snapshot
  <1>3. PICK e : e = [availability |-> a,
                   source |-> "read", usage |-> FALSE, observed_at |-> at, latest_event_at |-> at,
                   expires_at |-> Unset, required_at |-> Unset, failures |-> f,
                   next_refresh_at |-> n, last_failure |-> r]
    OBVIOUS
  <1>4. e \in Entry
    BY <1>3 DEF Entry, Source
  <1>5. ValidEntry(e)
    BY <1>1, <1>2, <1>3 DEF ValidEntry, Unset
  <1> QED BY <1>2, <1>3, <1>4, <1>5 DEF IsStored

LEMMA KeptStored ==
  ASSUME NEW c, IsStored(c), c.usage, NEW r \in Failure \ {"unsupported"}, NEW at \in Time, at >= c.latest_event_at,
         NEW f \in 0..FailureLimit, NEW n \in Nat, n >= at
  PROVE  IsStored([c EXCEPT !.latest_event_at = at, !.required_at = Unset,
                     !.failures = f, !.next_refresh_at = n, !.last_failure = r])
  <1>1. MaxTime \in Nat /\ at \in Nat /\ c \in Entry /\ ValidEntry(c) /\ Unset \in Time \cup {Unset}
    BY UsageAssumption DEF Time, IsStored
  <1>2. PICK e : e = [c EXCEPT !.latest_event_at = at, !.required_at = Unset,
                        !.failures = f, !.next_refresh_at = n, !.last_failure = r]
    OBVIOUS
  <1>3. PICK u : u = [c EXCEPT !.latest_event_at = at, !.required_at = Unset]
    OBVIOUS
  <1>4. /\ u \in Entry /\ u.latest_event_at = at /\ u.required_at = Unset
        /\ u.availability = c.availability /\ u.usage = c.usage
        /\ u.observed_at = c.observed_at /\ u.expires_at = c.expires_at
    <2>1. u \in Entry
      BY <1>1, <1>3 DEF Entry
    <2>2. /\ u.latest_event_at = at /\ u.required_at = Unset
          /\ u.availability = c.availability /\ u.usage = c.usage
          /\ u.observed_at = c.observed_at /\ u.expires_at = c.expires_at
      BY <1>1, <1>3 DEF Entry
    <2> QED BY <2>1, <2>2
  <1>5. e = [u EXCEPT !.failures = f, !.next_refresh_at = n, !.last_failure = r]
    BY <1>2, <1>3
  <1>6. e \in Entry
    BY <1>4, <1>5 DEF Entry
  <1>7. /\ e.latest_event_at = at /\ e.required_at = Unset /\ e.next_refresh_at = n
        /\ e.availability = c.availability /\ e.usage = c.usage
        /\ e.observed_at = c.observed_at /\ e.expires_at = c.expires_at
    BY <1>4, <1>5 DEF Entry
  <1>8. c.observed_at \in Int /\ c.latest_event_at \in Int
    BY <1>1 DEF Entry, Time
  <1>9. ValidEntry(e)
    BY <1>1, <1>7, <1>8 DEF ValidEntry
  <1> QED BY <1>2, <1>6, <1>9 DEF IsStored

(* A transaction leaves what it was given, or the entry of a later event.   *)
LEMMA StoredStep ==
  ASSUME CacheInStep, CacheStored, NEW p \in Profile, NEW at \in Nat, NEW entry, cache' = Replace(p, at, entry),
         (cache[p] # NoEntry => at >= cache[p].latest_event_at) => IsStored(entry)
  PROVE  \A q \in Profile : cache'[q] = NoEntry \/ IsStored(cache'[q])
  BY Replaced DEF CacheStored

LEMMA ExhaustingStamped ==
  ASSUME exhaustedAt \in [Profile -> Stamp], NEW p \in Profile, NEW r, NEW at \in Time,
         exhaustedAt' = Exhausting(p, r, at)
  PROVE  exhaustedAt' \in [Profile -> Stamp]
  <1>1. MaxTime \in Nat /\ Stamp \subseteq Int /\ at \in Stamp
    BY UsageAssumption DEF Stamp, Time, Unset
  <1>2. CASE r = "exhausted"
    <2>1. PICK a \in Stamp : a = exhaustedAt[p]
      OBVIOUS
    <2>2. \E x \in {a, at} : \A y \in {a, at} : x >= y
      BY <1>1
    <2>3. Max({a, at}) \in {a, at}
      BY <2>2 DEF Max
    <2>4. PICK x \in Stamp : x = Max({exhaustedAt[p], at})
      BY <1>1, <2>1, <2>3
    <2>5. exhaustedAt' = [exhaustedAt EXCEPT ![p] = x]
      BY <1>2, <2>4 DEF Exhausting
    <2> QED BY <2>5
  <1>3. CASE r # "exhausted"
    BY <1>3 DEF Exhausting
  <1> QED BY <1>2, <1>3

(* Whatever a read answered, the entry is one that validate accepts.        *)
LEMMA ObserveStored ==
  ASSUME CacheInStep, CacheStored, NEW p \in Profile, NEW r \in Snapshot \cup Failure, NEW at \in Time,
         cache' = Observe(p, r, at), UNCHANGED signalled, exhaustedAt' = Exhausting(p, r, at)
  PROVE  CacheStored'
  <1>1. at \in Nat
    BY UsageAssumption DEF Time
  <1>2. exhaustedAt' \in [Profile -> Stamp] /\ signalled' \in [Profile -> Stamp]
    BY ExhaustingStamped DEF CacheStored
  <1>3. CASE r \notin Failure
    <2>1. PICK e : /\ e = [availability |-> r, source |-> "read", usage |-> TRUE,
                           observed_at |-> at, latest_event_at |-> at,
                           expires_at |-> at + FreshTtl, required_at |-> Unset, failures |-> 0,
                           next_refresh_at |-> at + FreshTtl, last_failure |-> "none"]
                   /\ cache' = Replace(p, at, e)
      BY <1>3 DEF Observe, observe_usage
    <2>2. IsStored(e)
      BY <1>3, <2>1, UsageStored
    <2> QED BY <1>1, <1>2, <2>1, <2>2, StoredStep DEF CacheStored, IsStored, ValidEntry
  <1>4. CASE r \in Failure
    <2>1. cache[p] = NoEntry \/ IsStored(cache[p])
      BY DEF CacheStored
    <2>2. PICK f \in 0..FailureLimit : f = Failures(p) /\ f \in Nat \ {0}
      BY <2>1, FailuresTyped
    <2>3. PICK n \in Nat : n = retry_at(at, f) /\ n >= at
      BY <1>1, <2>2, RetryAt
    <2>4. CASE r # "unsupported" /\ cache[p] # NoEntry /\ cache[p].usage
      <3>1. PICK e : /\ e = [cache[p] EXCEPT !.latest_event_at = at, !.required_at = Unset,
                               !.failures = f, !.next_refresh_at = n, !.last_failure = r]
                     /\ cache' = Replace(p, at, e)
        BY <1>4, <2>2, <2>3, <2>4 DEF Observe, observe_failure
      <3>2. at >= cache[p].latest_event_at => IsStored(e)
        BY <1>4, <2>1, <2>2, <2>3, <2>4, <3>1, KeptStored
      <3>3. (cache[p] # NoEntry => at >= cache[p].latest_event_at) => IsStored(e)
        BY <2>4, <3>2
      <3>4. \A q \in Profile : cache'[q] = NoEntry \/ IsStored(cache'[q])
        BY <1>1, <3>1, <3>3, StoredStep
      <3> QED BY <1>2, <3>4 DEF CacheStored, IsStored, ValidEntry
    <2>5. CASE ~(r # "unsupported" /\ cache[p] # NoEntry /\ cache[p].usage)
      <3>1. PICK e : /\ e = [availability |-> IF r = "unsupported" THEN r ELSE "unknown",
                             source |-> "read", usage |-> FALSE, observed_at |-> at, latest_event_at |-> at,
                             expires_at |-> Unset, required_at |-> Unset, failures |-> f,
                             next_refresh_at |-> n, last_failure |-> r]
                     /\ cache' = Replace(p, at, e)
        BY <1>4, <2>2, <2>3, <2>5 DEF Observe, observe_failure
      <3>2. IsStored(e)
        BY <1>4, <2>2, <2>3, <3>1, FailureStored
      <3> QED BY <1>1, <1>2, <3>1, <3>2, StoredStep DEF CacheStored, IsStored, ValidEntry
    <2> QED BY <2>4, <2>5
  <1> QED BY <1>3, <1>4

LEMMA RevalidationStored ==
  ASSUME CacheInStep, CacheStored, NEW p \in Profile, NEW at \in Time, cache' = require_revalidation(p, at),
         signalled' = [signalled EXCEPT ![p] = at], UNCHANGED exhaustedAt
  PROVE  CacheStored'
  <1>1. at \in Nat /\ at \in Stamp
    BY UsageAssumption DEF Time, Stamp
  <1>2. PICK e : /\ e = [availability |-> "unknown", source |-> "signal", usage |-> FALSE,
                         observed_at |-> at, latest_event_at |-> at,
                         expires_at |-> Unset, required_at |-> at, failures |-> 0,
                         next_refresh_at |-> at, last_failure |-> "none"]
                 /\ cache' = Replace(p, at, e)
    BY DEF require_revalidation
  <1>3. IsStored(e)
    BY <1>2, SignalStored
  <1>4. signalled' \in [Profile -> Stamp] /\ exhaustedAt' \in [Profile -> Stamp]
    BY <1>1 DEF CacheStored
  <1> QED BY <1>1, <1>2, <1>3, <1>4, StoredStep DEF CacheStored, IsStored, ValidEntry

------------------------------------------------------------------------------
(* The invocations *)

LEMMA CountIs == Cardinality(Profile) \in Nat /\ 0 \in Count /\ \A k \in Int : k \in Count <=> 0 <= k /\ k <= Cardinality(Profile)
  BY ProfileAssumption, FS_CardinalityType DEF Count

(* A pool that names no profile twice is no longer than the profiles. *)
LEMMA PoolFits ==
  ASSUME NEW m \in Seq(Profile), IsInjective(m)
  PROVE  Len(m) <= Cardinality(Profile)
  <1>1. Len(m) \in Nat /\ m \in Injection(1..Len(m), Profile)
    BY DEF Injection
  <1>2. Cardinality(1..Len(m)) <= Cardinality(Profile)
    BY <1>1, ProfileAssumption, FS_Injection
  <1>3. Cardinality(1..Len(m)) = Len(m)
    <2>1. PICK n \in Int : n = Len(m) /\ n >= 0
      BY <1>1
    <2>2. 1 \in Int
      OBVIOUS
    <2>3. Cardinality(1..n) = IF 1 > n THEN 0 ELSE n - 1 + 1
      BY <2>2, FS_Interval
    <2> QED BY <2>1, <2>3
  <1> QED BY <1>2, <1>3

LEMMA StoredStays ==
  ASSUME BoundsInv, UNCHANGED <<cache, history>>
  PROVE  CacheStored'
  BY DEF BoundsInv, CacheStored, history, IsStored, ValidEntry

LEMMA BoundsStep ==
  ASSUME SelectionInv, BoundsInv, NEW s \in Selector, NEW t, selector' = [selector EXCEPT ![s] = t],
         SelectorTimed(t), SelectorCounts(t), SQuiet, CacheStored'
  PROVE  BoundsInv'
  <1>1. \A o \in Selector : selector'[o] = IF o = s THEN t ELSE selector[o]
    BY DEF SelectionInv
  <1>2. \A o \in Selector : SelectorTimed(selector[o])' /\ SelectorCounts(selector[o])'
    BY <1>1 DEF BoundsInv, SelectorTimed, SelectorCounts, Judged
  <1> QED BY <1>2 DEF BoundsInv, SQuiet

LEMMA StampIs == Unset \in Stamp /\ Time \subseteq Stamp /\ \A k \in Nat : k \in Stamp => k \in Time
  BY UsageAssumption DEF Stamp, Unset, Time

LEMMA DoneBounds ==
  ASSUME SelectionInv, BoundsInv, NEW s \in Selector, NEW o, Done(s, o), SQuiet, CacheStored'
  PROVE  BoundsInv'
  <1>1. PICK t : /\ t = [Start0 EXCEPT !.pc = "done", !.outcome = o]
                 /\ selector' = [selector EXCEPT ![s] = t]
    BY DEF Done
  <1>2. /\ t.pc = "done" /\ t.signal_at = Unset /\ t.trigger_at = Unset /\ t.probe_at = Unset /\ t.evidence_at = Unset
        /\ t.offset = 0 /\ t.exhausted = 0 /\ t.unknown = 0 /\ t.busy = 0 /\ t.cooled = 0
    BY <1>1 DEF Start0
  <1>3. SelectorTimed(t) /\ SelectorCounts(t)
    BY <1>2, StampIs, CountIs DEF SelectorTimed, SelectorCounts
  <1> QED BY <1>1, <1>3, BoundsStep


(* What an action that judges no candidate leaves of the pass.              *)
SamePass(t, u) ==
  /\ u.members = t.members /\ u.offset = t.offset
  /\ u.exhausted = t.exhausted /\ u.unknown = t.unknown /\ u.busy = t.busy /\ u.cooled = t.cooled

SameStamps(t, u) ==
  /\ u.signal_at = t.signal_at /\ u.trigger_at = t.trigger_at
  /\ u.probe_at = t.probe_at /\ u.evidence_at = t.evidence_at

LEMMA StartBounds ==
  ASSUME SelectionInv, BoundsInv, NEW s \in Selector, Start(s)
  PROVE  BoundsInv'
  <1>1. PICK q \in DOMAIN defs.pools, p \in First :
          selector' = [selector EXCEPT ![s].pc = "run", ![s].source = p, ![s].cooldown = {p}, ![s].pool_id = q]
    BY DEF Start
  <1>2. selector[s] \in SelectorType /\ SelectorTimed(selector[s]) /\ SelectorCounts(selector[s])
    BY DEF SelectionInv, BoundsInv
  <1>3. PICK t : /\ t = [selector[s] EXCEPT !.pc = "run", !.source = p, !.cooldown = {p}, !.pool_id = q]
                 /\ selector' = [selector EXCEPT ![s] = t]
    BY <1>1
  <1>4. t.pc = "run" /\ SamePass(selector[s], t) /\ SameStamps(selector[s], t)
    BY <1>2, <1>3 DEF SelectorType, SamePass, SameStamps
  <1>5. SelectorTimed(t) /\ SelectorCounts(t)
    BY <1>2, <1>4 DEF SelectorTimed, SelectorCounts, SamePass, SameStamps
  <1> QED BY <1>3, <1>5, StoredStays, BoundsStep DEF Start

LEMMA GenerationEndsBounds ==
  ASSUME SelectionInv, BoundsInv, NEW s \in Selector, GenerationEnds(s)
  PROVE  BoundsInv'
  <1>1. SQuiet /\ CacheStored' /\ clock \in Stamp
    BY StoredStays, StampIs DEF GenerationEnds, BoundsInv
  <1>2. CASE Done(s, "exited")
    BY <1>1, <1>2, DoneBounds
  <1>3. CASE ~Done(s, "exited")
    <2>1. PICK t : /\ t = [selector[s] EXCEPT !.pc = "signal", !.signal_at = clock,
                                              !.ended_revision = defs.revision]
                   /\ selector' = [selector EXCEPT ![s] = t]
      BY <1>3 DEF GenerationEnds
    <2>2. selector[s] \in SelectorType /\ SelectorTimed(selector[s]) /\ SelectorCounts(selector[s])
      BY DEF SelectionInv, BoundsInv
    <2>3. /\ t.pc = "signal" /\ t.signal_at = clock /\ SamePass(selector[s], t)
          /\ t.trigger_at = selector[s].trigger_at /\ t.probe_at = selector[s].probe_at
          /\ t.evidence_at = selector[s].evidence_at
      BY <2>1, <2>2 DEF SelectorType, SamePass
    <2>4. SelectorTimed(t) /\ SelectorCounts(t)
      BY <1>1, <2>2, <2>3 DEF SelectorTimed, SelectorCounts, SamePass
    <2> QED BY <1>1, <2>1, <2>4, BoundsStep
  <1> QED BY <1>2, <1>3

LEMMA LockSourceBounds ==
  ASSUME SelectionInv, BoundsInv, NEW s \in Selector, LockSource(s)
  PROVE  BoundsInv'
  <1>1. /\ selector[s].pc = "signal" /\ SQuiet /\ UNCHANGED exhaustedAt
        /\ selector[s] \in SelectorType /\ SelectorInStep(s, selector[s]) /\ CacheInStep /\ CacheStored
        /\ SelectorTimed(selector[s]) /\ SelectorCounts(selector[s])
    BY DEF LockSource, SelectionInv, BoundsInv
  <1>2. PICK p \in Profile, at \in Time : p = selector[s].source /\ at = selector[s].signal_at
    BY <1>1, StampIs DEF SelectorInStep, SelectorTimed
  <1>3. CASE Done(s, "error") /\ UNCHANGED <<cache, signalled>>
    BY <1>1, <1>3, StoredStays, DoneBounds DEF history
  <1>4. CASE ~(Done(s, "error") /\ UNCHANGED <<cache, signalled>>)
    <2>1. /\ cache' = require_revalidation(p, at)
          /\ signalled' = [signalled EXCEPT ![p] = at]
          /\ selector' = [selector EXCEPT ![s].pc = "revalidate"]
      BY <1>2, <1>4 DEF LockSource
    <2>2. CacheStored'
      BY <1>1, <2>1, RevalidationStored
    <2>3. PICK t : t = [selector[s] EXCEPT !.pc = "revalidate"] /\ selector' = [selector EXCEPT ![s] = t]
      BY <2>1
    <2>4. t.pc = "revalidate" /\ SamePass(selector[s], t) /\ SameStamps(selector[s], t)
      BY <1>1, <2>3 DEF SelectorType, SamePass, SameStamps
    <2>5. SelectorTimed(t) /\ SelectorCounts(t)
      BY <1>1, <2>4 DEF SelectorTimed, SelectorCounts, SamePass, SameStamps
    <2> QED BY <1>1, <2>2, <2>3, <2>5, BoundsStep
  <1> QED BY <1>3, <1>4

LEMMA RevalidateBounds ==
  ASSUME SelectionInv, BoundsInv, NEW s \in Selector, Revalidate(s)
  PROVE  BoundsInv'
  <1>1. SQuiet /\ CacheStored' /\ clock \in Stamp
    BY StoredStays, StampIs DEF Revalidate, BoundsInv
  <1>2. CASE Done(s, "error")
    BY <1>1, <1>2, DoneBounds
  <1>3. CASE ~Done(s, "error")
    <2>0. PICK r \in Snapshot :
            selector' = [selector EXCEPT ![s].pc = "trigger", ![s].read = r, ![s].probe_at = clock]
      BY <1>3 DEF Revalidate
    <2>1. PICK t : /\ t = [selector[s] EXCEPT !.pc = "trigger", !.read = r, !.probe_at = clock]
                   /\ selector' = [selector EXCEPT ![s] = t]
      BY <2>0
    <2>2. selector[s] \in SelectorType /\ SelectorTimed(selector[s]) /\ SelectorCounts(selector[s])
      BY DEF SelectionInv, BoundsInv
    <2>3. /\ t.pc = "trigger" /\ t.probe_at = clock /\ SamePass(selector[s], t)
          /\ t.trigger_at = selector[s].trigger_at /\ t.signal_at = selector[s].signal_at
          /\ t.evidence_at = selector[s].evidence_at
      BY <2>1, <2>2 DEF SelectorType, SamePass
    <2>4. SelectorTimed(t) /\ SelectorCounts(t)
      BY <1>1, <2>2, <2>3 DEF SelectorTimed, SelectorCounts, SamePass
    <2> QED BY <1>1, <2>1, <2>4, BoundsStep
  <1> QED BY <1>2, <1>3

LEMMA TriggerBounds ==
  ASSUME SelectionInv, BoundsInv, NEW s \in Selector, Trigger(s)
  PROVE  BoundsInv'
  <1>1. /\ selector[s].pc = "trigger" /\ SQuiet /\ UNCHANGED signalled
        /\ selector[s] \in SelectorType /\ SelectorInStep(s, selector[s]) /\ CacheInStep /\ CacheStored
        /\ SelectorTimed(selector[s]) /\ SelectorCounts(selector[s])
    BY DEF Trigger, SelectionInv, BoundsInv
  <1>2. PICK p \in Profile, at \in Time, r \in Snapshot :
          p = selector[s].source /\ at = selector[s].probe_at /\ r = selector[s].read
    BY <1>1, StampIs DEF SelectorInStep, SelectorTimed
  <1>3. cache' = observe_usage(p, r, at) /\ exhaustedAt' = Exhausting(p, r, at)
    BY <1>2 DEF Trigger
  <1>4. cache' = Observe(p, r, at)
    BY <1>3 DEF Observe, Snapshot, Failure
  <1>5. CacheStored'
    BY <1>1, <1>3, <1>4, ObserveStored
  <1>6. CASE Done(s, "error")
    BY <1>1, <1>5, <1>6, DoneBounds
  <1>7. CASE ~Done(s, "error")
    <2>1. selector' = [selector EXCEPT ![s].pc = "pool", ![s].read = "none",
                        ![s].probe_at = Unset, ![s].trigger_at = cache'[p].observed_at]
      BY <1>2, <1>7 DEF Trigger
    <2>2. PICK o \in Stamp : o = cache'[p].observed_at
      <3>1. at \in Nat /\ IsEntry(cache'[p])
        BY <1>1, <1>3, UsageStep, UsageAssumption DEF Time
      <3>2. cache'[p] # NoEntry
        BY <3>1, NoEntryIsNone
      <3> QED BY <1>5, <3>2, StampIs DEF CacheStored, IsStored, Entry
    <2>3. PICK t : /\ t = [selector[s] EXCEPT !.pc = "pool", !.read = "none", !.probe_at = Unset, !.trigger_at = o]
                   /\ selector' = [selector EXCEPT ![s] = t]
      BY <2>1, <2>2
    <2>4. /\ t.pc = "pool" /\ t.probe_at = Unset /\ t.trigger_at = o /\ SamePass(selector[s], t)
          /\ t.signal_at = selector[s].signal_at /\ t.evidence_at = selector[s].evidence_at
      BY <1>1, <2>3 DEF SelectorType, SamePass
    <2>5. SelectorTimed(t) /\ SelectorCounts(t)
      BY <1>1, <2>4, StampIs DEF SelectorTimed, SelectorCounts, SamePass
    <2> QED BY <1>1, <1>5, <2>3, <2>5, BoundsStep
  <1> QED BY <1>6, <1>7

LEMMA ReadPoolBounds ==
  ASSUME SelectionInv, BoundsInv, NEW s \in Selector, ReadPool(s)
  PROVE  BoundsInv'
  <1>1. /\ SQuiet /\ CacheStored' /\ selector[s] \in SelectorType
        /\ SelectorTimed(selector[s]) /\ SelectorCounts(selector[s])
    BY StoredStays DEF ReadPool, SelectionInv, BoundsInv
  <1>2. CASE Done(s, "error")
    BY <1>1, <1>2, DoneBounds
  <1>3. CASE ~Done(s, "error")
    <2>0. PICK x \in EnabledPool(s) :
            selector' = [selector EXCEPT ![s].pc = "pick", ![s].members = x[1],
                              ![s].revision = x[2], ![s].offset = 1,
                              ![s].exhausted = 0, ![s].unknown = 0, ![s].busy = 0, ![s].cooled = 0]
      BY <1>3 DEF ReadPool
    <2>1. PICK q \in DOMAIN defs.pools : x = <<defs.pools[q].members, defs.revision>>
      BY DEF EnabledPool
    <2>2. PICK m \in Seq(Profile), r \in Nat : m = x[1] /\ r = x[2] /\ IsInjective(m) /\ Len(m) >= 2
      <3>1. /\ defs.pools[q].members \in Seq(Profile) /\ defs.revision \in Nat
            /\ IsInjective(defs.pools[q].members) /\ Len(defs.pools[q].members) >= 2
        BY RoutingAssumption DEF SelectionInv, IsDefinitions, Valid
      <3> QED BY <2>1, <3>1
    <2>3. Len(m) \in Nat /\ Len(m) <= Cardinality(Profile)
      BY <2>2, PoolFits
    <2>4. PICK u : /\ u = [selector[s] EXCEPT !.pc = "pick", !.members = m, !.revision = r, !.offset = 1]
                   /\ u \in SelectorType
                   /\ u.pc = "pick" /\ u.members = m /\ u.offset = 1 /\ SameStamps(selector[s], u)
      <3>1. PICK u : u = [selector[s] EXCEPT !.pc = "pick", !.members = m, !.revision = r, !.offset = 1]
        OBVIOUS
      <3>2. u.pc = "pick" /\ u.members = m /\ u.offset = 1 /\ SameStamps(selector[s], u)
        BY <1>1, <3>1 DEF SelectorType, SameStamps
      <3>3. u \in SelectorType
        BY <1>1, <3>1 DEF SelectorType
      <3> QED BY <3>1, <3>2, <3>3
    <2>5. PICK t : /\ t = [u EXCEPT !.exhausted = 0, !.unknown = 0, !.busy = 0, !.cooled = 0]
                   /\ selector' = [selector EXCEPT ![s] = t]
      <3>1. PICK g : g = [selector EXCEPT ![s].pc = "pick", ![s].members = m, ![s].revision = r, ![s].offset = 1]
        OBVIOUS
      <3>2. selector' = [g EXCEPT ![s].exhausted = 0, ![s].unknown = 0, ![s].busy = 0, ![s].cooled = 0]
        BY <2>0, <2>2, <3>1
      <3>3. g = [selector EXCEPT ![s] = u]
        BY <2>4, <3>1
      <3>4. selector \in [Selector -> SelectorType]
        BY DEF SelectionInv
      <3>5. g[s] = u
        BY <3>3, <3>4
      <3>6. PICK t : t = [u EXCEPT !.exhausted = 0, !.unknown = 0, !.busy = 0, !.cooled = 0]
        OBVIOUS
      <3>7. selector' = [g EXCEPT ![s] = t]
        BY <3>2, <3>5, <3>6
      <3>8. selector' = [selector EXCEPT ![s] = t]
        BY <3>3, <3>7
      <3> QED BY <3>6, <3>8
    <2>6. /\ t.pc = "pick" /\ t.members = m /\ t.offset = 1 /\ SameStamps(u, t)
          /\ t.exhausted = 0 /\ t.unknown = 0 /\ t.busy = 0 /\ t.cooled = 0
      BY <2>4, <2>5 DEF SelectorType, SameStamps
    <2>7. SelectorTimed(t)
      BY <1>1, <2>4, <2>6 DEF SelectorTimed, SameStamps
    <2>8. SelectorCounts(t)
      BY <2>2, <2>3, <2>6, CountIs DEF SelectorCounts, Judged
    <2> QED BY <1>1, <2>5, <2>7, <2>8, BoundsStep
  <1> QED BY <1>2, <1>3


(* A candidate is judged once: a counter and the offset move together.      *)
LEMMA CountBounds ==
  ASSUME SelectionInv, BoundsInv, NEW s \in Selector, selector[s].pc \in {"pick", "probe"},
         selector[s].offset < Len(selector[s].members),
         NEW f \in {"exhausted", "unknown", "busy", "cooled"}, CountAs(s, f), SQuiet, CacheStored'
  PROVE  BoundsInv'
  <1>1. /\ selector \in [Selector -> SelectorType] /\ selector[s] \in SelectorType
        /\ SelectorTimed(selector[s]) /\ SelectorCounts(selector[s])
    BY DEF SelectionInv, BoundsInv
  <1>2. PICK t \in SelectorType :
           /\ selector' = [selector EXCEPT ![s] = t]
           /\ t.pc = "pick" /\ t.members = selector[s].members
           /\ t.signal_at = selector[s].signal_at /\ t.trigger_at = selector[s].trigger_at
           /\ t.probe_at = Unset /\ t.evidence_at = selector[s].evidence_at
           /\ t.offset = selector[s].offset + 1
           /\ Judged(t) = Judged(selector[s]) + 1
    BY <1>1, Counts
  <1>3. SelectorTimed(t)
    BY <1>1, <1>2, StampIs DEF SelectorTimed
  <1>4. PICK a \in Nat, b \in Nat, c \in Nat, d \in Nat :
          a = t.exhausted /\ b = t.unknown /\ c = t.busy /\ d = t.cooled
    BY <1>2 DEF SelectorType
  <1>5. PICK o \in Nat, n \in Nat, l \in Nat :
          /\ o = selector[s].offset /\ o < l /\ l = Len(t.members) /\ n = Cardinality(Profile) /\ l <= n
    <2>1. t.members \in Seq(Profile) /\ selector[s].offset \in Nat
      BY <1>1, <1>2 DEF SelectorType
    <2>2. Len(t.members) \in Nat
      BY <2>1
    <2>3. Len(selector[s].members) <= Cardinality(Profile)
      BY <1>1 DEF SelectorCounts
    <2> QED BY <1>2, <2>1, <2>2, <2>3, CountIs
  <1>6. o = a + b + c + d
    <2>1. o = Judged(selector[s]) + 1
      BY <1>1, <1>5 DEF SelectorCounts
    <2>2. Judged(t) = a + b + c + d
      BY <1>4 DEF Judged
    <2> QED BY <1>2, <2>1, <2>2
  <1>7. \A k \in Nat : k <= n => k \in Count
    BY <1>5, CountIs
  <1>8. a <= n /\ b <= n /\ c <= n /\ d <= n /\ o + 1 <= l /\ o + 1 <= n
    BY <1>5, <1>6
  <1>9. t.offset \in Count /\ t.exhausted \in Count /\ t.unknown \in Count /\ t.busy \in Count /\ t.cooled \in Count
    BY <1>2, <1>4, <1>5, <1>7, <1>8
  <1>10. t.offset = Judged(t) + 1 /\ t.offset <= Len(t.members) /\ Len(t.members) <= Cardinality(Profile)
    BY <1>2, <1>4, <1>5, <1>6, <1>8 DEF Judged
  <1>11. SelectorCounts(t)
    BY <1>9, <1>10 DEF SelectorCounts
  <1> QED BY <1>2, <1>3, <1>11, BoundsStep

LEMMA SkipBounds ==
  ASSUME SelectionInv, BoundsInv, NEW s \in Selector, SkipCooldown(s) \/ SkipExhausted(s)
  PROVE  BoundsInv'
  <1>1. PICK f \in {"exhausted", "unknown", "busy", "cooled"} :
          /\ selector[s].pc = "pick" /\ selector[s].offset < Len(selector[s].members)
          /\ CountAs(s, f) /\ SQuiet /\ UNCHANGED <<cache, history>>
    BY DEF SkipCooldown, SkipExhausted, Eligible, More
  <1> QED BY <1>1, StoredStays, CountBounds

LEMMA ReserveBounds ==
  ASSUME SelectionInv, BoundsInv, NEW s \in Selector, Reserve(s)
  PROVE  BoundsInv'
  <1>1. /\ selector[s].pc = "pick" /\ selector[s].offset < Len(selector[s].members) /\ SQuiet /\ CacheStored'
        /\ selector[s] \in SelectorType /\ clock \in Stamp
        /\ SelectorTimed(selector[s]) /\ SelectorCounts(selector[s])
    BY StoredStays, StampIs DEF Reserve, Eligible, More, SelectionInv, BoundsInv
  <1>2. CASE Done(s, "error")
    BY <1>1, <1>2, DoneBounds
  <1>3. CASE CountAs(s, "busy")
    BY <1>1, <1>3, CountBounds
  <1>4. CASE selector' = [selector EXCEPT ![s].pc = "probe", ![s].probe_at = clock]
    <2>1. PICK t : /\ t = [selector[s] EXCEPT !.pc = "probe", !.probe_at = clock]
                   /\ selector' = [selector EXCEPT ![s] = t]
      BY <1>4
    <2>2. /\ t.pc = "probe" /\ t.probe_at = clock /\ SamePass(selector[s], t)
          /\ t.trigger_at = selector[s].trigger_at /\ t.signal_at = selector[s].signal_at
          /\ t.evidence_at = selector[s].evidence_at
      BY <1>1, <2>1 DEF SelectorType, SamePass
    <2>3. SelectorTimed(t)
      BY <1>1, <2>2 DEF SelectorTimed
    <2>4. SelectorCounts(t)
      BY <1>1, <2>2 DEF SelectorCounts, SamePass, Judged
    <2> QED BY <1>1, <2>1, <2>3, <2>4, BoundsStep
  <1> QED BY <1>2, <1>3, <1>4 DEF Reserve

LEMMA ProbeBounds ==
  ASSUME SelectionInv, BoundsInv, NEW s \in Selector, Probe(s)
  PROVE  BoundsInv'
  <1>1. /\ selector[s].pc = "probe" /\ SQuiet /\ UNCHANGED signalled
        /\ selector[s] \in SelectorType /\ SelectorInStep(s, selector[s]) /\ CacheInStep /\ CacheStored
        /\ SelectorTimed(selector[s]) /\ SelectorCounts(selector[s])
    BY DEF Probe, SelectionInv, BoundsInv
  <1>2. PICK p \in Profile, at \in Time : p = Candidate(s) /\ at = selector[s].probe_at
    <2>1. CandidateOf(selector[s]) \in Profile
      BY <1>1, CandidateTyped DEF SelectorInStep, SelectorType
    <2> QED BY <1>1, <2>1, CandidateIs, StampIs DEF SelectorInStep, SelectorTimed
  <1>3. PICK r \in Snapshot \cup Failure :
          /\ cache' = Observe(p, r, at) /\ exhaustedAt' = Exhausting(p, r, at)
          /\ \/ /\ FreshlyAvailable(cache'[p], at)
                /\ selector' = [selector EXCEPT ![s].pc = "handoff", ![s].read = r,
                                  ![s].evidence_at = cache'[p].observed_at]
             \/ CountAs(s, "exhausted") \/ CountAs(s, "unknown")
    BY <1>2 DEF Probe
  <1>4. CacheStored'
    BY <1>1, <1>3, ObserveStored
  <1>5. CASE CountAs(s, "exhausted") \/ CountAs(s, "unknown")
    <2>1. selector[s].offset < Len(selector[s].members)
      BY <1>1 DEF SelectorInStep
    <2> QED BY <1>1, <1>4, <1>5, <2>1, CountBounds
  <1>6. CASE /\ FreshlyAvailable(cache'[p], at)
             /\ selector' = [selector EXCEPT ![s].pc = "handoff", ![s].read = r,
                               ![s].evidence_at = cache'[p].observed_at]
    <2>1. PICK o \in Stamp : o = cache'[p].observed_at
      <3>1. cache'[p] # NoEntry
        BY <1>6 DEF FreshlyAvailable, View
      <3> QED BY <1>4, <3>1, StampIs DEF CacheStored, IsStored, Entry
    <2>2. PICK t : /\ t = [selector[s] EXCEPT !.pc = "handoff", !.read = r, !.evidence_at = o]
                   /\ selector' = [selector EXCEPT ![s] = t]
      BY <1>6, <2>1
    <2>3. /\ t.pc = "handoff" /\ t.evidence_at = o /\ SamePass(selector[s], t)
          /\ t.trigger_at = selector[s].trigger_at /\ t.signal_at = selector[s].signal_at
          /\ t.probe_at = selector[s].probe_at
      BY <1>1, <2>2 DEF SelectorType, SamePass
    <2>4. SelectorTimed(t)
      BY <1>1, <2>3 DEF SelectorTimed
    <2>5. SelectorCounts(t)
      BY <1>1, <2>3 DEF SelectorCounts, SamePass, Judged
    <2> QED BY <1>1, <1>4, <2>2, <2>4, <2>5, BoundsStep
  <1> QED BY <1>3, <1>5, <1>6

LEMMA HandOffBounds ==
  ASSUME SelectionInv, BoundsInv, NEW s \in Selector, HandOff(s)
  PROVE  BoundsInv'
  <1>1. /\ SQuiet /\ CacheStored' /\ selector[s] \in SelectorType
        /\ SelectorTimed(selector[s]) /\ SelectorCounts(selector[s])
    BY StoredStays DEF HandOff, SelectionInv, BoundsInv
  <1>2. CASE Done(s, "error")
    BY <1>1, <1>2, DoneBounds
  <1>3. CASE ~Done(s, "error")
    <2>1. PICK p, c : /\ c = selector[s].cooldown \cup {p}
                      /\ selector' = [selector EXCEPT ![s].pc = "run", ![s].source = p,
                            ![s].cooldown = @ \cup {p}, ![s].offset = 0, ![s].probe_at = Unset,
                            ![s].read = "none", ![s].evidence_at = Unset, ![s].trigger_at = Unset]
      BY <1>3 DEF HandOff
    <2>2. PICK u : u = [selector[s] EXCEPT !.pc = "run", !.source = p, !.cooldown = c, !.offset = 0]
      OBVIOUS
    <2>3. /\ DOMAIN u = DOMAIN selector[s] /\ u.pc = "run" /\ u.offset = 0 /\ u.signal_at = selector[s].signal_at
          /\ u.exhausted = selector[s].exhausted /\ u.unknown = selector[s].unknown
          /\ u.busy = selector[s].busy /\ u.cooled = selector[s].cooled
      BY <1>1, <2>2 DEF SelectorType
    <2>4. PICK t : t = [u EXCEPT !.probe_at = Unset, !.read = "none", !.evidence_at = Unset, !.trigger_at = Unset]
      OBVIOUS
    <2>5. /\ t.pc = "run" /\ t.offset = 0 /\ t.signal_at = selector[s].signal_at
          /\ t.exhausted = selector[s].exhausted /\ t.unknown = selector[s].unknown
          /\ t.busy = selector[s].busy /\ t.cooled = selector[s].cooled
          /\ t.probe_at = Unset /\ t.evidence_at = Unset /\ t.trigger_at = Unset
      BY <1>1, <2>3, <2>4 DEF SelectorType
    <2>6. selector' = [selector EXCEPT ![s] = t]
      <3>1. PICK g : g = [selector EXCEPT ![s].pc = "run", ![s].source = p, ![s].cooldown = c, ![s].offset = 0]
        OBVIOUS
      <3>2. selector' = [selector EXCEPT ![s].pc = "run", ![s].source = p,
                           ![s].cooldown = c, ![s].offset = 0, ![s].probe_at = Unset,
                           ![s].read = "none", ![s].evidence_at = Unset, ![s].trigger_at = Unset]
        BY <1>1, <2>1 DEF SelectorType
      <3>3. selector' = [g EXCEPT ![s].probe_at = Unset, ![s].read = "none", ![s].evidence_at = Unset,
                                  ![s].trigger_at = Unset]
        BY <3>1, <3>2
      <3>4. g = [selector EXCEPT ![s] = u]
        BY <2>2, <3>1
      <3>5. g[s] = u
        BY <3>4 DEF SelectionInv
      <3>6. selector' = [g EXCEPT ![s] = t]
        BY <2>4, <3>3, <3>5
      <3> QED BY <3>4, <3>6
    <2>7. SelectorTimed(t)
      BY <1>1, <2>5, StampIs DEF SelectorTimed
    <2>8. SelectorCounts(t)
      BY <1>1, <2>5, CountIs DEF SelectorCounts
    <2> QED BY <1>1, <2>6, <2>7, <2>8, BoundsStep
  <1> QED BY <1>2, <1>3

LEMMA SelectKeepsBounds ==
  ASSUME SelectionInv, BoundsInv, NEW s \in Selector, Select(s)
  PROVE  BoundsInv'
  <1>1. Stop(s) => BoundsInv'
    BY StoredStays, DoneBounds DEF Stop
  <1> QED BY <1>1, StartBounds, GenerationEndsBounds, LockSourceBounds, RevalidateBounds, TriggerBounds, ReadPoolBounds,
             SkipBounds, ReserveBounds, ProbeBounds, HandOffBounds DEF Select

------------------------------------------------------------------------------
(* The other commands, and type correctness *)

(* A step that no invocation takes. *)
LEMMA QuietBounds ==
  ASSUME BoundsInv, UNCHANGED selector, CacheStored', clock' \in Time,
         \A o \in Observer : observer'[o].pc = "record" => observer'[o].at \in Time
  PROVE  BoundsInv'
  <1>1. \A s \in Selector : SelectorTimed(selector[s])' /\ SelectorCounts(selector[s])'
    BY DEF BoundsInv, SelectorTimed, SelectorCounts, Judged
  <1> QED BY <1>1 DEF BoundsInv

LEMMA StatusKeepsBounds ==
  ASSUME SelectionInv, BoundsInv, NEW o \in Observer, Status(o)
  PROVE  BoundsInv'
  <1>1. /\ clock \in Time /\ CacheInStep /\ CacheStored
        /\ observer \in [Observer -> ObserverState] /\ observer[o] \in ObserverState
        /\ \A x \in Observer : observer[x].pc = "record" => observer[x].at \in Time
    BY DEF SelectionInv, BoundsInv
  <1>2. UNCHANGED <<selector, clock>>
    BY DEF Status, StatusLock, StatusRead, StatusStamp, StatusRecord
  <1>3. ASSUME NEW t, observer' = [observer EXCEPT ![o] = t], t.pc = "record" => t.at \in Time, CacheStored'
        PROVE  BoundsInv'
    <2>1. \A x \in Observer : observer'[x] = IF x = o THEN t ELSE observer[x]
      BY <1>1, <1>3
    <2>2. \A x \in Observer : observer'[x].pc = "record" => observer'[x].at \in Time
      BY <1>1, <1>3, <2>1
    <2> QED BY <1>1, <1>2, <1>3, <2>2, QuietBounds
  <1>4. CASE StatusLock(o)
    <2>1. PICK p, t : t = [pc |-> "read", profile |-> p] /\ observer' = [observer EXCEPT ![o] = t]
      BY <1>4 DEF StatusLock
    <2> QED BY <1>3, <1>4, <2>1, StoredStays DEF StatusLock
  <1>5. CASE StatusRead(o)
    <2>1. PICK r, t : /\ t = [pc |-> "stamp", profile |-> observer[o].profile, result |-> r]
                      /\ observer' = [observer EXCEPT ![o] = t]
      BY <1>5 DEF StatusRead
    <2> QED BY <1>3, <1>5, <2>1, StoredStays DEF StatusRead
  <1>6. CASE StatusStamp(o)
    <2>1. PICK t : /\ t = [pc |-> "record", profile |-> observer[o].profile,
                           result |-> observer[o].result, at |-> clock]
                   /\ observer' = [observer EXCEPT ![o] = t]
      BY <1>6 DEF StatusStamp
    <2> QED BY <1>1, <1>3, <1>6, <2>1, StoredStays DEF StatusStamp
  <1>7. CASE StatusRecord(o)
    <2>1. PICK p \in Profile, r \in Snapshot \cup Failure, at \in Time :
            p = observer[o].profile /\ r = observer[o].result /\ at = observer[o].at
      BY <1>1, <1>7, ObserverKinds DEF StatusRecord
    <2>2. /\ cache' = Observe(p, r, at) /\ exhaustedAt' = Exhausting(p, r, at) /\ UNCHANGED signalled
          /\ observer' = [observer EXCEPT ![o] = Ended] /\ Ended.pc # "record"
      BY <1>7, <2>1 DEF StatusRecord, Ended
    <2>3. CacheStored'
      BY <1>1, <2>2, ObserveStored
    <2> QED BY <1>3, <2>2, <2>3
  <1> QED BY <1>4, <1>5, <1>6, <1>7 DEF Status

LEMMA InitBounds == Init => BoundsInv
  <1> SUFFICES ASSUME Init PROVE BoundsInv
    OBVIOUS
  <1>1. CacheStored
    BY StampIs DEF Init, CacheStored
  <1>2. clock \in Time
    BY UsageAssumption DEF Init, Time
  <1>3. \A s \in Selector : SelectorTimed(selector[s]) /\ SelectorCounts(selector[s])
    <2>1. SelectorTimed(Start0) /\ SelectorCounts(Start0)
      BY StampIs, CountIs DEF Start0, SelectorTimed, SelectorCounts
    <2> QED BY <2>1 DEF Init
  <1>4. \A o \in Observer : observer[o].pc = "record" => observer[o].at \in Time
    BY DEF Init, Idle
  <1> QED BY <1>1, <1>2, <1>3, <1>4 DEF BoundsInv

LEMMA NextBounds ==
  ASSUME SelectionInv, BoundsInv, [Next]_vars
  PROVE  BoundsInv'
  <1>1. ASSUME \/ UNCHANGED vars \/ Tick \/ \E e \in Editor : EditStep(e)
        PROVE  BoundsInv'
    <2>1. UNCHANGED <<selector, observer>> /\ UNCHANGED <<cache, history>> /\ clock' \in {clock, clock + 1}
          /\ (clock' # clock => clock < MaxTime)
      BY <1>1 DEF vars, Tick, EditStep
    <2>2. clock' \in Time
      BY <2>1, UsageAssumption DEF BoundsInv, Time
    <2> QED BY <2>1, <2>2, StoredStays, QuietBounds DEF BoundsInv
  <1> QED BY <1>1, SelectKeepsBounds, StatusKeepsBounds DEF Next

(* Type correctness: every entry of the cache is one that                   *)
(* CacheDocument::validate accepts after any order of reads, failures,      *)
(* retries and signals (usage_observations.rs), the definitions are valid,  *)
(* and a pass over a pool judges no more candidates than there are profiles *)
(* (select_once).                                                           *)
THEOREM SelectionTypeCorrect == Spec => []TypeOK
  <1>1. SelectionInv /\ BoundsInv => TypeOK
    <2> SUFFICES ASSUME SelectionInv, BoundsInv PROVE TypeOK
      OBVIOUS
    <2>1. cache \in [Profile -> Entry \cup {NoEntry}] /\ ValidCache
      BY DEF SelectionInv, BoundsInv, CacheInStep, CacheStored, IsStored, ValidCache
    <2>2. ASSUME NEW s \in Selector PROVE selector[s] \in SelectorState
      <3>1. PICK t \in SelectorType : t = selector[s] /\ SelectorTimed(t) /\ SelectorCounts(t)
        BY DEF SelectionInv, BoundsInv
      <3>2. t \in SelectorState
        BY <3>1 DEF SelectorType, SelectorState, SelectorTimed, SelectorCounts
      <3> QED BY <3>1, <3>2
    <2> QED BY <2>1, <2>2 DEF SelectionInv, BoundsInv, CacheStored, TypeOK
  <1>2. SelectionInv /\ BoundsInv /\ [Next]_vars => BoundsInv'
    BY NextBounds
  <1>3. Spec => [](SelectionInv /\ BoundsInv)
    BY <1>2, InitBounds, SelectionInvariant, PTL DEF Spec
  <1> QED BY <1>1, <1>3, PTL

==============================================================================
