----------------------------- MODULE Selection -----------------------------
(***************************************************************************)
(* The failover loop as it chooses profiles: supervised generations end    *)
(* with a usage limit, the limit is revalidated, and one pass over the     *)
(* enabled pool reserves the first profile with capacity                   *)
(* (routing/selection.rs, codex/selection_runtime.rs, codex/failover.rs).  *)
(* It shares the usage cache with `status' commands and the definitions    *)
(* and the leases with routing commands.                                   *)
(*                                                                         *)
(* The answer of the provider to a usage read is any answer.  The clock is *)
(* the wall clock in seconds and is not set back.  The handoff itself is   *)
(* module Handoff; here it starts the target's generation or fails.        *)
(***************************************************************************)
EXTENDS UsageObservations, Routing

CONSTANTS
  Selector,    \* failover invocations
  Observer,    \* status commands
  First        \* profiles that invocations start from

ASSUME SelectionAssumption ==
  /\ Free \notin Selector \cup Observer
  /\ Selector \cap Editor = {} /\ Observer \cap (Selector \cup Editor) = {}
  /\ First \subseteq Profile

VARIABLES
  clock,
  selector,    \* Selector -> state of the invocation
  observer,    \* Observer -> state of the command
  signalled,   \* history: last usage-limit signal of a profile
  exhaustedAt  \* history: latest stamp of a read that found it exhausted

history == <<signalled, exhaustedAt>>
vars == <<cache, routing, clock, selector, observer, history>>

Stamp == Time \cup {Unset}
Count == 0..Cardinality(Profile)

SelectorState ==
  [pc : {"idle", "run", "signal", "revalidate", "trigger", "pool",
         "pick", "probe", "handoff", "done"},
   source : Profile \cup {0}, cooldown : SUBSET Profile,
   pool_id : Pool \cup {Free}, members : Seq(Profile),
   ended_revision : Nat,    \* history: the revision when the generation ended
   revision : Nat,          \* the revision of the pool in use
   signal_at : Stamp, trigger_at : Stamp,
   offset : Count,
   probe_at : Stamp, read : Snapshot \cup Failure \cup {"none"},
   evidence_at : Stamp,
   exhausted : Count, unknown : Count, busy : Count, cooled : Count,
   outcome : {"none", "error", "exited", "Exhausted", "Busy", "AllUnknown", "NoEligible"}]

TypeOK ==
  /\ cache \in [Profile -> Entry \cup {NoEntry}] /\ ValidCache
  /\ IsDefinitions(defs) /\ Valid(defs)
  /\ lease \in [Profile -> Editor \cup Selector \cup Observer \cup {Free}]
  /\ clock \in Time
  /\ \A s \in Selector : selector[s] \in SelectorState
  /\ signalled \in [Profile -> Stamp] /\ exhaustedAt \in [Profile -> Stamp]

Start0 ==
  [pc |-> "idle", source |-> 0, cooldown |-> {}, pool_id |-> Free, members |-> << >>,
   ended_revision |-> 0, revision |-> 0, signal_at |-> Unset, trigger_at |-> Unset,
   offset |-> 0, probe_at |-> Unset, read |-> "none", evidence_at |-> Unset,
   exhausted |-> 0, unknown |-> 0, busy |-> 0, cooled |-> 0, outcome |-> "none"]

Init ==
  /\ cache = [p \in Profile |-> NoEntry]
  /\ defs = Definitions0
  /\ lease = [p \in Profile |-> Free]
  /\ editor = [e \in Editor |-> Idle]
  /\ clock = 0
  /\ selector = [s \in Selector |-> Start0]
  /\ observer = [o \in Observer |-> Idle]
  /\ signalled = [p \in Profile |-> Unset]
  /\ exhaustedAt = [p \in Profile |-> Unset]

-----------------------------------------------------------------------------
(* The failover invocation. *)

SQuiet == UNCHANGED <<defs, editor, clock, observer>>

(* The pool is named, and the first generation runs under its lease. *)
Start(s) ==
  /\ selector[s].pc = "idle"
  /\ \E q \in DOMAIN defs.pools, p \in First :
       /\ lease[p] = Free
       /\ lease' = [lease EXCEPT ![p] = s]
       /\ selector' = [selector EXCEPT ![s].pc = "run", ![s].source = p,
                                       ![s].cooldown = {p}, ![s].pool_id = q]
  /\ SQuiet /\ UNCHANGED <<cache, history>>

(* What an invocation that ends leaves. *)
Done(s, outcome) ==
  /\ selector' = [selector EXCEPT ![s] = [Start0 EXCEPT !.pc = "done", !.outcome = outcome]]
  /\ lease' = Released(s)

(* A generation ends: by its usage limit, or otherwise, which ends the      *)
(* invocation.  Its processes release their lease, and the invocation that  *)
(* of the source it ran from.                                               *)
GenerationEnds(s) ==
  /\ selector[s].pc = "run"
  /\ \/ /\ selector' = [selector EXCEPT ![s].pc = "signal", ![s].signal_at = clock,
                                        ![s].ended_revision = defs.revision]
        /\ lease' = Released(s)
     \/ Done(s, "exited")
  /\ SQuiet /\ UNCHANGED <<cache, history>>

(* The source is locked again and its entry invalidated. *)
LockSource(s) ==
  /\ selector[s].pc = "signal"
  /\ LET p == selector[s].source IN
     \/ /\ lease[p] = Free
        /\ lease' = [lease EXCEPT ![p] = s]
        /\ cache' = require_revalidation(p, selector[s].signal_at)
        /\ signalled' = [signalled EXCEPT ![p] = selector[s].signal_at]
        /\ selector' = [selector EXCEPT ![s].pc = "revalidate"]
     \/ lease[p] # Free /\ Done(s, "error") /\ UNCHANGED <<cache, signalled>>
  /\ SQuiet /\ UNCHANGED exhaustedAt

Exhausting(p, result, at) ==
  IF result = "exhausted" THEN [exhaustedAt EXCEPT ![p] = Max({@, at})] ELSE exhaustedAt

(* The source is read, and the answer stamped when it has come; a read that *)
(* fails is not recorded.                                                   *)
Revalidate(s) ==
  /\ selector[s].pc = "revalidate"
  /\ \/ /\ \E r \in Snapshot :
             selector' = [selector EXCEPT ![s].pc = "trigger", ![s].read = r,
                                          ![s].probe_at = clock]
        /\ UNCHANGED lease
     \/ Done(s, "error")
  /\ SQuiet /\ UNCHANGED <<cache, history>>

(* SelectionTrigger::revalidated_usage_limit on the entry that the cache    *)
(* holds once the answer is recorded.                                       *)
Trigger(s) ==
  /\ selector[s].pc = "trigger"
  /\ LET p == selector[s].source
         at == selector[s].probe_at IN
     /\ cache' = observe_usage(p, selector[s].read, at)
     /\ exhaustedAt' = Exhausting(p, selector[s].read, at)
     /\ IF View(cache'[p], at) = "exhausted" /\ cache'[p].observed_at >= selector[s].signal_at
        THEN /\ selector' = [selector EXCEPT ![s].pc = "pool", ![s].read = "none",
                               ![s].probe_at = Unset, ![s].trigger_at = cache'[p].observed_at]
             /\ UNCHANGED lease
        ELSE Done(s, "error")
  /\ SQuiet /\ UNCHANGED signalled

(* Mutant of EnabledPool: the pool of an earlier round is kept. *)
EnabledPoolKept(s) ==
  IF selector[s].members # << >>
  THEN {<<selector[s].members, selector[s].revision>>}
  ELSE {<<defs.pools[q].members, defs.revision>> :
          q \in {q \in DOMAIN defs.pools \cap {selector[s].pool_id} :
                   defs.pools[q].active /\ selector[s].source \in Range(defs.pools[q].members)}}

(* enabled_pool_for_source on the document as it is now. *)
EnabledPool(s) ==
  {<<defs.pools[q].members, defs.revision>> :
     q \in {q \in DOMAIN defs.pools \cap {selector[s].pool_id} :
              defs.pools[q].active /\ selector[s].source \in Range(defs.pools[q].members)}}

ReadPool(s) ==
  /\ selector[s].pc = "pool"
  /\ \/ \E x \in EnabledPool(s) :
          /\ selector' = [selector EXCEPT ![s].pc = "pick", ![s].members = x[1],
                            ![s].revision = x[2], ![s].offset = 1,
                            ![s].exhausted = 0, ![s].unknown = 0,
                            ![s].busy = 0, ![s].cooled = 0]
          /\ UNCHANGED lease
     \/ EnabledPool(s) = {} /\ Done(s, "error")
  /\ SQuiet /\ UNCHANGED <<cache, history>>

-----------------------------------------------------------------------------
(* select_once: one pass, beginning after the source. *)

More(s) == selector[s].pc = "pick" /\ selector[s].offset < Len(selector[s].members)

Candidate(s) ==
  LET m == selector[s].members
      i == CHOOSE i \in DOMAIN m : m[i] = selector[s].source
  IN m[((i - 1 + selector[s].offset) % Len(m)) + 1]

(* Counts the candidate and goes on to the next. *)
CountAs(s, field) ==
  LET more(k) == IF field = k THEN 1 ELSE 0 IN
  selector' = [selector EXCEPT ![s].pc = "pick", ![s].offset = @ + 1, ![s].probe_at = Unset,
                 ![s].exhausted = @ + more("exhausted"), ![s].unknown = @ + more("unknown"),
                 ![s].busy = @ + more("busy"), ![s].cooled = @ + more("cooled")]

SkipCooldown(s) ==
  /\ More(s) /\ Candidate(s) \in selector[s].cooldown
  /\ CountAs(s, "cooled")
  /\ SQuiet /\ UNCHANGED <<cache, lease, history>>

Eligible(s) == More(s) /\ Candidate(s) \notin selector[s].cooldown

CachedExhaustion(s) == View(cache[Candidate(s)], clock) = "exhausted"

SkipExhausted(s) ==
  /\ Eligible(s) /\ CachedExhaustion(s)
  /\ CountAs(s, "exhausted")
  /\ SQuiet /\ UNCHANGED <<cache, lease, history>>

(* reserve_verified_codex_target: the lease and the identity; the stamp of  *)
(* the read is taken before it.  An identity that cannot be verified ends   *)
(* the selection.  The cached check, the lease and the stamp are one step:  *)
(* the check only spares a read, and an entry that turns exhausted after it *)
(* is met by Probe, which judges the entry the cache holds by then.         *)
Reserve(s) ==
  /\ Eligible(s) /\ ~CachedExhaustion(s)
  /\ LET p == Candidate(s) IN
     \/ /\ lease[p] = Free
        /\ lease' = [lease EXCEPT ![p] = s]
        /\ selector' = [selector EXCEPT ![s].pc = "probe", ![s].probe_at = clock]
     \/ lease[p] # Free /\ CountAs(s, "busy") /\ UNCHANGED lease
     \/ lease[p] = Free /\ Done(s, "error")
  /\ SQuiet /\ UNCHANGED <<cache, history>>

(* Mutant of FreshlyAvailable: whatever is not exhausted will do. *)
NotExhausted(e, at) == View(e, at) # "exhausted"

FreshlyAvailable(e, at) == View(e, at) = "available" /\ e.source = "read"

(* The read under the reservation is recorded, and the candidate judged by  *)
(* the entry that the cache then holds.                                     *)
Probe(s) ==
  /\ selector[s].pc = "probe"
  /\ \E r \in Snapshot \cup Failure :
       LET p == Candidate(s)
           at == selector[s].probe_at IN
       /\ cache' = Observe(p, r, at)
       /\ exhaustedAt' = Exhausting(p, r, at)
       /\ IF /\ r \notin Failure /\ FreshlyAvailable(cache'[p], at)
             /\ cache'[p].observed_at >= selector[s].trigger_at
          THEN /\ selector' = [selector EXCEPT ![s].pc = "handoff", ![s].read = r,
                                 ![s].evidence_at = cache'[p].observed_at]
               /\ UNCHANGED lease
          ELSE /\ lease' = [lease EXCEPT ![p] = Free]
               /\ CountAs(s, IF r \notin Failure /\ View(cache'[p], at) = "exhausted"
                             THEN "exhausted" ELSE "unknown")
  /\ SQuiet /\ UNCHANGED signalled

(* The handoff attaches the target's generation, or fails. *)
HandOff(s) ==
  /\ selector[s].pc = "handoff"
  /\ \/ /\ selector' = [selector EXCEPT ![s].pc = "run", ![s].source = Candidate(s),
                          ![s].cooldown = @ \cup {Candidate(s)},
                          ![s].offset = 0, ![s].probe_at = Unset, ![s].read = "none",
                          ![s].evidence_at = Unset, ![s].trigger_at = Unset]
        /\ UNCHANGED lease
     \/ Done(s, "error")
  /\ SQuiet /\ UNCHANGED <<cache, history>>

Outcome(s) ==
  LET t == selector[s]
      eligible == Len(t.members) - 1 - t.cooled
  IN CASE eligible = 0 -> "NoEligible"
       [] eligible # 0 /\ t.exhausted = eligible -> "Exhausted"
       [] eligible # 0 /\ t.exhausted # eligible /\ t.busy > 0 -> "Busy"
       [] OTHER -> "AllUnknown"

Stop(s) ==
  /\ selector[s].pc = "pick" /\ ~More(s)
  /\ Done(s, Outcome(s))
  /\ SQuiet /\ UNCHANGED <<cache, history>>

Select(s) == \/ Start(s) \/ GenerationEnds(s) \/ LockSource(s) \/ Revalidate(s)
             \/ Trigger(s) \/ ReadPool(s) \/ SkipCooldown(s) \/ SkipExhausted(s) \/ Reserve(s)
             \/ Probe(s) \/ HandOff(s) \/ Stop(s)

-----------------------------------------------------------------------------
(* status: the lease is held for the read, and released before the answer   *)
(* is stamped and then recorded (inspect_profile).                          *)

(* Bound: routing and status commands meet in nothing but the leases, which *)
(* may be taken anyway, so a behaviour has one kind of them.                *)
NoRouting == \A e \in Editor : editor[e] = Idle
NoStatus == \A o \in Observer : observer[o] = Idle

StatusLock(o) ==
  /\ observer[o] = Idle /\ NoRouting
  /\ \E p \in Profile :
       /\ lease[p] = Free
       /\ lease' = [lease EXCEPT ![p] = o]
       /\ observer' = [observer EXCEPT ![o] = [pc |-> "read", profile |-> p]]
  /\ UNCHANGED <<cache, defs, editor, clock, selector, history>>

StatusRead(o) ==
  /\ observer[o].pc = "read"
  /\ \E r \in Snapshot \cup Failure :
       observer' = [observer EXCEPT ![o] =
                      [pc |-> "stamp", profile |-> observer[o].profile, result |-> r]]
  /\ lease' = Released(o)
  /\ UNCHANGED <<cache, defs, editor, clock, selector, history>>

StatusStamp(o) ==
  /\ observer[o].pc = "stamp"
  /\ observer' = [observer EXCEPT ![o] =
                    [pc |-> "record", profile |-> observer[o].profile,
                     result |-> observer[o].result, at |-> clock]]
  /\ UNCHANGED <<cache, routing, clock, selector, history>>

StatusRecord(o) ==
  /\ observer[o].pc = "record"
  /\ LET t == observer[o] IN
     /\ cache' = Observe(t.profile, t.result, t.at)
     /\ exhaustedAt' = Exhausting(t.profile, t.result, t.at)
  /\ observer' = [observer EXCEPT ![o] = Ended]
  /\ UNCHANGED <<routing, clock, selector, signalled>>

Status(o) == StatusLock(o) \/ StatusRead(o) \/ StatusStamp(o) \/ StatusRecord(o)

Tick == /\ clock < MaxTime /\ clock' = clock + 1
        /\ UNCHANGED <<cache, routing, selector, observer, history>>

EditStep(e) ==
  /\ NoStatus
  /\ Edit(e)
  /\ UNCHANGED <<cache, clock, selector, observer, history>>

Next == \/ \E s \in Selector : Select(s)
        \/ \E o \in Observer : Status(o)
        \/ \E e \in Editor : EditStep(e)
        \/ Tick

Spec == Init /\ [][Next]_vars

-----------------------------------------------------------------------------
(* Properties. *)

(* A usage-limit signal keeps its profile from counting as available until  *)
(* a snapshot stamped no earlier has replaced it, in whatever order the     *)
(* reads and signals of several commands reach the cache.  (A snapshot kept *)
(* through a later failure is for display and does not count.)              *)
SignalHolds ==
  \A p \in Profile :
    LET e == cache[p] IN
    e.availability = "available" /\ e.last_failure = "none" =>
      e.observed_at >= signalled[p]

(* A target is handed off to on evidence no older than the exhaustion that  *)
(* triggered the selection: its own read found it available, unless an      *)
(* observation stamped after that read did.                                 *)
SelectedOnEvidence ==
  \A s \in Selector :
    LET t == selector[s] IN
    t.pc = "handoff" =>
      /\ t.evidence_at >= t.trigger_at /\ t.trigger_at >= t.signal_at
      /\ t.read = "available" \/ t.evidence_at > t.probe_at

(* Only the read under the reservation authorises a target: the cache       *)
(* `never substitutes for the target-profile lease and fresh in-lease       *)
(* revalidation required by selection' (architecture.md).                   *)
InLeaseReadAuthorises ==
  \A s \in Selector : selector[s].pc = "handoff" => selector[s].read = "available"

(* A candidate counts as exhausted only while a read that found it          *)
(* exhausted is fresh.                                                      *)
NoFalseExhausted ==
  [][\A s \in Selector :
       selector'[s].exhausted > selector[s].exhausted =>
         LET now == IF selector[s].pc = "probe" THEN selector[s].probe_at ELSE clock
             seen == exhaustedAt'[Candidate(s)]
         IN seen # Unset /\ now - seen < FreshTtl]_vars

(* A handoff follows a pool that was enabled at some time after the         *)
(* generation ended: a disable during the generation takes effect.          *)
PolicyIsCurrent ==
  \A s \in Selector :
    selector[s].pc = "handoff" => selector[s].revision >= selector[s].ended_revision

(* A pool becomes enabled only with members that the enabling command has   *)
(* verified and holds, whatever other commands did to it since it was read. *)
EnabledAreVerified ==
  [][\A q \in DOMAIN defs'.pools :
       defs'.pools[q].active /\ ~(q \in DOMAIN defs.pools /\ defs.pools[q].active) =>
         \E e \in Editor : Range(defs'.pools[q].members) \subseteq Holding(e)]_vars
=============================================================================
