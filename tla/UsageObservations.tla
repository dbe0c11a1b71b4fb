------------------------- MODULE UsageObservations -------------------------
(***************************************************************************)
(* The shared cache of usage observations (usage_observations.rs): one     *)
(* entry per profile, replaced by usage snapshots, failed reads and        *)
(* usage-limit signals, each stamped by its writer before it is written.   *)
(*                                                                         *)
(* Every update is one transaction under the cache lock.  A snapshot is    *)
(* what classify makes of it.  Left out: versions, the usage figures and   *)
(* the audit trail, which no reader of the entries looks at.               *)
(***************************************************************************)
EXTENDS Integers, Leases

CONSTANTS
  MaxTime,      \* bound on the clock
  FreshTtl,     \* ObservationPolicy: a snapshot is fresh this long
  RetryBase,    \* first retry delay
  RetryMax,     \* longest retry delay
  FailureLimit  \* where consecutive_failures saturates

ASSUME UsageAssumption ==
  /\ MaxTime \in Nat
  /\ {FreshTtl, RetryBase, FailureLimit} \subseteq Nat \ {0}
  /\ RetryMax \in Nat /\ RetryMax >= RetryBase

VARIABLE cache

Time == 0..MaxTime
Unset == -1

Snapshot == {"available", "exhausted", "unknown"}   \* classify
Failure == {"unsupported", "other"}                 \* StoredFailure
Source == {"read", "signal"}   \* authoritative reads; UsageLimitSignal

Entry ==
  [availability : Snapshot \cup {"unsupported"}, source : Source,
   usage : BOOLEAN,             \* the entry holds a snapshot
   observed_at : Time, latest_event_at : Time,
   expires_at : Nat \cup {Unset}, required_at : Time \cup {Unset},
   failures : 0..FailureLimit, next_refresh_at : Nat,
   last_failure : Failure \cup {"none"}]

NoEntry == [availability |-> "none"]

(* CacheDocument::validate, which every transaction ends with. *)
ValidEntry(e) ==
  /\ e.latest_event_at >= e.observed_at
  /\ e.next_refresh_at >= e.latest_event_at
  /\ e.expires_at # Unset => e.expires_at >= e.observed_at
  /\ e.required_at # Unset =>
       /\ e.required_at <= e.latest_event_at
       /\ e.source = "signal" /\ e.last_failure = "none"
       /\ e.next_refresh_at = e.required_at
  /\ IF e.usage THEN e.expires_at # Unset
     ELSE e.availability \notin {"available", "exhausted"}
  /\ e.availability = "unsupported" =>
       e.last_failure = "unsupported" /\ ~e.usage

ValidCache ==
  \A p \in Profile : cache[p] # NoEntry => cache[p] \in Entry /\ ValidEntry(cache[p])

-----------------------------------------------------------------------------
retry_at(at, failures) ==
  LET shift == IF failures > 30 THEN 30 ELSE failures - 1
      delay == RetryBase * 2^shift
  IN at + (IF delay < RetryMax THEN delay ELSE RetryMax)

(* Mutant of is_out_of_order: whatever arrives last is kept. *)
never_out_of_order(p, at) == FALSE

is_out_of_order(p, at) == cache[p] # NoEntry /\ at < cache[p].latest_event_at

(* The transactions, as the next cache. *)
Replace(p, at, entry) ==
  IF is_out_of_order(p, at) THEN cache ELSE [cache EXCEPT ![p] = entry]

observe_usage(p, snapshot, at) ==
  Replace(p, at,
    [availability |-> snapshot, source |-> "read", usage |-> TRUE,
     observed_at |-> at, latest_event_at |-> at,
     expires_at |-> at + FreshTtl, required_at |-> Unset, failures |-> 0,
     next_refresh_at |-> at + FreshTtl, last_failure |-> "none"])

Failures(p) ==
  IF cache[p] = NoEntry THEN 1
  ELSE IF cache[p].failures = FailureLimit THEN FailureLimit
  ELSE cache[p].failures + 1

(* A failed read keeps the last snapshot for display, unless the provider   *)
(* is not supported at all.                                                 *)
observe_failure(p, failure, at) ==
  Replace(p, at,
    IF failure # "unsupported" /\ cache[p] # NoEntry /\ cache[p].usage
    THEN [cache[p] EXCEPT !.latest_event_at = at, !.required_at = Unset,
                          !.failures = Failures(p),
                          !.next_refresh_at = retry_at(at, Failures(p)),
                          !.last_failure = failure]
    ELSE [availability |-> IF failure = "unsupported" THEN failure ELSE "unknown",
          source |-> "read", usage |-> FALSE,
          observed_at |-> at, latest_event_at |-> at,
          expires_at |-> Unset, required_at |-> Unset,
          failures |-> Failures(p),
          next_refresh_at |-> retry_at(at, Failures(p)),
          last_failure |-> failure])

(* Mutant of require_revalidation: the last failure is not cleared. *)
require_revalidation_after_failure(p, at) ==
  Replace(p, at,
    [availability |-> "unknown", source |-> "signal", usage |-> FALSE,
     observed_at |-> at, latest_event_at |-> at,
     expires_at |-> Unset, required_at |-> at, failures |-> 0,
     next_refresh_at |-> at,
     last_failure |-> IF cache[p] = NoEntry THEN "none" ELSE cache[p].last_failure])

(* The usage-limit signal of a stopped session. *)
require_revalidation(p, at) ==
  Replace(p, at,
    [availability |-> "unknown", source |-> "signal", usage |-> FALSE,
     observed_at |-> at, latest_event_at |-> at,
     expires_at |-> Unset, required_at |-> at, failures |-> 0,
     next_refresh_at |-> at, last_failure |-> "none"])

(* The result of a read, recorded. *)
Observe(p, result, at) ==
  IF result \in Failure THEN observe_failure(p, result, at)
  ELSE observe_usage(p, result, at)

(* Mutant of Expired: a snapshot never becomes stale. *)
NeverExpired(e, now) == FALSE

Expired(e, now) == e.expires_at # Unset /\ now >= e.expires_at

(* CacheDocument::view, as far as the selector tells views apart: the       *)
(* availability of a fresh entry, or `stale' for each that is not fresh.    *)
View(e, now) ==
  CASE e = NoEntry -> "none"
    [] e # NoEntry /\ e.required_at >= e.observed_at -> "revalidation_required"
    [] e # NoEntry /\ e.required_at < e.observed_at
         /\ (e.last_failure # "none" \/ Expired(e, now)) -> "stale"
    [] OTHER -> e.availability
=============================================================================
