------------------------------- MODULE Dns -------------------------------
(* The DNS target cache of src/src/dns.rs: which address a host name stands *)
(* for, when it is looked up again, and when a remembered address may still *)
(* be used.  The operators are pure; Daemon drives them.                     *)
(*                                                                          *)
(* Simplifications                                                          *)
(*  - last_success_unix and cache_written_unix are only ever written         *)
(*    together (accept_answer), so "written" stands for both.                *)
(*  - failure_reason is wording and is left out.                             *)
(*  - the textual order of addresses is the constant Rank.                   *)
EXTENDS Integers

CONSTANTS
    Address,        \* addresses an answer may contain
    Host,           \* host names a target may have
    Family,         \* address families
    FamilyOf,       \* the family of each address
    Forbidden,      \* addresses validate_target_address rejects (loopback, ...)
    Rank,           \* order of the addresses' textual forms
    MinRefresh, MaxRefresh, MaxCacheAge,    \* 60 s, 15 min, 1 h in the code
    JitterCap,                              \* 15 s in the code
    NoAddress, NoDns

ASSUME AddressAssumption ==
    /\ FamilyOf \in [Address -> Family]
    /\ Rank \in [Address -> Nat]
    /\ \A a, b \in Address : Rank[a] = Rank[b] => a = b
    /\ \A S \in SUBSET Address :
          S # {} => \E a \in S : \A b \in S : Rank[a] <= Rank[b]
    /\ Forbidden \subseteq Address
    /\ NoAddress \notin Address

ASSUME TimingAssumption ==
    /\ MinRefresh \in Nat \ {0}
    /\ MaxRefresh \in Nat
    /\ MinRefresh <= MaxRefresh
    /\ MaxCacheAge \in Nat
    /\ JitterCap \in Nat

Health == {"healthy", "degraded", "failed"}

\* An unset moment is 0: it only occurs in a status no answer was accepted for.
DnsStatus == [host : Host, address : Address \cup {NoAddress},
              written : Nat, next : Nat, status : Health]

NewStatus(host) ==
    [host |-> host, address |-> NoAddress, written |-> 0, next |-> 0,
     status |-> "failed"]

--------------------------------------------------------------------------
Lesser(x, y) == IF x <= y THEN x ELSE y
Greater(x, y) == IF x >= y THEN x ELSE y

\* Mutant: the jitter is added outside the upper limit.
RefreshDelayBeyond(ttl, jitter) ==
    Lesser(MaxRefresh, Greater(MinRefresh, ttl \div 2)) + Lesser(jitter, JitterCap)

\* Half the answer's lifetime, no less than MinRefresh and no more than
\* MaxRefresh; the jitter is added inside the upper limit.
RefreshDelay(ttl, jitter) ==
    LET clamped == Lesser(MaxRefresh, Greater(MinRefresh, ttl \div 2))
    IN  Lesser(MaxRefresh, clamped + Lesser(jitter, JitterCap))

Permitted(family, address) ==
    FamilyOf[address] = family /\ address \notin Forbidden

Candidates(family, addresses) == {a \in addresses : Permitted(family, a)}

First(candidates) ==
    CHOOSE a \in candidates : \A b \in candidates : Rank[a] <= Rank[b]

\* saturating_sub: a clock that went back makes the cache look new.
CacheAge(dns, now) == Greater(0, now - dns.written)

\* Mutant: the age is not compared.
CanRestoreAnyCache(dns, now) == dns.address # NoAddress

CanRestoreCache(dns, now) ==
    dns.address # NoAddress /\ CacheAge(dns, now) <= MaxCacheAge

\* Mutant: the first candidate always wins.
AcceptFirst(dns, candidates, ttl, now, jitter) ==
    [dns EXCEPT !.address = First(candidates),
                !.written = now,
                !.next = now + RefreshDelay(ttl, jitter),
                !.status = "healthy"]

\* Called with at least one candidate; the code's Err branch is its caller's.
AcceptAnswer(dns, candidates, ttl, now, jitter) ==
    [dns EXCEPT !.address = IF @ \in candidates THEN @ ELSE First(candidates),
                !.written = now,
                !.next = now + RefreshDelay(ttl, jitter),
                !.status = "healthy"]

RecordFailure(dns, now) ==
    [dns EXCEPT !.status = IF dns.address # NoAddress THEN "degraded" ELSE "failed",
                !.next = now + MinRefresh]

--------------------------------------------------------------------------
(* A lookup either fails or answers with addresses and a lifetime.          *)
Answer(addresses, ttl) == [ok |-> TRUE, addresses |-> addresses, ttl |-> ttl]
LookupFailed == [ok |-> FALSE, addresses |-> {}, ttl |-> 0]

\* The entry remembered under the profile's name counts only for the same host.
SameHost(cached, host) == cached # NoDns /\ cached.host = host

\* resolve_initial for a host name: the statuses it may return, none for Err.
\* An answer without a permitted address is an error even when the cache is
\* fresh, and a restored address is not compared with the profile's family.
ResolveInitial(host, family, cached, reply, now, jitter) ==
    LET known      == IF SameHost(cached, host) THEN cached ELSE NewStatus(host)
        candidates == Candidates(family, reply.addresses)
    IN  IF reply.ok
          THEN IF candidates = {} THEN {}
               ELSE {AcceptAnswer(known, candidates, reply.ttl, now, jitter)}
          ELSE IF SameHost(cached, host) /\ CanRestoreCache(cached, now)
               THEN {[cached EXCEPT !.status = "degraded", !.next = now + MinRefresh]}
               ELSE {}

\* One due target of refresh_due_dns: a rejected answer and a failed lookup both
\* keep the address (the refresh uses no jitter).
RefreshStatus(dns, family, reply, now) ==
    LET candidates == Candidates(family, reply.addresses)
    IN  IF reply.ok /\ candidates # {}
          THEN AcceptAnswer(dns, candidates, reply.ttl, now, 0)
          ELSE RecordFailure(dns, now)
=============================================================================
