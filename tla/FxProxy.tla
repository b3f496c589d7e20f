------------------------------ MODULE FxProxy ------------------------------
(***************************************************************************)
(* CachingExchangeRateProxy (modules/fx/exchange-rate.proxy.ts) of one API *)
(* process: a cache, a limit on provider calls per minute, and a stale     *)
(* answer when the provider fails.  getRate runs without interruption up   *)
(* to its await of the provider; other calls run during that wait, and the *)
(* entry looked up before it is the one the fallback serves after it.      *)
(* The clock ticks; Minute and Ttl are counted in ticks.                   *)
(***************************************************************************)
EXTENDS Naturals, FiniteSets

CONSTANTS
  Callers,   \* calls of getRate
  Pairs,     \* currency pairs
  Quoted,    \* the pairs the provider knows
  NoEntry,   \* what the cache holds for a pair it does not have
  Minute, Ttl, MaxCalls,  \* 60_000 ms, ttlMs, maxCallsPerMinute
  LastTick   \* bound: the clock stops here

ASSUME FxAssumption ==
  /\ Quoted \subseteq Pairs
  /\ NoEntry \notin [asOf : Nat, storedAt : Nat]
  /\ Minute \in Nat /\ Ttl \in Nat /\ MaxCalls \in Nat /\ LastTick \in Nat

VARIABLES
  now,     \* Date.now()
  cache,   \* per pair: the rate's asOf and when it was stored
  recent,  \* recentCalls, each with the call that made it
  calls,   \* all provider calls so far (history)
  call     \* per call of getRate: its progress and its outcome

vars == <<now, cache, recent, calls, call>>

Entry == [asOf : Nat, storedAt : Nat]
ProviderCall == [by : Callers, at : Nat]

Idle == [step |-> "idle"]
Waiting == [step : {"waiting"}, pair : Pairs, cached : Entry \cup {NoEntry}]
Outcomes == {"cache", "provider", "stale-cache", "no rate", "unavailable"}
\* `entry` is what was served, `limited` says that the rate limit refused.
Done == [step : {"done"}, pair : Pairs, outcome : Outcomes,
         entry : Entry \cup {NoEntry}, at : Nat, limited : BOOLEAN]

Init ==
  /\ now = 0
  /\ cache = [p \in Pairs |-> NoEntry]
  /\ recent = {} /\ calls = {}
  /\ call = [c \in Callers |-> Idle]

-----------------------------------------------------------------------------
Finish(c, p, outcome, entry, limited) ==
  call' = [call EXCEPT ![c] = [step |-> "done", pair |-> p, outcome |-> outcome,
                               entry |-> entry, at |-> now, limited |-> limited]]

\* The catch block: an older rate if there was one before the call.
Fallback(c, p, cached, limited) ==
  Finish(c, p, IF cached = NoEntry THEN "unavailable" ELSE "stale-cache", cached, limited)

Fresh(p) == cache[p] # NoEntry /\ now < cache[p].storedAt + Ttl

\* The calls that are less than a minute old.
Kept == {k \in recent : now < k.at + Minute}

\* getRate answers from the cache.
Hit(c, p) ==
  /\ call[c] = Idle /\ Fresh(p)
  /\ Finish(c, p, "cache", cache[p], FALSE)
  /\ UNCHANGED <<now, cache, recent, calls>>

\* Slip: a call is not counted when it starts.
SlipCountsAnswersOnly(c, p) ==
  /\ call[c] = Idle /\ ~Fresh(p)
  /\ Cardinality(Kept) < MaxCalls
  /\ recent' = Kept
  /\ calls' = calls \cup {[by |-> c, at |-> now]}
  /\ call' = [call EXCEPT ![c] = [step |-> "waiting", pair |-> p, cached |-> cache[p]]]
  /\ UNCHANGED <<now, cache>>

\* enforceRateLimit counts the call, then the provider is awaited.
CallProvider(c, p) ==
  /\ call[c] = Idle /\ ~Fresh(p)
  /\ Cardinality(Kept) < MaxCalls
  /\ recent' = Kept \cup {[by |-> c, at |-> now]}
  /\ calls' = calls \cup {[by |-> c, at |-> now]}
  /\ call' = [call EXCEPT ![c] = [step |-> "waiting", pair |-> p, cached |-> cache[p]]]
  /\ UNCHANGED <<now, cache>>

\* Slip: a refused call takes a place in the window too.
SlipCountsRefusals(c, p) ==
  /\ call[c] = Idle /\ ~Fresh(p)
  /\ Cardinality(Kept) >= MaxCalls
  /\ recent' = Kept \cup {[by |-> c, at |-> now]}
  /\ Fallback(c, p, cache[p], TRUE)
  /\ UNCHANGED <<now, cache, calls>>

\* enforceRateLimit throws.
Refuse(c, p) ==
  /\ call[c] = Idle /\ ~Fresh(p)
  /\ Cardinality(Kept) >= MaxCalls
  /\ recent' = Kept
  /\ Fallback(c, p, cache[p], TRUE)
  /\ UNCHANGED <<now, cache, calls>>

\* Slip: the entry is stored without the time.
SlipStoresRateOnly(c) ==
  /\ call[c].step = "waiting" /\ call[c].pair \in Quoted
  /\ cache' = [cache EXCEPT ![call[c].pair] = [asOf |-> now]]
  /\ Finish(c, call[c].pair, "provider", [asOf |-> now, storedAt |-> now], FALSE)
  /\ UNCHANGED <<now, recent, calls>>

\* The provider answers with a rate as of now.
Answer(c) ==
  /\ call[c].step = "waiting" /\ call[c].pair \in Quoted
  /\ LET e == [asOf |-> now, storedAt |-> now]
     IN  /\ cache' = [cache EXCEPT ![call[c].pair] = e]
         /\ Finish(c, call[c].pair, "provider", e, FALSE)
  /\ UNCHANGED <<now, recent, calls>>

\* The provider has no such rate: a BusinessRuleError, thrown again.
NoRate(c) ==
  /\ call[c].step = "waiting" /\ call[c].pair \notin Quoted
  /\ Finish(c, call[c].pair, "no rate", NoEntry, FALSE)
  /\ UNCHANGED <<now, cache, recent, calls>>

\* Slip: the stale rate is put back, to spare a provider that is down.
SlipKeepsStale(c) ==
  /\ call[c].step = "waiting"
  /\ Fallback(c, call[c].pair, call[c].cached, FALSE)
  /\ cache' = [cache EXCEPT ![call[c].pair] =
                 IF call[c].cached = NoEntry THEN @
                 ELSE [call[c].cached EXCEPT !.storedAt = now]]
  /\ UNCHANGED <<now, recent, calls>>

\* The provider fails.
Fail(c) ==
  /\ call[c].step = "waiting"
  /\ Fallback(c, call[c].pair, call[c].cached, FALSE)
  /\ UNCHANGED <<now, cache, recent, calls>>

Tick ==
  /\ now < LastTick
  /\ now' = now + 1
  /\ UNCHANGED <<cache, recent, calls, call>>

Next ==
  \/ \E c \in Callers, p \in Pairs : Hit(c, p) \/ CallProvider(c, p) \/ Refuse(c, p)
  \/ \E c \in Callers : Answer(c) \/ NoRate(c) \/ Fail(c)
  \/ Tick

Spec == Init /\ [][Next]_vars

-----------------------------------------------------------------------------
TypeOK ==
  /\ now \in Nat
  /\ cache \in [Pairs -> Entry \cup {NoEntry}]
  /\ calls \subseteq ProviderCall /\ recent \subseteq ProviderCall
  /\ call \in [Callers -> {Idle} \cup Waiting \cup Done]

\* The provider calls of the minute that ends at t.
CallsIn(t) == {k \in calls : k.at <= t /\ t < k.at + Minute}

\* In no minute, wherever it starts, does the provider get more calls than the
\* limit, however many requests miss the cache at once and however long their
\* answers take.
WindowHeld == \A t \in 0..now : Cardinality(CallsIn(t)) <= MaxCalls

\* The limit refuses a call only if the provider really got that many calls in
\* the last minute: refused calls do not fill the window.
RefusedOnlyWhenFull ==
  \A c \in Callers :
    call[c].step = "done" /\ call[c].limited
      => Cardinality(CallsIn(call[c].at)) >= MaxCalls

\* A rate that is not labelled stale is younger than the TTL by the provider's
\* own date, whatever failed in between.
FreshAnswers ==
  \A c \in Callers :
    call[c].step = "done" /\ call[c].outcome \in {"cache", "provider"}
      => call[c].at < call[c].entry.asOf + Ttl \/ call[c].at = call[c].entry.asOf

\* A call that waited and fell back never replaces what another call stored
\* meanwhile: the rate in the cache only ever gets newer.
CacheMovesForward ==
  [][\A p \in Pairs : cache[p] # NoEntry =>
       cache'[p] # NoEntry /\ cache'[p].asOf >= cache[p].asOf]_vars
=============================================================================
