--------------------------- MODULE FxProxyProofs ---------------------------
(***************************************************************************)
(* The call limit of FxProxy, for any number of callers and any window:    *)
(* the provider never gets more calls in a minute than the limit allows,   *)
(* and a call is refused only when it got that many.  And its cache: what  *)
(* it serves as fresh is fresh, and it only ever gets newer.               *)
(***************************************************************************)
EXTENDS FxProxy, FiniteSetTheorems, TLAPS

\* The sliding window: only calls are listed, and every call of the last minute is still listed, so that
\* the length of the list bounds the calls of that minute.
WindowListed ==
  /\ IsFiniteSet(calls) /\ recent \subseteq calls
  /\ \A k \in calls : k.at <= now
  /\ \A k \in calls : now < k.at + Minute => k \in recent

WindowInv == TypeOK /\ WindowListed /\ WindowHeld

\* A finished call is in the past.
RefusalInv ==
  /\ \A c \in Callers : call[c].step = "done" => call[c].at <= now
  /\ RefusedOnlyWhenFull

-----------------------------------------------------------------------------
\* What the outcome of a call looks like.
LEMMA FinishType ==
  ASSUME TypeOK, NEW c \in Callers, NEW p \in Pairs, NEW outcome \in Outcomes,
         NEW entry \in Entry \cup {NoEntry}, NEW limited \in BOOLEAN,
         Finish(c, p, outcome, entry, limited)
  PROVE  /\ call' \in [Callers -> {Idle} \cup Waiting \cup Done]
         /\ call'[c] = [step |-> "done", pair |-> p, outcome |-> outcome,
                        entry |-> entry, at |-> now, limited |-> limited]
         /\ \A d \in Callers \ {c} : call'[d] = call[d]
<1> DEFINE new == [step |-> "done", pair |-> p, outcome |-> outcome,
                   entry |-> entry, at |-> now, limited |-> limited]
<1>1. new \in Done
  BY DEF TypeOK, Done
<1>2. call' = [call EXCEPT ![c] = new]
  BY DEF Finish
<1> HIDE DEF new
<1>3. call' \in [Callers -> {Idle} \cup Waiting \cup Done]
  BY <1>1, <1>2 DEF TypeOK
<1>4. call'[c] = new /\ \A d \in Callers \ {c} : call'[d] = call[d]
  BY <1>2 DEF TypeOK
<1> QED
  BY <1>3, <1>4 DEF new

\* The same for the catch block.
LEMMA FallbackType ==
  ASSUME TypeOK, NEW c \in Callers, NEW p \in Pairs,
         NEW cached \in Entry \cup {NoEntry}, NEW limited \in BOOLEAN,
         Fallback(c, p, cached, limited)
  PROVE  /\ call' \in [Callers -> {Idle} \cup Waiting \cup Done]
         /\ call'[c].step = "done" /\ call'[c].at = now /\ call'[c].limited = limited
         /\ call'[c].outcome \in {"unavailable", "stale-cache"}
         /\ \A d \in Callers \ {c} : call'[d] = call[d]
<1> DEFINE outcome == IF cached = NoEntry THEN "unavailable" ELSE "stale-cache"
<1>1. outcome \in Outcomes /\ outcome \in {"unavailable", "stale-cache"}
  BY DEF Outcomes
<1>2. Finish(c, p, outcome, cached, limited)
  BY DEF Fallback
<1> HIDE DEF outcome
<1>3. /\ call' \in [Callers -> {Idle} \cup Waiting \cup Done]
      /\ call'[c] = [step |-> "done", pair |-> p, outcome |-> outcome,
                     entry |-> cached, at |-> now, limited |-> limited]
      /\ \A d \in Callers \ {c} : call'[d] = call[d]
  BY <1>1, <1>2, FinishType
<1> QED
  BY <1>1, <1>3

\* A call that waits holds a pair and what the cache had.
LEMMA WaitingType ==
  ASSUME TypeOK, NEW c \in Callers, call[c].step = "waiting"
  PROVE  call[c].pair \in Pairs /\ call[c].cached \in Entry \cup {NoEntry}
BY DEF TypeOK, Idle, Waiting, Done

\* Starting a provider call keeps the types.
LEMMA CallProviderType ==
  ASSUME TypeOK, NEW c \in Callers, NEW p \in Pairs, CallProvider(c, p)
  PROVE  TypeOK'
<1> DEFINE k == [by |-> c, at |-> now]
           w == [step |-> "waiting", pair |-> p, cached |-> cache[p]]
<1>1. k \in ProviderCall
  BY DEF TypeOK, ProviderCall
<1>2. w \in Waiting
  BY DEF TypeOK, Waiting
<1>3. /\ recent' = Kept \cup {k} /\ calls' = calls \cup {k}
      /\ call' = [call EXCEPT ![c] = w] /\ UNCHANGED <<now, cache>>
  BY DEF CallProvider
<1> HIDE DEF k, w
<1>4. call' \in [Callers -> {Idle} \cup Waiting \cup Done]
  BY <1>2, <1>3 DEF TypeOK
<1>5. calls' \subseteq ProviderCall /\ recent' \subseteq ProviderCall
  BY <1>1, <1>3 DEF TypeOK, Kept
<1> QED
  BY <1>3, <1>4, <1>5 DEF TypeOK

\* Every step keeps the types.
LEMMA TypeStep == ASSUME TypeOK, [Next]_vars PROVE TypeOK'
<1> USE FxAssumption
<1>1. ASSUME NEW c \in Callers, NEW p \in Pairs, Hit(c, p) PROVE TypeOK'
  <2>1. cache[p] \in Entry \cup {NoEntry} /\ "cache" \in Outcomes /\ FALSE \in BOOLEAN
    BY DEF TypeOK, Outcomes
  <2>2. Finish(c, p, "cache", cache[p], FALSE)
    BY <1>1 DEF Hit
  <2>3. call' \in [Callers -> {Idle} \cup Waiting \cup Done]
    BY <2>1, <2>2, FinishType
  <2> QED
    BY <1>1, <2>3 DEF Hit, TypeOK
<1>2. ASSUME NEW c \in Callers, NEW p \in Pairs, CallProvider(c, p) PROVE TypeOK'
  BY <1>2, CallProviderType
<1>3. ASSUME NEW c \in Callers, NEW p \in Pairs, Refuse(c, p) PROVE TypeOK'
  <2>1. Fallback(c, p, cache[p], TRUE) /\ cache[p] \in Entry \cup {NoEntry}
    BY <1>3 DEF Refuse, TypeOK
  <2>2. call' \in [Callers -> {Idle} \cup Waiting \cup Done]
    BY <2>1, FallbackType
  <2> QED
    BY <1>3, <2>2 DEF Refuse, TypeOK, Kept
<1>4. ASSUME NEW c \in Callers, Answer(c) PROVE TypeOK'
  <2> DEFINE e == [asOf |-> now, storedAt |-> now]
  <2>1. e \in Entry
    BY DEF TypeOK, Entry
  <2>2. /\ call[c].step = "waiting"
        /\ cache' = [cache EXCEPT ![call[c].pair] = e]
        /\ Finish(c, call[c].pair, "provider", e, FALSE)
        /\ UNCHANGED <<now, recent, calls>>
    BY <1>4 DEF Answer
  <2> HIDE DEF e
  <2>3. call[c].pair \in Pairs
    BY <2>2, WaitingType
  <2>4. "provider" \in Outcomes
    BY DEF Outcomes
  <2>5. call' \in [Callers -> {Idle} \cup Waiting \cup Done]
    BY <2>1, <2>2, <2>3, <2>4, FinishType
  <2>6. cache' \in [Pairs -> Entry \cup {NoEntry}]
    BY <2>1, <2>2, <2>3 DEF TypeOK
  <2> QED
    BY <2>2, <2>5, <2>6 DEF TypeOK
<1>5. ASSUME NEW c \in Callers, NoRate(c) PROVE TypeOK'
  <2>1. call[c].pair \in Pairs /\ "no rate" \in Outcomes
    BY <1>5, WaitingType DEF NoRate, Outcomes
  <2>2. Finish(c, call[c].pair, "no rate", NoEntry, FALSE)
    BY <1>5 DEF NoRate
  <2>3. call' \in [Callers -> {Idle} \cup Waiting \cup Done]
    BY <2>1, <2>2, FinishType
  <2> QED
    BY <1>5, <2>3 DEF NoRate, TypeOK
<1>6. ASSUME NEW c \in Callers, Fail(c) PROVE TypeOK'
  <2>1. call[c].pair \in Pairs /\ call[c].cached \in Entry \cup {NoEntry}
    BY <1>6, WaitingType DEF Fail
  <2>2. Fallback(c, call[c].pair, call[c].cached, FALSE)
    BY <1>6 DEF Fail
  <2>3. call' \in [Callers -> {Idle} \cup Waiting \cup Done]
    BY <2>1, <2>2, FallbackType
  <2> QED
    BY <1>6, <2>3 DEF Fail, TypeOK
<1>7. CASE Tick
  BY <1>7 DEF Tick, TypeOK
<1>8. CASE UNCHANGED vars
  BY <1>8 DEF vars, TypeOK
<1> QED
  BY <1>1, <1>2, <1>3, <1>4, <1>5, <1>6, <1>7, <1>8 DEF Next

\* Everything of the proxy keeps its type.
THEOREM ProxyTypes == Spec => []TypeOK
<1>1. Init => TypeOK
  BY DEF Init, TypeOK, Entry, Idle
<1>2. TypeOK /\ [Next]_vars => TypeOK'
  BY TypeStep
<1> QED
  BY <1>1, <1>2, PTL DEF Spec

-----------------------------------------------------------------------------
\* The calls of the minute that ends now are among those the list keeps.
LEMMA WindowIsKept ==
  ASSUME TypeOK, WindowListed
  PROVE  CallsIn(now) \subseteq Kept /\ IsFiniteSet(CallsIn(now))
<1>1. CallsIn(now) \subseteq calls
  BY DEF CallsIn
<1>2. IsFiniteSet(CallsIn(now))
  BY <1>1, FS_Subset DEF WindowListed
<1>3. CallsIn(now) \subseteq Kept
  BY DEF CallsIn, Kept, WindowListed
<1> QED
  BY <1>2, <1>3

\* Steps that make no provider call and leave the clock alone keep the window,
\* if they drop from the list only what is older than a minute.
LEMMA WindowKept ==
  ASSUME WindowInv, UNCHANGED <<now, calls>>, recent' = recent \/ recent' = Kept
  PROVE  WindowListed' /\ WindowHeld'
<1>1. WindowListed'
  BY DEF WindowInv, WindowListed, Kept
<1>2. WindowHeld'
  BY DEF WindowInv, WindowHeld, CallsIn
<1> QED
  BY <1>1, <1>2

\* A provider call fits into the window: before it fewer than MaxCalls calls
\* were listed, and every minute that ends earlier is past.
LEMMA WindowAtCall ==
  ASSUME WindowInv, NEW c \in Callers, NEW p \in Pairs, CallProvider(c, p)
  PROVE  WindowListed' /\ WindowHeld'
<1> USE FxAssumption
<1> DEFINE k == [by |-> c, at |-> now]
<1>1. /\ recent' = Kept \cup {k} /\ calls' = calls \cup {k} /\ now' = now
      /\ Cardinality(Kept) < MaxCalls
  BY DEF CallProvider
<1>2. k.at = now /\ now \in Nat /\ TypeOK /\ WindowListed
  BY DEF WindowInv, TypeOK
<1> HIDE DEF k
<1>3. \A m \in calls : m.at \in Nat
  BY <1>2 DEF TypeOK, ProviderCall
<1>4. IsFiniteSet(calls')
  BY <1>1, <1>2, FS_AddElement DEF WindowListed
<1>5. \A m \in calls' : m.at <= now'
  BY <1>1, <1>2 DEF WindowListed
<1>6. \A m \in calls' : now' < m.at + Minute => m \in recent'
  BY <1>1, <1>2 DEF WindowListed, Kept
<1>10. recent' \subseteq calls'
  BY <1>1, <1>2 DEF WindowListed, Kept
<1>7. IsFiniteSet(Kept)
  <2>1. Kept \subseteq calls
    BY <1>2 DEF WindowListed, Kept
  <2> QED
    BY <1>2, <2>1, FS_Subset DEF WindowListed
<1>8. ASSUME NEW t \in 0..now'
      PROVE  Cardinality(CallsIn(t)') <= MaxCalls
  <2>1. CASE t < now
    <3>1. CallsIn(t)' = CallsIn(t)
      BY <1>1, <1>2, <2>1 DEF CallsIn
    <3> QED
      BY <1>1, <1>2, <2>1, <3>1 DEF WindowInv, WindowHeld
  <2>2. CASE t = now
    <3>1. CallsIn(t)' \subseteq Kept \cup {k}
      BY <1>1, <2>2, WindowIsKept, <1>2 DEF CallsIn
    <3>2. IsFiniteSet(Kept \cup {k}) /\ Cardinality(Kept \cup {k}) <= Cardinality(Kept) + 1
      <4>1. Cardinality(Kept) \in Nat
        BY <1>7, FS_CardinalityType
      <4>2. /\ IsFiniteSet(Kept \cup {k})
            /\ Cardinality(Kept \cup {k}) = IF k \in Kept THEN Cardinality(Kept)
                                                          ELSE Cardinality(Kept) + 1
        BY <1>7, FS_AddElement
      <4> QED
        BY <4>1, <4>2
    <3>3. Cardinality(CallsIn(t)') <= Cardinality(Kept \cup {k})
      BY <3>1, <3>2, FS_Subset
    <3>4. /\ Cardinality(Kept) \in Nat /\ Cardinality(Kept \cup {k}) \in Nat
          /\ Cardinality(CallsIn(t)') \in Nat
      BY <1>7, <3>1, <3>2, FS_Subset, FS_CardinalityType
    <3> QED
      BY <1>1, <3>2, <3>3, <3>4
  <2> QED
    BY <1>1, <1>2, <2>1, <2>2
<1>9. WindowHeld'
  BY <1>1, <1>8 DEF WindowHeld
<1> QED
  BY <1>4, <1>5, <1>6, <1>9, <1>10 DEF WindowListed

\* When the clock ticks, no call enters the window.
LEMMA WindowAtTick ==
  ASSUME WindowInv, Tick
  PROVE  WindowListed' /\ WindowHeld'
<1> USE FxAssumption
<1>1. now \in Nat /\ now' = now + 1 /\ recent' = recent /\ calls' = calls
  BY DEF WindowInv, TypeOK, Tick
<1>2. \A m \in calls : m.at \in Nat
  BY DEF WindowInv, TypeOK, ProviderCall
<1>3. WindowListed'
  BY <1>1, <1>2 DEF WindowInv, WindowListed
<1>4. ASSUME NEW t \in 0..now'
      PROVE  Cardinality(CallsIn(t)') <= MaxCalls
  <2>1. CallsIn(t)' = CallsIn(t)
    BY <1>1 DEF CallsIn
  <2>2. CASE t <= now
    BY <1>1, <2>1, <2>2 DEF WindowInv, WindowHeld
  <2>3. CASE t = now + 1
    <3>1. CallsIn(t) \subseteq CallsIn(now)
      BY <1>1, <1>2, <2>3 DEF CallsIn, WindowInv, WindowListed
    <3>2. IsFiniteSet(CallsIn(now))
      BY WindowIsKept DEF WindowInv
    <3>3. /\ Cardinality(CallsIn(t)) <= Cardinality(CallsIn(now))
          /\ Cardinality(CallsIn(t)) \in Nat /\ Cardinality(CallsIn(now)) \in Nat
      BY <3>1, <3>2, FS_Subset, FS_CardinalityType
    <3>4. Cardinality(CallsIn(now)) <= MaxCalls
      BY <1>1 DEF WindowInv, WindowHeld
    <3> QED
      BY <2>1, <3>3, <3>4
  <2> QED
    BY <1>1, <2>2, <2>3
<1>5. WindowHeld'
  BY <1>4 DEF WindowHeld
<1> QED
  BY <1>3, <1>5

\* The window invariant survives every step.
LEMMA WindowStep == ASSUME WindowInv, [Next]_vars PROVE WindowInv'
<1>1. TypeOK'
  BY TypeStep DEF WindowInv
<1>2. ASSUME NEW c \in Callers, NEW p \in Pairs, Hit(c, p) \/ Refuse(c, p)
      PROVE  WindowListed' /\ WindowHeld'
  <2>1. UNCHANGED <<now, calls>> /\ (recent' = recent \/ recent' = Kept)
    BY <1>2 DEF Hit, Refuse
  <2> QED
    BY <2>1, WindowKept
<1>3. ASSUME NEW c \in Callers, NEW p \in Pairs, CallProvider(c, p)
      PROVE  WindowListed' /\ WindowHeld'
  BY <1>3, WindowAtCall
<1>4. ASSUME NEW c \in Callers, Answer(c) \/ NoRate(c) \/ Fail(c)
      PROVE  WindowListed' /\ WindowHeld'
  <2>1. UNCHANGED <<now, calls>> /\ recent' = recent
    BY <1>4 DEF Answer, NoRate, Fail
  <2> QED
    BY <2>1, WindowKept
<1>5. ASSUME Tick PROVE WindowListed' /\ WindowHeld'
  BY <1>5, WindowAtTick
<1>6. ASSUME UNCHANGED vars PROVE WindowListed' /\ WindowHeld'
  BY <1>6, WindowKept DEF vars
<1>7. WindowListed' /\ WindowHeld'
  BY <1>2, <1>3, <1>4, <1>5, <1>6 DEF Next
<1> QED
  BY <1>1, <1>7 DEF WindowInv

\* The window invariant holds when the process starts.
LEMMA WindowInit == ASSUME Init PROVE WindowInv
<1>1. TypeOK
  BY DEF Init, TypeOK, Entry, Idle
<1>2. IsFiniteSet({}) /\ Cardinality({}) = 0
  BY FS_EmptySet
<1>3. WindowListed
  BY <1>2 DEF Init, WindowListed
<1>4. WindowHeld
  <2>1. ASSUME NEW t \in 0..now PROVE Cardinality(CallsIn(t)) <= MaxCalls
    <3>1. CallsIn(t) = {}
      BY DEF Init, CallsIn
    <3> QED
      BY <1>2, <3>1, FxAssumption
  <2> QED
    BY <2>1 DEF WindowHeld
<1> QED
  BY <1>1, <1>3, <1>4 DEF WindowInv

\* The provider never gets more than MaxCalls calls in a minute, for any
\* number of concurrent requests, any TTL and answers that take any time.
THEOREM CallLimit == Spec => []WindowHeld
<1>1. Init => WindowInv
  BY WindowInit
<1>2. WindowInv /\ [Next]_vars => WindowInv'
  BY WindowStep
<1>3. WindowInv => WindowHeld
  BY DEF WindowInv
<1> QED
  BY <1>1, <1>2, <1>3, PTL DEF Spec

-----------------------------------------------------------------------------
\* Calls are only added, so a minute never loses calls.
LEMMA CallsOnlyAdded ==
  ASSUME WindowInv, [Next]_vars, NEW t \in Nat
  PROVE  Cardinality(CallsIn(t)) <= Cardinality(CallsIn(t)')
         /\ Cardinality(CallsIn(t)) \in Nat /\ Cardinality(CallsIn(t)') \in Nat
<1>1. calls \subseteq calls'
  BY DEF Next, vars, Hit, CallProvider, Refuse, Answer, NoRate, Fail, Tick
<1>2. CallsIn(t) \subseteq CallsIn(t)' /\ CallsIn(t)' \subseteq calls'
  BY <1>1 DEF CallsIn
<1>3. IsFiniteSet(calls')
  BY WindowStep DEF WindowInv, WindowListed
<1>4. IsFiniteSet(CallsIn(t)')
  BY <1>2, <1>3, FS_Subset
<1> QED
  BY <1>2, <1>4, FS_Subset, FS_CardinalityType

\* At a refusal, every listed call was made within the last minute.
LEMMA RefusalJustified ==
  ASSUME WindowInv, NEW c \in Callers, NEW p \in Pairs, Refuse(c, p)
  PROVE  Cardinality(CallsIn(now)') >= MaxCalls
<1>1. Kept \subseteq CallsIn(now)
  BY DEF Kept, CallsIn, WindowInv, WindowListed
<1>2. IsFiniteSet(CallsIn(now))
  BY WindowIsKept DEF WindowInv
<1>3. /\ Cardinality(Kept) <= Cardinality(CallsIn(now))
      /\ Cardinality(Kept) \in Nat /\ Cardinality(CallsIn(now)) \in Nat
  BY <1>1, <1>2, FS_Subset, FS_CardinalityType
<1>4. Cardinality(Kept) >= MaxCalls /\ UNCHANGED <<now, calls>>
  BY DEF Refuse
<1>5. CallsIn(now)' = CallsIn(now)
  BY <1>4 DEF CallsIn
<1> QED
  BY <1>3, <1>4, <1>5, FxAssumption

\* The refusal invariant survives every step.
LEMMA RefusalStep ==
  ASSUME WindowInv, RefusalInv, [Next]_vars
  PROVE  RefusalInv'
<1> USE FxAssumption
<1> DEFINE Fine(d) ==
      call[d].step = "done" =>
        /\ call[d].at <= now
        /\ call[d].limited => Cardinality(CallsIn(call[d].at)) >= MaxCalls
<1>1. TypeOK /\ TypeOK'
  BY TypeStep DEF WindowInv
<1>2. now \in Nat /\ now' \in Nat /\ now <= now'
  <2>1. now \in Nat
    BY <1>1 DEF TypeOK
  <2>2. now' = now \/ now' = now + 1
    BY DEF Next, vars, Hit, CallProvider, Refuse, Answer, NoRate, Fail, Tick
  <2> QED
    BY <2>1, <2>2
\* Calls of getRate that the step does not touch.
<1>3. ASSUME NEW d \in Callers, call'[d] = call[d] PROVE Fine(d)'
  <2> SUFFICES ASSUME call'[d].step = "done" PROVE Fine(d)'
    OBVIOUS
  <2>1. call[d].at \in Nat
    BY <1>1, <1>3 DEF TypeOK, Idle, Waiting, Done
  <2>2. call[d].at <= now /\ (call[d].limited => Cardinality(CallsIn(call[d].at)) >= MaxCalls)
    BY <1>3 DEF RefusalInv, RefusedOnlyWhenFull
  <2>3. PICK t \in Nat : t = call[d].at
    BY <2>1
  <2>4. /\ Cardinality(CallsIn(t)) <= Cardinality(CallsIn(t)')
        /\ Cardinality(CallsIn(t)) \in Nat /\ Cardinality(CallsIn(t)') \in Nat
    BY CallsOnlyAdded
  <2>5. call'[d].limited => Cardinality(CallsIn(t)') >= MaxCalls
    BY <1>3, <2>2, <2>3, <2>4
  <2>6. CallsIn(call[d].at)' = CallsIn(t)'
    BY <1>3, <2>3 DEF CallsIn
  <2> QED
    BY <1>2, <1>3, <2>2, <2>3, <2>5, <2>6
\* The calls that end without having met the limit.
<1>4. ASSUME NEW c \in Callers, now' = now,
             call'[c].step = "done" => call'[c].at = now /\ call'[c].limited = FALSE
      PROVE  Fine(c)'
  BY <1>2, <1>4
<1>5. ASSUME NEW c \in Callers, NEW p \in Pairs, NEW outcome \in Outcomes,
             NEW entry \in Entry \cup {NoEntry}, now' = now,
             Finish(c, p, outcome, entry, FALSE), NEW d \in Callers
      PROVE  Fine(d)'
  <2> DEFINE out == [step |-> "done", pair |-> p, outcome |-> outcome,
                     entry |-> entry, at |-> now, limited |-> FALSE]
  <2>1. call' = [call EXCEPT ![c] = out] /\ out.at = now /\ out.limited = FALSE
    BY <1>5 DEF Finish
  <2> HIDE DEF out
  <2>2. call'[c] = out /\ \A o \in Callers \ {c} : call'[o] = call[o]
    BY <1>1, <2>1 DEF TypeOK
  <2> QED
    BY <1>3, <1>4, <1>5, <2>1, <2>2
<1>6. ASSUME NEW c \in Callers, NEW p \in Pairs, Hit(c, p), NEW d \in Callers
      PROVE  Fine(d)'
  <2>1. now' = now /\ Finish(c, p, "cache", cache[p], FALSE)
    BY <1>6 DEF Hit
  <2>2. cache[p] \in Entry \cup {NoEntry} /\ "cache" \in Outcomes
    BY <1>1 DEF TypeOK, Outcomes
  <2> QED
    BY <1>5, <2>1, <2>2
<1>7. ASSUME NEW c \in Callers, NEW p \in Pairs, CallProvider(c, p), NEW d \in Callers
      PROVE  Fine(d)'
  <2>1. /\ now' = now /\ call'[c].step # "done"
        /\ \A o \in Callers \ {c} : call'[o] = call[o]
    BY <1>1, <1>7 DEF CallProvider, TypeOK
  <2> QED
    BY <1>3, <1>4, <2>1
<1>8. ASSUME NEW c \in Callers, NEW p \in Pairs, Refuse(c, p), NEW d \in Callers
      PROVE  Fine(d)'
  <2>1. cache[p] \in Entry \cup {NoEntry} /\ Fallback(c, p, cache[p], TRUE) /\ now' = now
    BY <1>1, <1>8 DEF TypeOK, Refuse
  <2>2. /\ call'[c].at = now
        /\ \A o \in Callers \ {c} : call'[o] = call[o]
    BY <1>1, <2>1, FallbackType
  <2>3. CASE d = c
    <3>1. Cardinality(CallsIn(now)') >= MaxCalls
      BY <1>8, RefusalJustified
    <3>2. CallsIn(call[c].at)' = CallsIn(now)'
      BY <2>1, <2>2 DEF CallsIn
    <3> QED
      BY <1>2, <2>1, <2>2, <2>3, <3>1, <3>2
  <2>4. CASE d # c
    BY <1>3, <2>2, <2>4
  <2> QED
    BY <2>3, <2>4
<1>9. ASSUME NEW c \in Callers, Answer(c), NEW d \in Callers PROVE Fine(d)'
  <2> DEFINE e == [asOf |-> now, storedAt |-> now]
  <2>1. e \in Entry
    BY <1>1 DEF TypeOK, Entry
  <2>2. now' = now /\ call[c].step = "waiting" /\ Finish(c, call[c].pair, "provider", e, FALSE)
    BY <1>9 DEF Answer
  <2> HIDE DEF e
  <2>3. call[c].pair \in Pairs /\ "provider" \in Outcomes
    BY <1>1, <2>2, WaitingType DEF Outcomes
  <2> QED
    BY <1>5, <2>1, <2>2, <2>3
<1>10. ASSUME NEW c \in Callers, NoRate(c), NEW d \in Callers PROVE Fine(d)'
  <2>1. now' = now /\ call[c].step = "waiting" /\ Finish(c, call[c].pair, "no rate", NoEntry, FALSE)
    BY <1>10 DEF NoRate
  <2>2. call[c].pair \in Pairs /\ "no rate" \in Outcomes
    BY <1>1, <2>1, WaitingType DEF Outcomes
  <2> QED
    BY <1>5, <2>1, <2>2
<1>11. ASSUME NEW c \in Callers, Fail(c), NEW d \in Callers PROVE Fine(d)'
  <2>1. /\ now' = now /\ call[c].step = "waiting"
        /\ Fallback(c, call[c].pair, call[c].cached, FALSE)
    BY <1>11 DEF Fail
  <2>2. call[c].pair \in Pairs /\ call[c].cached \in Entry \cup {NoEntry}
    BY <1>1, <2>1, WaitingType
  <2>3. /\ call'[c].at = now /\ call'[c].limited = FALSE
        /\ \A o \in Callers \ {c} : call'[o] = call[o]
    BY <1>1, <2>1, <2>2, FallbackType
  <2> QED
    BY <1>3, <1>4, <2>1, <2>3
<1>12. ASSUME Tick \/ UNCHANGED vars, NEW d \in Callers PROVE Fine(d)'
  BY <1>3, <1>12 DEF Tick, vars
<1>13. \A d \in Callers : Fine(d)'
  BY <1>6, <1>7, <1>8, <1>9, <1>10, <1>11, <1>12 DEF Next
<1> QED
  BY <1>13 DEF RefusalInv, RefusedOnlyWhenFull

\* A request is turned away only when the provider really got MaxCalls calls
\* within the minute before.
THEOREM RefusalsEarned == Spec => []RefusedOnlyWhenFull
<1>1. Init => WindowInv /\ RefusalInv
  <2> SUFFICES ASSUME Init PROVE RefusalInv
    BY WindowInit
  <2> QED
    BY DEF Init, Idle, RefusalInv, RefusedOnlyWhenFull
<1>2. WindowInv /\ RefusalInv /\ [Next]_vars => WindowInv' /\ RefusalInv'
  BY WindowStep, RefusalStep
<1>3. RefusalInv => RefusedOnlyWhenFull
  BY DEF RefusalInv
<1> QED
  BY <1>1, <1>2, <1>3, PTL DEF Spec
-----------------------------------------------------------------------------
\* What the cache holds is dated with the time it was stored, in the past.
Dated ==
  \A p \in Pairs :
    cache[p] # NoEntry => cache[p].asOf = cache[p].storedAt /\ cache[p].asOf <= now

\* Only an answer of the provider changes the cache, and it is dated now.
LEMMA CacheStep ==
  ASSUME TypeOK, [Next]_vars
  PROVE  \/ UNCHANGED cache
         \/ \E q \in Pairs : /\ now' = now
                             /\ cache' = [cache EXCEPT ![q] = [asOf |-> now, storedAt |-> now]]
<1>1. ASSUME NEW c \in Callers, Answer(c)
      PROVE  \E q \in Pairs : /\ now' = now
                              /\ cache' = [cache EXCEPT ![q] = [asOf |-> now, storedAt |-> now]]
  <2>1. call[c].pair \in Pairs
    BY <1>1, WaitingType DEF Answer
  <2> QED
    BY <1>1, <2>1 DEF Answer
<1>2. CASE ~\E c \in Callers : Answer(c)
  BY <1>2 DEF Next, Hit, CallProvider, Refuse, NoRate, Fail, Tick, vars
<1> QED
  BY <1>1, <1>2

\* The clock does not go back.
LEMMA ClockStep ==
  ASSUME TypeOK, [Next]_vars
  PROVE  now \in Nat /\ now' \in Nat /\ now <= now'
<1>1. now \in Nat
  BY DEF TypeOK
<1>2. now' = now \/ now' = now + 1
  BY DEF Next, vars, Hit, CallProvider, Refuse, Answer, NoRate, Fail, Tick
<1> QED
  BY <1>1, <1>2

\* The cache stays dated.
LEMMA DatedStep == ASSUME TypeOK, Dated, [Next]_vars PROVE Dated'
<1> SUFFICES ASSUME NEW p \in Pairs, cache'[p] # NoEntry
             PROVE  cache'[p].asOf = cache'[p].storedAt /\ cache'[p].asOf <= now'
  BY DEF Dated
<1>1. now \in Nat /\ now' \in Nat /\ now <= now'
  BY ClockStep
<1>2. CASE cache'[p] = cache[p]
  <2>1. cache[p].asOf = cache[p].storedAt /\ cache[p].asOf <= now
    BY <1>2 DEF Dated
  <2>2. cache[p].asOf \in Nat
    <3>1. cache[p] \in Entry
      BY <1>2 DEF TypeOK
    <3> QED
      BY <3>1 DEF Entry
  <2> QED
    BY <1>1, <1>2, <2>1, <2>2
<1>3. CASE cache'[p] # cache[p]
  <2>1. cache'[p] = [asOf |-> now, storedAt |-> now] /\ now' = now
    BY <1>3, CacheStep DEF TypeOK
  <2> QED
    BY <1>1, <2>1
<1> QED
  BY <1>2, <1>3

\* A rate is fresh when it is served from the cache, and dated now when it
\* comes from the provider; no other outcome is served as fresh.
LEMMA FreshStep ==
  ASSUME TypeOK, Dated, FreshAnswers, [Next]_vars
  PROVE  FreshAnswers'
<1> USE FxAssumption
<1> DEFINE Fine(d) ==
      call[d].step = "done" /\ call[d].outcome \in {"cache", "provider"}
        => call[d].at < call[d].entry.asOf + Ttl \/ call[d].at = call[d].entry.asOf
<1> DEFINE Served(out) ==
      out.outcome \in {"cache", "provider"}
        => out.at < out.entry.asOf + Ttl \/ out.at = out.entry.asOf
<1>1. ASSUME NEW d \in Callers, call'[d] = call[d] PROVE Fine(d)'
  BY <1>1 DEF FreshAnswers
\* One call gets its outcome, the others stay.
<1>0. ASSUME NEW c \in Callers, NEW out, call' = [call EXCEPT ![c] = out], Served(out),
             NEW d \in Callers
      PROVE  Fine(d)'
  <2>1. CASE d = c
    <3>1. call'[d] = out
      BY <1>0, <2>1 DEF TypeOK
    <3> QED
      BY <1>0, <3>1
  <2>2. CASE d # c
    BY <1>0, <1>1, <2>2 DEF TypeOK
  <2> QED
    BY <2>1, <2>2
<1>2. ASSUME NEW c \in Callers, NEW p \in Pairs, Hit(c, p), NEW d \in Callers
      PROVE  Fine(d)'
  <2> DEFINE out == [step |-> "done", pair |-> p, outcome |-> "cache",
                     entry |-> cache[p], at |-> now, limited |-> FALSE]
  <2>1. call' = [call EXCEPT ![c] = out]
    BY <1>2 DEF Hit, Finish
  <2>2. now < cache[p].asOf + Ttl
    BY <1>2 DEF Hit, Fresh, Dated
  <2>3. Served(out)
    BY <2>2
  <2> HIDE DEF out, Served, Fine
  <2> QED
    BY <1>0, <2>1, <2>3
<1>3. ASSUME NEW c \in Callers, NEW p \in Pairs, CallProvider(c, p), NEW d \in Callers
      PROVE  Fine(d)'
  <2>1. call'[c].step # "done" /\ \A o \in Callers \ {c} : call'[o] = call[o]
    BY <1>3 DEF CallProvider, TypeOK
  <2> QED
    BY <1>1, <2>1
<1>4. ASSUME NEW c \in Callers, NEW p, NEW cached, NEW limited,
             Fallback(c, p, cached, limited), NEW d \in Callers
      PROVE  Fine(d)'
  <2> DEFINE out == [step |-> "done", pair |-> p,
                     outcome |-> IF cached = NoEntry THEN "unavailable" ELSE "stale-cache",
                     entry |-> cached, at |-> now, limited |-> limited]
  <2>1. call' = [call EXCEPT ![c] = out]
    BY <1>4 DEF Fallback, Finish
  <2>2. Served(out)
    OBVIOUS
  <2> HIDE DEF out, Served, Fine
  <2> QED
    BY <1>0, <2>1, <2>2
<1>5. ASSUME NEW c \in Callers, NEW p \in Pairs, Refuse(c, p), NEW d \in Callers
      PROVE  Fine(d)'
  BY <1>4, <1>5 DEF Refuse
<1>6. ASSUME NEW c \in Callers, Answer(c), NEW d \in Callers PROVE Fine(d)'
  <2> DEFINE out == [step |-> "done", pair |-> call[c].pair, outcome |-> "provider",
                     entry |-> [asOf |-> now, storedAt |-> now], at |-> now,
                     limited |-> FALSE]
  <2>1. call' = [call EXCEPT ![c] = out]
    BY <1>6 DEF Answer, Finish
  <2>2. Served(out)
    OBVIOUS
  <2> HIDE DEF out, Served, Fine
  <2> QED
    BY <1>0, <2>1, <2>2
<1>7. ASSUME NEW c \in Callers, NoRate(c), NEW d \in Callers PROVE Fine(d)'
  <2> DEFINE out == [step |-> "done", pair |-> call[c].pair, outcome |-> "no rate",
                     entry |-> NoEntry, at |-> now, limited |-> FALSE]
  <2>1. call' = [call EXCEPT ![c] = out]
    BY <1>7 DEF NoRate, Finish
  <2>2. Served(out)
    OBVIOUS
  <2> HIDE DEF out, Served, Fine
  <2> QED
    BY <1>0, <2>1, <2>2
<1>8. ASSUME NEW c \in Callers, Fail(c), NEW d \in Callers PROVE Fine(d)'
  BY <1>4, <1>8 DEF Fail
<1>9. ASSUME Tick \/ UNCHANGED vars, NEW d \in Callers PROVE Fine(d)'
  BY <1>1, <1>9 DEF Tick, vars
<1>10. \A d \in Callers : Fine(d)'
  BY <1>2, <1>3, <1>5, <1>6, <1>7, <1>8, <1>9 DEF Next
<1> QED
  BY <1>10 DEF FreshAnswers

\* Nothing is cached when the process starts.
LEMMA DatedInit == ASSUME Init PROVE TypeOK /\ Dated /\ FreshAnswers
<1>1. TypeOK
  BY DEF Init, TypeOK, Entry, Idle
<1> QED
  BY <1>1 DEF Init, Dated, FreshAnswers, Idle

\* A rate that is not labelled stale is younger than the TTL by the provider's
\* date, for any number of concurrent calls, failures and refusals.
THEOREM AnswersFresh == Spec => []FreshAnswers
<1>1. TypeOK /\ Dated /\ FreshAnswers /\ [Next]_vars => TypeOK' /\ Dated' /\ FreshAnswers'
  BY TypeStep, DatedStep, FreshStep
<1> QED
  BY <1>1, DatedInit, PTL DEF Spec

\* A call that waited and fell back never replaces what another call stored
\* meanwhile: no step of any interleaving makes a cached rate older.
THEOREM CacheOnlyNewer == Spec => CacheMovesForward
<1>1. ASSUME TypeOK, Dated, [Next]_vars
      PROVE  [\A p \in Pairs : cache[p] # NoEntry =>
                cache'[p] # NoEntry /\ cache'[p].asOf >= cache[p].asOf]_vars
  <2> SUFFICES ASSUME NEW p \in Pairs, cache[p] # NoEntry
               PROVE  cache'[p] # NoEntry /\ cache'[p].asOf >= cache[p].asOf
    OBVIOUS
  <2>1. cache[p] \in Entry /\ cache[p].asOf \in Nat /\ cache[p].asOf <= now /\ now \in Nat
    <3>1. cache[p] \in Entry
      BY <1>1 DEF TypeOK
    <3> QED
      BY <1>1, <3>1 DEF TypeOK, Entry, Dated
  <2>2. CASE cache'[p] = cache[p]
    BY <2>1, <2>2
  <2>3. CASE cache'[p] # cache[p]
    <3>1. cache'[p] = [asOf |-> now, storedAt |-> now]
      BY <1>1, <2>3, CacheStep DEF TypeOK
    <3>2. cache'[p] # NoEntry
      BY <2>1, <3>1, FxAssumption
    <3> QED
      BY <2>1, <3>1, <3>2
  <2> QED
    BY <2>2, <2>3
<1>2. TypeOK /\ Dated /\ [Next]_vars => TypeOK' /\ Dated'
  BY TypeStep, DatedStep
<1> QED
  BY <1>1, <1>2, DatedInit, PTL DEF Spec, CacheMovesForward
=============================================================================
