-------------------------- MODULE IngestionProofs --------------------------
(***************************************************************************)
(* Knowledge ingestion, for any number of pods, requests and files: the    *)
(* advisory lock keeps the workers apart, so no file is there twice, and   *)
(* what somebody reported as ingested stays.                               *)
(***************************************************************************)
EXTENDS Ingestion, FiniteSetTheorems, TLAPS

\* Who works has the lock.
LockHeld == \A w \in Workers : worker[w].pc \in Busy => holder = w

\* How far a worker has come: the files before its current one are there, and what
\* its DELETE took is all there is of that one.
Progress(w) ==
  /\ worker[w].pc \in {"embedding", "replacing", "unlocking"} =>
       \A i \in 1 .. Len(Files) - worker[w].left : chunks[Files[i]] # {}
  /\ worker[w].pc = "replacing" =>
       worker[w].left > 0 /\ worker[w].taken = chunks[File(w)]
  /\ worker[w].pc = "unlocking" => worker[w].left = 0
  /\ worker[w].pc = "ingested" => \A f \in Sources : chunks[f] # {}

OneCopy == \A f \in Sources : \A x, y \in chunks[f] : x = y

IngestionInv == TypeOK /\ LockHeld /\ OneCopy /\ \A w \in Workers : Progress(w)

-----------------------------------------------------------------------------
(* What a step makes of its worker *)

WorkerType == [pc : {"idle"} \cup Running \cup Ends, attempt : 1 .. MaxAttempts,
               left : 0 .. Len(Files), taken : SUBSET Copies]

States == {"idle"} \cup Running \cup Ends
Lefts == 0 .. Len(Files)

\* A worker in a new state, and the others in their old ones.
LEMMA Put ==
  ASSUME worker \in [Workers -> WorkerType], NEW w \in Workers, NEW new \in WorkerType,
         worker' = [worker EXCEPT ![w] = new]
  PROVE  /\ worker' \in [Workers -> WorkerType] /\ worker'[w] = new
         /\ \A v \in Workers \ {w} : worker'[v] = worker[v]
OBVIOUS

\* A worker changes its pc only.
LEMMA GoesTo ==
  ASSUME worker \in [Workers -> WorkerType], NEW w \in Workers, NEW pc \in States,
         Goes(w, pc)
  PROVE  /\ worker' \in [Workers -> WorkerType] /\ worker'[w].pc = pc
         /\ worker'[w].left = worker[w].left /\ worker'[w].taken = worker[w].taken
         /\ \A v \in Workers \ {w} : worker'[v] = worker[v]
<1> DEFINE r0 == worker[w]
           r1 == [pc |-> pc, attempt |-> r0.attempt, left |-> r0.left, taken |-> r0.taken]
<1>1. [r0 EXCEPT !.pc = pc] = r1
  BY DEF WorkerType
<1>2. /\ r1 \in WorkerType /\ r1.pc = pc /\ r1.left = r0.left /\ r1.taken = r0.taken
  BY DEF WorkerType, States
<1> HIDE DEF r1
<1>3. worker' = [worker EXCEPT ![w] = r1]
  BY <1>1 DEF Goes
<1> QED
  BY <1>2, <1>3, Put

\* It changes two fields at once.
SetAttempt(w, pc, n) == worker' = [worker EXCEPT ![w].pc = pc, ![w].attempt = n]
SetTaken(w, pc, took) == worker' = [worker EXCEPT ![w].pc = pc, ![w].taken = took]
SetLeft(w, pc, n) == worker' = [worker EXCEPT ![w].pc = pc, ![w].left = n]

LEMMA AttemptTo ==
  ASSUME worker \in [Workers -> WorkerType], NEW w \in Workers, NEW pc \in States,
         NEW n \in 1 .. MaxAttempts,
         SetAttempt(w, pc, n)
  PROVE  /\ worker' \in [Workers -> WorkerType] /\ worker'[w].pc = pc
         /\ worker'[w].left = worker[w].left /\ worker'[w].taken = worker[w].taken
         /\ \A v \in Workers \ {w} : worker'[v] = worker[v]
<1> DEFINE r0 == worker[w]
           r1 == [pc |-> pc, attempt |-> r0.attempt, left |-> r0.left, taken |-> r0.taken]
           r2 == [pc |-> pc, attempt |-> n, left |-> r0.left, taken |-> r0.taken]
           f1 == [worker EXCEPT ![w] = r1]
<1>1. [r0 EXCEPT !.pc = pc] = r1
  BY DEF WorkerType
<1>2. [r1 EXCEPT !.attempt = n] = r2
  OBVIOUS
<1>3. /\ r2 \in WorkerType /\ r2.pc = pc
      /\ r2.left = r0.left /\ r2.taken = r0.taken
  BY DEF WorkerType, States
<1> HIDE DEF r1, r2
<1>4. [worker EXCEPT ![w].pc = pc] = f1
  BY <1>1
<1>5. [f1 EXCEPT ![w].attempt = n] = [worker EXCEPT ![w] = r2]
  BY <1>2
<1>6. worker' = [worker EXCEPT ![w] = r2]
  BY <1>4, <1>5 DEF SetAttempt
<1> HIDE DEF r0, f1
<1> QED
  BY <1>3, <1>6, Put DEF r0

LEMMA TakenTo ==
  ASSUME worker \in [Workers -> WorkerType], NEW w \in Workers, NEW pc \in States,
         NEW took \in SUBSET Copies,
         SetTaken(w, pc, took)
  PROVE  /\ worker' \in [Workers -> WorkerType] /\ worker'[w].pc = pc
         /\ worker'[w].left = worker[w].left /\ worker'[w].taken = took
         /\ \A v \in Workers \ {w} : worker'[v] = worker[v]
<1> DEFINE r0 == worker[w]
           r1 == [pc |-> pc, attempt |-> r0.attempt, left |-> r0.left, taken |-> r0.taken]
           r2 == [pc |-> pc, attempt |-> r0.attempt, left |-> r0.left, taken |-> took]
           f1 == [worker EXCEPT ![w] = r1]
<1>1. [r0 EXCEPT !.pc = pc] = r1
  BY DEF WorkerType
<1>2. [r1 EXCEPT !.taken = took] = r2
  OBVIOUS
<1>3. /\ r2 \in WorkerType /\ r2.pc = pc
      /\ r2.left = r0.left /\ r2.taken = took
  BY DEF WorkerType, States
<1> HIDE DEF r1, r2
<1>4. [worker EXCEPT ![w].pc = pc] = f1
  BY <1>1
<1>5. [f1 EXCEPT ![w].taken = took] = [worker EXCEPT ![w] = r2]
  BY <1>2
<1>6. worker' = [worker EXCEPT ![w] = r2]
  BY <1>4, <1>5 DEF SetTaken
<1> HIDE DEF r0, f1
<1> QED
  BY <1>3, <1>6, Put DEF r0

LEMMA LeftTo ==
  ASSUME worker \in [Workers -> WorkerType], NEW w \in Workers, NEW pc \in States,
         NEW n \in Lefts,
         SetLeft(w, pc, n)
  PROVE  /\ worker' \in [Workers -> WorkerType] /\ worker'[w].pc = pc
         /\ worker'[w].left = n /\ worker'[w].taken = worker[w].taken
         /\ \A v \in Workers \ {w} : worker'[v] = worker[v]
<1> DEFINE r0 == worker[w]
           r1 == [pc |-> pc, attempt |-> r0.attempt, left |-> r0.left, taken |-> r0.taken]
           r2 == [pc |-> pc, attempt |-> r0.attempt, left |-> n, taken |-> r0.taken]
           f1 == [worker EXCEPT ![w] = r1]
<1>1. [r0 EXCEPT !.pc = pc] = r1
  BY DEF WorkerType
<1>2. [r1 EXCEPT !.left = n] = r2
  OBVIOUS
<1>3. /\ r2 \in WorkerType /\ r2.pc = pc
      /\ r2.left = n /\ r2.taken = r0.taken
  BY DEF WorkerType, States, Lefts
<1> HIDE DEF r1, r2
<1>4. [worker EXCEPT ![w].pc = pc] = f1
  BY <1>1
<1>5. [f1 EXCEPT ![w].left = n] = [worker EXCEPT ![w] = r2]
  BY <1>2
<1>6. worker' = [worker EXCEPT ![w] = r2]
  BY <1>4, <1>5 DEF SetLeft
<1> HIDE DEF r0, f1
<1> QED
  BY <1>3, <1>6, Put DEF r0

LEMMA LocksTo ==
  ASSUME worker \in [Workers -> WorkerType], NEW w \in Workers,
         worker' = [worker EXCEPT ![w].pc = "embedding", ![w].left = Len(Files)]
  PROVE  /\ worker' \in [Workers -> WorkerType] /\ worker'[w].pc = "embedding"
         /\ worker'[w].left = Len(Files)
         /\ \A v \in Workers \ {w} : worker'[v] = worker[v]
<1>1. Len(Files) \in Lefts /\ "embedding" \in States
  BY IngestionAssumption DEF Lefts, States, Running, Busy
<1>2. SetLeft(w, "embedding", Len(Files))
  BY DEF SetLeft
<1> QED
  BY <1>1, <1>2, LeftTo

\* And three, when a file is done.
LEMMA FileDoneTo ==
  ASSUME worker \in [Workers -> WorkerType], NEW w \in Workers,
         worker[w].left \in 1 .. Len(Files),
         worker' = [worker EXCEPT ![w].pc = "embedding", ![w].left = @ - 1, ![w].taken = {}]
  PROVE  /\ worker' \in [Workers -> WorkerType] /\ worker'[w].pc = "embedding"
         /\ worker'[w].left = worker[w].left - 1
         /\ \A v \in Workers \ {w} : worker'[v] = worker[v]
<1> DEFINE r0 == worker[w]  n == r0.left - 1
           r1 == [pc |-> "embedding", attempt |-> r0.attempt, left |-> n,
                  taken |-> r0.taken]
           r2 == [pc |-> "embedding", attempt |-> r0.attempt, left |-> n, taken |-> {}]
           f1 == [worker EXCEPT ![w].pc = "embedding"]
           f2 == [f1 EXCEPT ![w].left = n]
<1>1. f2 = [worker EXCEPT ![w] = r1]
  <2> DEFINE r == [pc |-> "embedding", attempt |-> r0.attempt, left |-> r0.left,
                   taken |-> r0.taken]
  <2>1. [r0 EXCEPT !.pc = "embedding"] = r /\ [r EXCEPT !.left = n] = r1
    BY DEF WorkerType
  <2> HIDE DEF r, r1, n
  <2>2. f1 = [worker EXCEPT ![w] = r]
    BY <2>1
  <2> HIDE DEF f1
  <2> QED
    BY <2>1, <2>2
<1>2. [r1 EXCEPT !.taken = {}] = r2
  <2> DEFINE none == {}
  <2>1. r2 = [pc |-> r1.pc, attempt |-> r1.attempt, left |-> r1.left, taken |-> none]
    OBVIOUS
  <2>2. r1 = [pc |-> r1.pc, attempt |-> r1.attempt, left |-> r1.left, taken |-> r1.taken]
    OBVIOUS
  <2> HIDE DEF n, r0, r1, r2, none
  <2>3. [r1 EXCEPT !.taken = none] = r2
    BY <2>1, <2>2
  <2> QED
    BY <2>3 DEF none
<1>3. worker' = [f2 EXCEPT ![w].taken = {}]
  OBVIOUS
<1>4. r2 \in WorkerType /\ r2.pc = "embedding" /\ r2.left = n
  <2>1. n \in 0 .. Len(Files) /\ "embedding" \in States
    BY IngestionAssumption DEF States, Running, Busy
  <2>2. r0.attempt \in 1 .. MaxAttempts
    BY DEF WorkerType
  <2> HIDE DEF n, r0
  <2> QED
    BY <2>1, <2>2 DEF WorkerType, States
<1> HIDE DEF f2, r1, r2
<1>5. worker' = [worker EXCEPT ![w] = r2]
  BY <1>1, <1>2, <1>3
<1> QED
  BY <1>4, <1>5, Put

\* Where an exception leads.
LEMMA ThrowsTo ==
  ASSUME TypeOK, NEW w \in Workers, Throws(w)
  PROVE  /\ worker' \in [Workers -> WorkerType]
         /\ worker'[w].pc \in {"failed", "waiting"}
         /\ \A v \in Workers \ {w} : worker'[v] = worker[v]
<1>1. worker \in [Workers -> WorkerType] /\ worker[w] \in WorkerType
  BY DEF TypeOK, WorkerType
<1>2. /\ worker[w].attempt \in 1 .. MaxAttempts /\ worker[w].left \in 0 .. Len(Files)
      /\ worker[w].taken \in SUBSET Copies
  BY <1>1 DEF WorkerType
<1>3. "failed" \in States /\ "waiting" \in States
  BY DEF States, Running, Ends
<1>4. CASE Goes(w, "failed")
  BY <1>1, <1>3, <1>4, GoesTo
<1>5. CASE /\ worker[w].attempt # MaxAttempts
           /\ worker' = [worker EXCEPT ![w].pc = "waiting", ![w].attempt = @ + 1]
  <2> DEFINE n == worker[w].attempt + 1
  <2>1. SetAttempt(w, "waiting", n)
    BY <1>5 DEF SetAttempt
  <2>2. n \in 1 .. MaxAttempts
    BY <1>2, <1>5, IngestionAssumption
  <2> HIDE DEF n
  <2> QED
    BY <1>1, <1>3, <2>1, <2>2, AttemptTo
<1> QED
  BY <1>4, <1>5 DEF Throws

-----------------------------------------------------------------------------
(* The steps *)

\* Another worker goes on: no file goes away, and the current one changes only when
\* this worker does not replace it.
LEMMA ProgressFrame ==
  ASSUME TypeOK, NEW v \in Workers, Progress(v), worker'[v] = worker[v],
         \A f \in Sources : chunks[f] # {} => chunks'[f] # {},
         worker[v].pc = "replacing" => chunks' = chunks
  PROVE  Progress(v)'
<1>1. worker[v].left \in 0 .. Len(Files)
  BY DEF TypeOK
<1>2. \A i \in 1 .. Len(Files) - worker[v].left : Files[i] \in Sources
  BY <1>1, IngestionAssumption DEF Sources
<1> QED
  BY <1>1, <1>2 DEF Progress, File

\* Steps after which the worker neither works nor has ingested.
LEMMA OutOfWork ==
  ASSUME IngestionInv, NEW w \in Workers,
         worker' \in [Workers -> WorkerType],
         \A v \in Workers \ {w} : worker'[v] = worker[v],
         worker'[w].pc \notin Busy \cup {"ingested"}, chunks' = chunks,
         holder' = holder \/ (holder = w /\ holder' = Nobody),
         faults' = faults \/ Fault, crashes' = crashes
  PROVE  IngestionInv'
<1>1. TypeOK'
  BY IngestionAssumption DEF IngestionInv, TypeOK, WorkerType, Fault
<1>2. LockHeld'
  BY DEF IngestionInv, LockHeld
<1>3. OneCopy'
  BY DEF IngestionInv, OneCopy
<1>4. ASSUME NEW v \in Workers PROVE Progress(v)'
  <2>1. CASE v = w
    BY <2>1 DEF Progress, Busy
  <2>2. CASE v # w
    BY <2>2, ProgressFrame DEF IngestionInv
  <2> QED
    BY <2>1, <2>2
<1> QED
  BY <1>1, <1>2, <1>3, <1>4 DEF IngestionInv

\* Steps of the one with the lock.
LEMMA InWork ==
  ASSUME IngestionInv, NEW w \in Workers,
         worker' \in [Workers -> WorkerType],
         \A v \in Workers \ {w} : worker'[v] = worker[v],
         holder \in {w, Nobody}, holder' = w \/ worker'[w].pc \notin Busy,
         holder' \in {w, Nobody},
         chunks' \in [Sources -> SUBSET Copies], OneCopy',
         \A f \in Sources : chunks[f] # {} => chunks'[f] # {},
         faults' = faults \/ Fault, crashes' = crashes, Progress(w)'
  PROVE  IngestionInv'
<1>1. TypeOK'
  BY IngestionAssumption DEF IngestionInv, TypeOK, WorkerType, Fault
<1>2. \A v \in Workers \ {w} : worker[v].pc \notin Busy
  BY IngestionAssumption DEF IngestionInv, LockHeld
<1>3. LockHeld'
  BY <1>2 DEF LockHeld
<1>4. ASSUME NEW v \in Workers PROVE Progress(v)'
  <2>1. CASE v = w
    BY <2>1
  <2>2. CASE v # w
    BY <1>2, <2>2, ProgressFrame DEF IngestionInv, Busy
  <2> QED
    BY <2>1, <2>2
<1> QED
  BY <1>1, <1>3, <1>4 DEF IngestionInv

\* Steps of a worker without the lock: it begins, waits, asks or leaves.
LEMMA AsideStep ==
  ASSUME IngestionInv, NEW w \in Workers,
         \/ \E pc \in States \ (Busy \cup {"ingested"}) : Goes(w, pc)
         \/ Throws(w),
         chunks' = chunks, holder' = holder \/ (holder = w /\ holder' = Nobody),
         faults' = faults \/ Fault, crashes' = crashes
  PROVE  IngestionInv'
<1>1. /\ worker' \in [Workers -> WorkerType]
      /\ \A v \in Workers \ {w} : worker'[v] = worker[v]
      /\ worker'[w].pc \notin Busy \cup {"ingested"}
  <2>1. CASE Throws(w)
    BY <2>1, ThrowsTo DEF IngestionInv, Busy
  <2>2. ASSUME NEW pc \in States \ (Busy \cup {"ingested"}), Goes(w, pc)
        PROVE  /\ worker' \in [Workers -> WorkerType]
               /\ \A v \in Workers \ {w} : worker'[v] = worker[v]
               /\ worker'[w].pc \notin Busy \cup {"ingested"}
    <3>1. /\ worker' \in [Workers -> WorkerType] /\ worker'[w].pc = pc
          /\ \A v \in Workers \ {w} : worker'[v] = worker[v]
      BY <2>2, GoesTo DEF IngestionInv, TypeOK, WorkerType
    <3> QED
      BY <2>2, <3>1
  <2> QED
    BY <2>1, <2>2
<1> QED
  BY <1>1, OutOfWork

\* The worker takes the lock and begins with the first file.
LEMMA AcquireStep ==
  ASSUME IngestionInv, NEW w \in Workers, holder = Nobody, holder' = w,
         worker' = [worker EXCEPT ![w].pc = "embedding", ![w].left = Len(Files)],
         UNCHANGED <<chunks, faults, crashes>>
  PROVE  IngestionInv'
<1>1. worker \in [Workers -> WorkerType] /\ worker[w] \in WorkerType
  BY DEF IngestionInv, TypeOK, WorkerType
<1>4. /\ worker' \in [Workers -> WorkerType] /\ worker'[w].pc = "embedding"
      /\ worker'[w].left = Len(Files)
      /\ \A v \in Workers \ {w} : worker'[v] = worker[v]
  BY <1>1, LocksTo
<1>5. Progress(w)'
  BY <1>4, IngestionAssumption DEF Progress
<1>6. chunks' \in [Sources -> SUBSET Copies] /\ OneCopy'
  BY DEF IngestionInv, TypeOK, OneCopy
<1> QED
  BY <1>4, <1>5, <1>6, InWork

\* The DELETE of the current file.
LEMMA EmbedStep ==
  ASSUME IngestionInv, NEW w \in Workers, worker[w].pc = "embedding", worker[w].left > 0,
         worker' = [worker EXCEPT ![w].pc = "replacing", ![w].taken = chunks[File(w)]],
         UNCHANGED <<chunks, holder, faults, crashes>>
  PROVE  IngestionInv'
<1>1. worker \in [Workers -> WorkerType] /\ worker[w] \in WorkerType
  BY DEF IngestionInv, TypeOK, WorkerType
<1>2. worker[w].left \in 0 .. Len(Files)
  BY <1>1 DEF WorkerType
<1>3. File(w) \in Sources
  BY <1>2, IngestionAssumption DEF File, Sources
<1>4. chunks[File(w)] \in SUBSET Copies
  BY <1>3 DEF IngestionInv, TypeOK
<1>5. "replacing" \in States
  BY DEF States, Running, Busy
<1>6. /\ worker' \in [Workers -> WorkerType] /\ worker'[w].pc = "replacing"
      /\ worker'[w].left = worker[w].left /\ worker'[w].taken = chunks[File(w)]
      /\ \A v \in Workers \ {w} : worker'[v] = worker[v]
  <2>1. SetTaken(w, "replacing", chunks[File(w)])
    BY DEF SetTaken
  <2> QED
    BY <1>1, <1>4, <1>5, <2>1, TakenTo
<1>7. Progress(w)'
  BY <1>6 DEF Progress, File, IngestionInv
<1>8. holder = w
  BY DEF IngestionInv, LockHeld, Busy
<1>9. chunks' \in [Sources -> SUBSET Copies] /\ OneCopy'
  BY DEF IngestionInv, TypeOK, OneCopy
<1> QED
  BY <1>6, <1>7, <1>8, <1>9, InWork

\* The inserts of the current file and the commit.
LEMMA InsertStep ==
  ASSUME IngestionInv, NEW w \in Workers, worker[w].pc = "replacing",
         chunks' = [chunks EXCEPT ![File(w)] =
                     (@ \ worker[w].taken) \cup {<<w, worker[w].attempt>>}],
         worker' = [worker EXCEPT ![w].pc = "embedding", ![w].left = @ - 1, ![w].taken = {}],
         UNCHANGED <<holder, faults, crashes>>
  PROVE  IngestionInv'
<1> DEFINE copy == <<w, worker[w].attempt>>  n == worker[w].left - 1
<1>1. worker \in [Workers -> WorkerType] /\ worker[w] \in WorkerType
  BY DEF IngestionInv, TypeOK, WorkerType
<1>2. /\ worker[w].left \in 1 .. Len(Files) /\ worker[w].taken = chunks[File(w)]
      /\ \A i \in 1 .. Len(Files) - worker[w].left : chunks[Files[i]] # {}
  <2>1. worker[w].left \in 0 .. Len(Files) /\ Len(Files) \in Nat
    BY <1>1, IngestionAssumption DEF WorkerType
  <2>2. Progress(w)
    BY DEF IngestionInv
  <2> QED
    BY <2>1, <2>2 DEF Progress
<1>3. n \in 0 .. Len(Files) /\ worker[w].left = n + 1 /\ Len(Files) \in Nat
  BY <1>1, <1>2, IngestionAssumption
<1>14. copy \in Copies
  BY <1>1 DEF WorkerType, Copies
<1>4. File(w) \in Sources /\ File(w) = Files[Len(Files) - n]
  <2>1. Len(Files) - worker[w].left + 1 = Len(Files) - n /\ Len(Files) - n \in 1 .. Len(Files)
    BY <1>2, <1>3
  <2> HIDE DEF n
  <2> QED
    BY <2>1, IngestionAssumption DEF File, Sources
<1> HIDE DEF copy, n
<1>6. /\ worker' \in [Workers -> WorkerType] /\ worker'[w].pc = "embedding"
      /\ worker'[w].left = n
      /\ \A v \in Workers \ {w} : worker'[v] = worker[v]
  BY <1>1, <1>2, FileDoneTo DEF n
<1>7. chunks' = [chunks EXCEPT ![File(w)] = {copy}]
  BY <1>2 DEF copy
<1>8. chunks' \in [Sources -> SUBSET Copies]
  BY <1>14, <1>7 DEF IngestionInv, TypeOK
<1>9. chunks'[File(w)] = {copy} /\ \A f \in Sources \ {File(w)} : chunks'[f] = chunks[f]
  BY <1>4, <1>7 DEF IngestionInv, TypeOK
<1>10. OneCopy'
  BY <1>9 DEF IngestionInv, OneCopy
<1>11. \A f \in Sources : chunks[f] # {} => chunks'[f] # {}
  BY <1>9
<1>12. Progress(w)'
  <2>1. ASSUME NEW i \in 1 .. Len(Files) - n PROVE chunks'[Files[i]] # {}
    <3>1. Files[i] \in Sources
      BY <1>3, <2>1, IngestionAssumption DEF Sources
    <3>2. CASE i = Len(Files) - n
      BY <1>4, <1>9, <3>2
    <3>3. CASE i # Len(Files) - n
      <4>1. i \in 1 .. Len(Files) - worker[w].left
        BY <1>3, <2>1, <3>3
      <4> QED
        BY <1>2, <1>11, <3>1, <4>1
    <3> QED
      BY <3>2, <3>3
  <2> QED
    BY <1>6, <2>1 DEF Progress
<1>13. holder = w
  BY DEF IngestionInv, LockHeld, Busy
<1> QED
  BY <1>6, <1>8, <1>10, <1>11, <1>12, <1>13, InWork

\* Steps that leave the files alone while the worker keeps the lock.
LEMMA KeepsLock ==
  ASSUME IngestionInv, NEW w \in Workers, worker[w].pc \in Busy,
         NEW pc \in {"giving up", "unlocking"}, Goes(w, pc),
         pc = "unlocking" => worker[w].pc = "embedding" /\ worker[w].left = 0,
         UNCHANGED <<chunks, holder, crashes>>, faults' = faults \/ Fault
  PROVE  IngestionInv'
<1>1. pc \in States
  BY DEF States, Running, Busy
<1>2. /\ worker' \in [Workers -> WorkerType] /\ worker'[w].pc = pc
      /\ worker'[w].left = worker[w].left
      /\ \A v \in Workers \ {w} : worker'[v] = worker[v]
  BY <1>1, GoesTo DEF IngestionInv, TypeOK, WorkerType
<1>3. Progress(w)'
  BY <1>2 DEF Progress, IngestionInv
<1>4. holder = w
  BY DEF IngestionInv, LockHeld
<1>5. chunks' \in [Sources -> SUBSET Copies] /\ OneCopy'
  BY DEF IngestionInv, TypeOK, OneCopy
<1> QED
  BY <1>2, <1>3, <1>4, <1>5, InWork

\* Every file is done when the lock is given back.
LEMMA IngestedStep ==
  ASSUME IngestionInv, NEW w \in Workers, worker[w].pc = "unlocking",
         Goes(w, "ingested"), Unlocked(w), UNCHANGED <<chunks, crashes, faults>>
  PROVE  IngestionInv'
<1>1. "ingested" \in States
  BY DEF States, Ends
<1>2. /\ worker' \in [Workers -> WorkerType] /\ worker'[w].pc = "ingested"
      /\ \A v \in Workers \ {w} : worker'[v] = worker[v]
  BY <1>1, GoesTo DEF IngestionInv, TypeOK, WorkerType
<1>3. \A i \in 1 .. Len(Files) : chunks[Files[i]] # {}
  <2>1. Progress(w) /\ worker[w].left = 0
    BY DEF IngestionInv, Progress
  <2> QED
    BY <2>1, IngestionAssumption DEF Progress
<1>4. \A f \in Sources : chunks[f] # {}
  BY <1>3, IngestionAssumption DEF Sources
<1>5. Progress(w)'
  BY <1>2, <1>4 DEF Progress
<1>6. holder = w /\ holder' = Nobody
  BY DEF IngestionInv, LockHeld, Busy, Unlocked
<1>7. chunks' \in [Sources -> SUBSET Copies] /\ OneCopy'
  BY DEF IngestionInv, TypeOK, OneCopy
<1>8. worker'[w].pc \notin Busy
  BY <1>2 DEF Busy
<1> QED
  BY <1>2, <1>5, <1>6, <1>7, <1>8, InWork

\* A pod dies with its workers, and with the lock if one of them had it.
LEMMA CrashStep ==
  ASSUME IngestionInv, NEW pod, Crash(pod)
  PROVE  IngestionInv'
<1> DEFINE Dies(w) == PodOf[w] = pod /\ worker[w].pc \in Running
<1>1. \A w \in Workers : worker[w] \in WorkerType
  BY DEF IngestionInv, TypeOK, WorkerType
<1>2. ASSUME NEW w \in Workers, Dies(w)
      PROVE  worker'[w] \in WorkerType /\ worker'[w].pc = "dead"
  <2>1. worker'[w] = [worker[w] EXCEPT !.pc = "dead"]
    BY <1>2 DEF Crash
  <2>2. "dead" \in {"idle"} \cup Running \cup Ends
    BY DEF Ends
  <2> QED
    BY <1>1, <2>1, <2>2 DEF WorkerType
<1>3. \A w \in Workers : ~Dies(w) => worker'[w] = worker[w]
  BY DEF Crash
<1> HIDE DEF Dies
<1>4. worker' \in [Workers -> WorkerType]
  BY <1>1, <1>2, <1>3 DEF Crash
<1>5. TypeOK'
  <2>1. holder' \in Workers \cup {Nobody} /\ UNCHANGED <<chunks, faults>>
    BY DEF Crash, IngestionInv, TypeOK
  <2>2. crashes' \in 0 .. MaxCrashes
    BY IngestionAssumption DEF Crash, IngestionInv, TypeOK
  <2> QED
    BY <1>4, <2>1, <2>2 DEF IngestionInv, TypeOK, WorkerType
<1>6. ASSUME NEW w \in Workers, worker'[w].pc \in Busy PROVE holder' = w
  <2>1. ~Dies(w) /\ worker[w].pc \in Busy
    BY <1>2, <1>3, <1>6 DEF Busy
  <2>2. PodOf[w] # pod
    BY <2>1 DEF Dies, Running
  <2>3. holder = w
    BY <2>1 DEF IngestionInv, LockHeld
  <2> QED
    BY <2>2, <2>3 DEF Crash
<1>7. ASSUME NEW w \in Workers PROVE Progress(w)'
  <2>1. CASE Dies(w)
    BY <1>2, <2>1 DEF Progress
  <2>2. CASE ~Dies(w)
    BY <1>3, <2>2, ProgressFrame DEF IngestionInv, Crash
  <2> QED
    BY <2>1, <2>2
<1> QED
  BY <1>5, <1>6, <1>7 DEF IngestionInv, LockHeld, OneCopy, Crash

\* Every step keeps the invariant.
LEMMA IngestionNext == ASSUME IngestionInv, [Next]_vars PROVE IngestionInv'
<1>1. {"asking", "locking", "found", "left to others"} \subseteq
        States \ (Busy \cup {"ingested"})
  BY DEF States, Running, Busy, Ends
<1>2. ASSUME NEW w \in Workers, Start(w) \/ Retry(w) \/ Ask(w) PROVE IngestionInv'
  <2>1. \/ \E pc \in {"asking", "locking", "found"} : Goes(w, pc)
        \/ Throws(w)
    BY <1>2 DEF Start, Retry, Ask
  <2>2. chunks' = chunks /\ holder' = holder /\ crashes' = crashes
    BY <1>2 DEF Start, Retry, Ask
  <2>3. faults' = faults \/ Fault
    BY <1>2 DEF Start, Retry, Ask
  <2> QED
    BY <1>1, <2>1, <2>2, <2>3, AsideStep
<1>3. ASSUME NEW w \in Workers, Lock(w) PROVE IngestionInv'
  <2>1. CASE /\ holder = Nobody /\ holder' = w /\ UNCHANGED <<chunks, faults, crashes>>
             /\ worker' = [worker EXCEPT ![w].pc = "embedding", ![w].left = Len(Files)]
    BY <2>1, AcquireStep
  <2>2. CASE Goes(w, "left to others") /\ UNCHANGED <<chunks, holder, faults, crashes>>
    BY <1>1, <2>2, AsideStep
  <2>3. CASE Throws(w) /\ Fault /\ UNCHANGED <<chunks, holder, crashes>>
    BY <2>3, AsideStep
  <2> QED
    BY <1>3, <2>1, <2>2, <2>3 DEF Lock
<1>4. ASSUME NEW w \in Workers, Embed(w) PROVE IngestionInv'
  <2>1. CASE Goes(w, "giving up") /\ Fault /\ UNCHANGED <<chunks, holder, crashes>>
    BY <1>4, <2>1, KeepsLock DEF Embed, Busy
  <2>2. CASE /\ worker' = [worker EXCEPT ![w].pc = "replacing", ![w].taken = chunks[File(w)]]
             /\ UNCHANGED <<chunks, holder, faults, crashes>>
    BY <1>4, <2>2, EmbedStep DEF Embed
  <2> QED
    BY <1>4, <2>1, <2>2 DEF Embed
<1>5. ASSUME NEW w \in Workers, Insert(w) PROVE IngestionInv'
  <2>1. CASE Goes(w, "giving up") /\ Fault /\ UNCHANGED <<chunks, holder, crashes>>
    BY <1>5, <2>1, KeepsLock DEF Insert, Busy
  <2>2. CASE /\ chunks' = [chunks EXCEPT ![File(w)] =
                            (@ \ worker[w].taken) \cup {<<w, worker[w].attempt>>}]
             /\ worker' = [worker EXCEPT ![w].pc = "embedding", ![w].left = @ - 1,
                                         ![w].taken = {}]
             /\ UNCHANGED <<holder, faults, crashes>>
    BY <1>5, <2>2, InsertStep DEF Insert
  <2> QED
    BY <1>5, <2>1, <2>2 DEF Insert
<1>6. ASSUME NEW w \in Workers, LastFile(w) PROVE IngestionInv'
  BY <1>6, KeepsLock DEF LastFile, Busy
<1>7. ASSUME NEW w \in Workers, Unlock(w) PROVE IngestionInv'
  <2>1. CASE worker[w].pc = "unlocking" /\ Goes(w, "ingested") /\ UNCHANGED faults
    BY <1>7, <2>1, IngestedStep DEF Unlock
  <2>2. CASE worker[w].pc \in {"unlocking", "giving up"} /\ Throws(w)
    <3>1. holder = w /\ holder' = Nobody
      BY <1>7, <2>2 DEF IngestionInv, LockHeld, Busy, Unlock, Unlocked
    <3>2. chunks' = chunks /\ crashes' = crashes /\ (faults' = faults \/ Fault)
      BY <1>7 DEF Unlock
    <3> QED
      BY <2>2, <3>1, <3>2, AsideStep
  <2> QED
    BY <1>7, <2>1, <2>2 DEF Unlock
<1>8. ASSUME NEW pod, Crash(pod) PROVE IngestionInv'
  BY <1>8, CrashStep
<1>9. CASE UNCHANGED vars
  BY <1>9 DEF vars, IngestionInv, TypeOK, LockHeld, OneCopy, Progress, File
<1> QED
  BY <1>2, <1>3, <1>4, <1>5, <1>6, <1>7, <1>8, <1>9 DEF Next, Step, Done

LEMMA IngestionInit == ASSUME Init PROVE IngestionInv
<1>1. \A w \in Workers : worker[w] = [pc |-> "idle", attempt |-> 1, left |-> 0, taken |-> {}]
  BY DEF Init
<1>2. TypeOK
  BY IngestionAssumption DEF Init, TypeOK
<1>3. \A w \in Workers : worker[w].pc = "idle"
  BY <1>1
<1>4. LockHeld /\ \A w \in Workers : Progress(w)
  BY <1>3 DEF LockHeld, Progress, Busy
<1>5. OneCopy
  BY DEF Init, OneCopy
<1> QED
  BY <1>2, <1>4, <1>5 DEF IngestionInv

LEMMA IngestionAlways == Spec => []IngestionInv
BY IngestionInit, IngestionNext, PTL DEF Spec

-----------------------------------------------------------------------------
(* The theorems *)

\* The state of KnowledgeIngestionService's workers and of knowledge_chunks has the
\* types of the code; in particular no boot tries more often than it may.
THEOREM IngestionTyped == Spec => []TypeOK
<1>1. IngestionInv => TypeOK
  BY DEF IngestionInv
<1> QED
  BY <1>1, IngestionAlways, PTL

\* The advisory lock is enough for the READ COMMITTED replacements: whatever starts,
\* fails, is tried again or dies, no file's chunks are there twice.
THEOREM NoFileTwice == Spec => []SourcesOnce
<1>1. ASSUME IngestionInv PROVE SourcesOnce
  <2> SUFFICES ASSUME NEW f \in Sources PROVE Cardinality(chunks[f]) <= 1
    BY DEF SourcesOnce
  <2>1. \A x, y \in chunks[f] : x = y
    BY <1>1 DEF IngestionInv, OneCopy
  <2>2. CASE chunks[f] = {}
    BY <2>2, FS_EmptySet
  <2>3. CASE chunks[f] # {}
    <3>1. PICK x : chunks[f] = {x}
      BY <2>1, <2>3
    <3>2. Cardinality({x}) = 1
      BY FS_Singleton
    <3> QED
      BY <3>1, <3>2
  <2> QED
    BY <2>2, <2>3
<1> QED
  BY <1>1, IngestionAlways, PTL

\* What was reported as ingested can be found from then on.
THEOREM IngestedForGood == Spec => []IngestedStaysWhole
<1>1. IngestionInv => IngestedStaysWhole
  BY DEF IngestionInv, Progress, IngestedStaysWhole
<1> QED
  BY <1>1, IngestionAlways, PTL
=============================================================================
