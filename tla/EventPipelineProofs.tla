------------------------ MODULE EventPipelineProofs ------------------------
(***************************************************************************)
(* Proofs about EventPipeline: its types, the order in which a partition's *)
(* messages are dealt with, at-least-once delivery, and what may end among *)
(* the dead letters.                                                       *)
(***************************************************************************)
EXTENDS EventPipeline, TLAPS

USE PipelineAssumption

LEMMA PartitionType == \A e \in Events : PartitionOf(e) \in Partitions
BY DEF Partitions

LEMMA IdleIsNoJob == Idle \notin Job /\ \A j \in Job \cup {Idle} : j.step # "idle" => j \in Job
BY DEF Idle, Job

\* A job that is under way is a record on a partition.
LEMMA JobType ==
  ASSUME TypeOK, NEW w \in Workers, job[w] # Idle
  PROVE  /\ job[w] \in Job
         /\ job[w].part \in Partitions /\ job[w].at \in Nat
         /\ job[w].step \in {"insert", "bury"} /\ job[w].fresh \in BOOLEAN
<1>1. job[w] \in Job
  BY DEF TypeOK
<1>. QED BY <1>1 DEF Job

LEMMA StepIsJob ==
  ASSUME TypeOK, NEW w \in Workers, job[w].step \in {"insert", "bury"}
  PROVE  job[w] # Idle
BY DEF Idle

-----------------------------------------------------------------------------
(* Types *)

LEMMA ResolveType ==
  ASSUME TypeOK, NEW w \in Workers, job[w] # Idle, Resolve(w)
  PROVE  /\ job' \in [Workers -> Job \cup {Idle}]
         /\ position' \in [Partitions -> Nat]
<1>1. job[w].part \in Partitions /\ job[w].at \in Nat
  BY JobType
<1>. QED BY <1>1 DEF TypeOK, Resolve

LEMMA ToBuryType ==
  ASSUME TypeOK, NEW w \in Workers, job[w] # Idle, ToBury(w)
  PROVE  job' \in [Workers -> Job \cup {Idle}]
<1>1. job[w] \in Job
  BY JobType
<1>2. [job[w] EXCEPT !.step = "bury"] \in Job
  BY <1>1 DEF Job
<1>. QED BY <1>2 DEF TypeOK, ToBury

\* In a message that is being handled, the log is read inside its bounds.
InBounds == \A w \in Workers : job[w] # Idle => job[w].at \in DOMAIN log[job[w].part]

LEMMA MessageType ==
  ASSUME TypeOK, InBounds, NEW w \in Workers, job[w] # Idle
  PROVE  Message(w) \in Events
<1>1. job[w].part \in Partitions
  BY JobType
<1>2. log[job[w].part] \in Seq(Events)
  BY <1>1 DEF TypeOK
<1>3. job[w].at \in DOMAIN log[job[w].part]
  BY DEF InBounds
<1>. QED BY <1>2, <1>3 DEF Message

LEMMA TypePublish ==
  ASSUME TypeOK, NEW p \in Pods, NEW e \in Events, Commit(p, e) \/ HandOver(p, e)
  PROVE  TypeOK'
<1>. USE DEF TypeOK, consuming, results
<1>1. CASE Commit(p, e)
  BY <1>1 DEF Commit
<1>2. CASE HandOver(p, e)
  BY <1>2 DEF HandOver
<1>. QED BY <1>1, <1>2

LEMMA TypePod ==
  ASSUME TypeOK, NEW p \in Pods, Send(p) \/ SendFails(p) \/ Connect(p) \/ PodDies(p)
  PROVE  TypeOK'
<1>. USE DEF TypeOK, consuming, results
<1>1. CASE Send(p)
  <2>1. Head(outbox[p]) \in Events /\ Tail(outbox[p]) \in Seq(Events)
    BY <1>1 DEF Send
  <2>2. PartitionOf(Head(outbox[p])) \in Partitions
    BY <2>1, PartitionType
  <2>3. Append(log[PartitionOf(Head(outbox[p]))], Head(outbox[p])) \in Seq(Events)
    BY <2>1, <2>2
  <2>4. log' \in [Partitions -> Seq(Events)]
    BY <1>1, <2>2, <2>3 DEF Send
  <2>. QED BY <1>1, <2>1, <2>4 DEF Send
<1>2. CASE SendFails(p)
  <2>1. Tail(outbox[p]) \in Seq(Events)
    BY <1>2 DEF SendFails
  <2>. QED BY <1>2, <2>1 DEF SendFails, Fault
<1>3. CASE Connect(p)
  BY <1>3 DEF Connect
<1>4. CASE PodDies(p)
  BY <1>4 DEF PodDies, Fault
<1>. QED BY <1>1, <1>2, <1>3, <1>4

LEMMA TypeForeign ==
  ASSUME TypeOK, NEW e \in Events, ForeignSend(e)
  PROVE  TypeOK'
<1>1. PartitionOf(e) \in Partitions
  BY PartitionType
<1>. QED BY <1>1 DEF TypeOK, ForeignSend, producing, consuming, results

LEMMA TypeGroup ==
  ASSUME TypeOK, NEW w \in Workers, NEW t \in Partitions, Assign(w, t) \/ Fetch(w, t)
  PROVE  TypeOK'
<1>. USE DEF TypeOK, producing, results
<1>1. CASE Assign(w, t)
  BY <1>1 DEF Assign
<1>2. CASE Fetch(w, t)
  <2>1. [part |-> t, at |-> position[t] + 1, step |-> "insert", fresh |-> TRUE] \in Job
    BY DEF Job
  <2>. QED BY <1>2, <2>1 DEF Fetch
<1>. QED BY <1>1, <1>2

LEMMA TypeOffsets ==
  ASSUME TypeOK, NEW t \in Partitions, Revoke(t) \/ CommitOffset(t)
  PROVE  TypeOK'
<1>. USE DEF TypeOK, producing, results
<1>1. CASE Revoke(t)
  <2>1. ASSUME NEW v \in Workers, job[v] # Idle
        PROVE  [job[v] EXCEPT !.fresh = FALSE] \in Job
    <3>1. job[v] \in Job
      BY <2>1, JobType
    <3>. QED BY <3>1 DEF Job
  <2>2. job' \in [Workers -> Job \cup {Idle}]
    BY <1>1, <2>1 DEF Revoke
  <2>. QED BY <1>1, <2>2 DEF Revoke, Fault
<1>2. CASE CommitOffset(t)
  BY <1>2 DEF CommitOffset
<1>. QED BY <1>1, <1>2

LEMMA TypeLeave ==
  ASSUME TypeOK, NEW w \in Workers, LeaveGroup(w), faults' \in Nat
  PROVE  TypeOK'
BY DEF TypeOK, LeaveGroup, producing, results

LEMMA TypeHandling ==
  ASSUME TypeOK, InBounds, NEW w \in Workers,
         Notify(w) \/ InsertFails(w) \/ Reject(w) \/ Bury(w)
  PROVE  TypeOK'
<1>1. job[w] # Idle
  BY StepIsJob DEF Notify, InsertFails, Reject, Bury
<1>2. Message(w) \in Events
  BY <1>1, MessageType
<1>. USE DEF TypeOK, producing
<1>3. CASE Notify(w)
  <2>1. Resolve(w)
    BY <1>3 DEF Notify
  <2>2. job' \in [Workers -> Job \cup {Idle}] /\ position' \in [Partitions -> Nat]
    BY <1>1, <2>1, ResolveType
  <2>. QED BY <1>2, <1>3, <2>1, <2>2 DEF Notify, Resolve
<1>4. CASE InsertFails(w)
  <2>1. ToBury(w)
    BY <1>4 DEF InsertFails
  <2>2. job' \in [Workers -> Job \cup {Idle}]
    BY <1>1, <2>1, ToBuryType
  <2>. QED BY <1>2, <1>4, <2>1, <2>2 DEF InsertFails, ToBury, Fault
<1>5. CASE Reject(w)
  <2>1. ToBury(w)
    BY <1>5 DEF Reject
  <2>2. job' \in [Workers -> Job \cup {Idle}]
    BY <1>1, <2>1, ToBuryType
  <2>. QED BY <1>5, <2>1, <2>2 DEF Reject, ToBury
<1>6. CASE Bury(w)
  <2>1. Resolve(w)
    BY <1>6 DEF Bury
  <2>2. job' \in [Workers -> Job \cup {Idle}] /\ position' \in [Partitions -> Nat]
    BY <1>1, <2>1, ResolveType
  <2>. QED BY <1>2, <1>6, <2>1, <2>2 DEF Bury, Resolve
<1>. QED BY <1>3, <1>4, <1>5, <1>6

-----------------------------------------------------------------------------
(* An event is in one place: with a handler, in one producer or in the log *)

Occurs(x, s) == \E i \in DOMAIN s : s[i] = x
Distinct(s)  == \A i, j \in DOMAIN s : s[i] = s[j] => i = j

LEMMA AppendOccurs ==
  ASSUME NEW S, NEW s \in Seq(S), NEW x \in S
  PROVE  /\ \A y : Occurs(y, Append(s, x)) <=> Occurs(y, s) \/ y = x
         /\ Distinct(s) /\ ~Occurs(x, s) => Distinct(Append(s, x))
<1>. DEFINE n == Len(s)
            longer == Append(s, x)
<1>1. /\ n \in Nat /\ DOMAIN s = 1 .. n /\ DOMAIN longer = 1 .. n + 1
      /\ \A i \in 1 .. n : longer[i] = s[i]
      /\ longer[n + 1] = x
  OBVIOUS
<1>2. /\ n + 1 \in DOMAIN longer
      /\ \A i \in DOMAIN s : i \in DOMAIN longer
      /\ \A i \in DOMAIN longer : i \in DOMAIN s \/ i = n + 1
  BY <1>1
<1>. HIDE DEF n, longer
<1>3. ASSUME NEW y PROVE Occurs(y, longer) <=> Occurs(y, s) \/ y = x
  <2>1. ASSUME Occurs(y, longer) PROVE Occurs(y, s) \/ y = x
    BY <1>1, <1>2, <2>1 DEF Occurs
  <2>2. ASSUME Occurs(y, s) \/ y = x PROVE Occurs(y, longer)
    BY <1>1, <1>2, <2>2 DEF Occurs
  <2>. QED BY <2>1, <2>2
<1>4. ASSUME Distinct(s), ~Occurs(x, s), NEW i \in DOMAIN longer, NEW j \in DOMAIN longer,
             longer[i] = longer[j]
      PROVE  i = j
  <2>1. CASE i \in DOMAIN s /\ j \in DOMAIN s
    BY <1>1, <1>4, <2>1 DEF Distinct
  <2>2. CASE i = n + 1 /\ j = n + 1
    BY <2>2
  <2>3. CASE i = n + 1 /\ j \in DOMAIN s
    BY <1>1, <1>4, <2>3 DEF Occurs
  <2>4. CASE i \in DOMAIN s /\ j = n + 1
    BY <1>1, <1>4, <2>4 DEF Occurs
  <2>. QED BY <1>2, <2>1, <2>2, <2>3, <2>4
<1>5. Distinct(s) /\ ~Occurs(x, s) => Distinct(longer)
  BY <1>4 DEF Distinct
<1>. QED BY <1>3, <1>5 DEF longer

LEMMA TailOccurs ==
  ASSUME NEW S, NEW s \in Seq(S), s # <<>>
  PROVE  /\ Occurs(Head(s), s)
         /\ \A y : Occurs(y, Tail(s)) => Occurs(y, s)
         /\ Distinct(s) => Distinct(Tail(s)) /\ ~Occurs(Head(s), Tail(s))
<1>1. /\ DOMAIN Tail(s) = 1..Len(s) - 1 /\ DOMAIN s = 1..Len(s)
      /\ Len(s) \in Nat \ {0} /\ Head(s) = s[1]
      /\ \A i \in 1..Len(s) - 1 : Tail(s)[i] = s[i + 1]
  OBVIOUS
<1>2. ASSUME NEW y, Occurs(y, Tail(s)) PROVE \E i \in DOMAIN s : i > 1 /\ s[i] = y
  <2>1. PICK i \in DOMAIN Tail(s) : Tail(s)[i] = y
    BY <1>2 DEF Occurs
  <2>2. i + 1 \in DOMAIN s /\ i + 1 > 1 /\ s[i + 1] = y
    BY <1>1, <2>1
  <2>. QED BY <2>2
<1>3. Occurs(Head(s), s)
  BY <1>1 DEF Occurs
<1>4. Distinct(s) => Distinct(Tail(s))
  <2>1. ASSUME Distinct(s), NEW i \in DOMAIN Tail(s), NEW j \in DOMAIN Tail(s),
               Tail(s)[i] = Tail(s)[j]
        PROVE  i = j
    <3>1. /\ i + 1 \in DOMAIN s /\ j + 1 \in DOMAIN s
          /\ s[i + 1] = s[j + 1] /\ i \in Nat /\ j \in Nat
      BY <1>1, <2>1
    <3>2. i + 1 = j + 1
      BY <2>1, <3>1 DEF Distinct
    <3>. QED BY <3>1, <3>2
  <2>. QED BY <2>1 DEF Distinct
<1>5. ASSUME Distinct(s), Occurs(Head(s), Tail(s)) PROVE FALSE
  <2>1. PICK i \in DOMAIN s : i > 1 /\ s[i] = Head(s)
    BY <1>2, <1>5
  <2>2. 1 \in DOMAIN s /\ s[1] = Head(s)
    BY <1>1
  <2>3. i = 1
    BY <1>5, <2>1, <2>2 DEF Distinct
  <2>. QED BY <2>1, <2>3
<1>. QED BY <1>2, <1>3, <1>4, <1>5 DEF Occurs

Sending(p, e) == Occurs(e, outbox[p])

AwaitsHandOver(p, e) ==
  /\ e \in Valid /\ Committed(e) /\ ~Logged(e)
  /\ \A q \in Pods : ~Sending(q, e) /\ (q # p => e \notin due[q])

AwaitsBroker(p, e) ==
  /\ e \in Valid /\ Committed(e) /\ ~Logged(e)
  /\ \A q \in Pods : Sending(q, e) => q = p

LogDistinct ==
  \A t \in Partitions :
    /\ Distinct(log[t])
    /\ \A i \in DOMAIN log[t] :
         PartitionOf(log[t][i]) = t /\ (log[t][i] \in Valid => Committed(log[t][i]))

OnceInv ==
  /\ \A p \in Pods : \A e \in due[p] : AwaitsHandOver(p, e)
  /\ \A p \in Pods : \A e \in Events : Sending(p, e) => AwaitsBroker(p, e)
  /\ \A p \in Pods : Distinct(outbox[p])
  /\ LogDistinct

LEMMA OnceFrame ==
  ASSUME OnceInv, UNCHANGED <<committed, due, outbox, log>>
  PROVE  OnceInv'
BY DEF OnceInv, AwaitsHandOver, AwaitsBroker, LogDistinct, Sending, Committed, Logged

\* A message joins the log of its partition.
LEMMA LogGrows ==
  ASSUME TypeOK, NEW e \in Events, ~Logged(e),
         log' = [log EXCEPT ![PartitionOf(e)] = Append(@, e)]
  PROVE  /\ \A f \in Events : Logged(f)' <=> Logged(f) \/ f = e
         /\ LogDistinct /\ UNCHANGED committed /\ (e \in Valid => Committed(e))
              => LogDistinct'
         /\ \A t \in Partitions :
              /\ \A i \in DOMAIN log[t] : i \in DOMAIN log'[t] /\ log'[t][i] = log[t][i]
              /\ t # PartitionOf(e) => log'[t] = log[t]
         /\ DOMAIN log'[PartitionOf(e)] = 1..Len(log[PartitionOf(e)]) + 1
         /\ log'[PartitionOf(e)][Len(log[PartitionOf(e)]) + 1] = e
<1>. DEFINE t == PartitionOf(e)
<1>1. t \in Partitions /\ log[t] \in Seq(Events)
  BY PartitionType DEF TypeOK
<1>2. log'[t] = Append(log[t], e) /\ \A u \in Partitions \ {t} : log'[u] = log[u]
  BY <1>1 DEF TypeOK
<1>3. /\ DOMAIN log'[t] = 1..Len(log[t]) + 1 /\ DOMAIN log[t] = 1..Len(log[t])
      /\ Len(log[t]) \in Nat
      /\ \A i \in 1..Len(log[t]) : log'[t][i] = log[t][i]
      /\ log'[t][Len(log[t]) + 1] = e
  BY <1>1, <1>2
<1>4. \A f \in Events : Logged(f)' <=> Logged(f) \/ f = e
  <2>. SUFFICES ASSUME NEW f \in Events PROVE Logged(f)' <=> Logged(f) \/ f = e
    OBVIOUS
  <2>1. PartitionOf(f) \in Partitions
    BY PartitionType
  <2>2. CASE PartitionOf(f) = t
    <3>1. Logged(f)' <=> Occurs(f, Append(log[t], e))
      BY <1>2, <2>2 DEF Logged, Occurs
    <3>2. Logged(f) <=> Occurs(f, log[t])
      BY <2>2 DEF Logged, Occurs
    <3>. QED BY <1>1, <3>1, <3>2, AppendOccurs
  <2>3. CASE PartitionOf(f) # t
    BY <1>2, <2>1, <2>3 DEF Logged
  <2>. QED BY <2>2, <2>3
<1>5. ASSUME LogDistinct, UNCHANGED committed, e \in Valid => Committed(e)
      PROVE  LogDistinct'
  <2>1. Distinct(log'[t])
    BY <1>1, <1>2, <1>5, AppendOccurs DEF LogDistinct, Logged, Occurs
  <2>2. \A i \in DOMAIN log'[t] : PartitionOf(log'[t][i]) = t
                                 /\ (log'[t][i] \in Valid => Committed(log'[t][i]))
    BY <1>1, <1>3, <1>5 DEF LogDistinct
  <2>. QED BY <1>2, <1>5, <2>1, <2>2 DEF LogDistinct, Committed
<1>. QED BY <1>2, <1>3, <1>4, <1>5

LEMMA OnceCommit ==
  ASSUME TypeOK, OnceInv, NEW p \in Pods, NEW e \in Events, Commit(p, e)
  PROVE  OnceInv'
<1>1. /\ e \in Valid /\ ~Committed(e) /\ UNCHANGED <<outbox, log>>
      /\ \A q \in Pods : due'[q] = IF q = p THEN due[q] \cup {e} ELSE due[q]
  BY DEF Commit, TypeOK
<1>2. \A f : Committed(f)' <=> Committed(f) \/ f = e
  <2>1. committed \in Seq(Events) /\ committed' = Append(committed, e)
    BY DEF TypeOK, Commit
  <2>2. \A f : Occurs(f, committed') <=> Occurs(f, committed) \/ f = e
    BY <2>1, AppendOccurs
  <2>. QED BY <2>2 DEF Occurs, Committed
<1>3. ~Logged(e)
  <2>1. PartitionOf(e) \in Partitions
    BY PartitionType
  <2>. QED BY <1>1, <2>1 DEF OnceInv, LogDistinct, Logged
<1>4. \A q \in Pods : ~Sending(q, e) /\ e \notin due[q]
  BY <1>1 DEF OnceInv, AwaitsBroker, AwaitsHandOver
<1>5. \A q \in Pods : \A f \in Events : (Sending(q, f)' <=> Sending(q, f)) /\ (Logged(f)' <=> Logged(f))
  BY <1>1 DEF Sending, Logged
<1>6. \A q \in Pods : due[q] \subseteq Events
  BY DEF TypeOK
<1>7. ASSUME NEW q \in Pods, NEW f \in due'[q] PROVE AwaitsHandOver(q, f)'
  <2>1. CASE f = e
    BY <1>1, <1>2, <1>3, <1>4, <1>5, <1>7, <2>1 DEF AwaitsHandOver
  <2>2. CASE f # e
    <3>1. f \in due[q] /\ f \in Events
      BY <1>1, <1>6, <1>7, <2>2
    <3>2. AwaitsHandOver(q, f)
      BY <3>1 DEF OnceInv
    <3>. QED BY <1>1, <1>2, <1>5, <2>2, <3>1, <3>2 DEF AwaitsHandOver
  <2>. QED BY <2>1, <2>2
<1>8. \A q \in Pods : \A f \in Events : Sending(q, f)' => AwaitsBroker(q, f)'
  BY <1>2, <1>5 DEF OnceInv, AwaitsBroker
<1>9. LogDistinct'
  BY <1>1, <1>2 DEF OnceInv, LogDistinct
<1>. QED BY <1>1, <1>7, <1>8, <1>9 DEF OnceInv

LEMMA OnceHandOver ==
  ASSUME TypeOK, OnceInv, NEW p \in Pods, NEW e \in Events, HandOver(p, e)
  PROVE  OnceInv'
<1>1. /\ e \in due[p] /\ UNCHANGED <<committed, log>>
      /\ \A q \in Pods : due'[q] = IF q = p THEN due[q] \ {e} ELSE due[q]
      /\ \A q \in Pods \ {p} : outbox'[q] = outbox[q]
      /\ outbox'[p] = outbox[p] \/ outbox'[p] = Append(outbox[p], e)
  BY DEF HandOver, TypeOK
<1>2. AwaitsHandOver(p, e)
  BY <1>1 DEF OnceInv
<1>3. /\ \A f : Sending(p, f)' => Sending(p, f) \/ f = e
      /\ Distinct(outbox'[p])
  <2>1. outbox[p] \in Seq(Events) /\ Distinct(outbox[p]) /\ ~Occurs(e, outbox[p])
    BY <1>2 DEF TypeOK, OnceInv, AwaitsHandOver, Sending
  <2>2. /\ \A f : Occurs(f, Append(outbox[p], e)) <=> Occurs(f, outbox[p]) \/ f = e
        /\ Distinct(Append(outbox[p], e))
    BY <2>1, AppendOccurs
  <2>3. CASE outbox'[p] = outbox[p]
    BY <2>1, <2>3 DEF Sending
  <2>4. CASE outbox'[p] = Append(outbox[p], e)
    BY <2>2, <2>4 DEF Sending
  <2>. QED BY <1>1, <2>3, <2>4
<1>4. \A q \in Pods \ {p} : \A f : Sending(q, f)' <=> Sending(q, f)
  BY <1>1 DEF Sending
<1>5. \A f : (Committed(f)' <=> Committed(f)) /\ (Logged(f)' <=> Logged(f))
  BY <1>1 DEF Committed, Logged
<1>6. ASSUME NEW q \in Pods, NEW f \in due'[q] PROVE AwaitsHandOver(q, f)'
  <2>0. f \in due[q] /\ (q = p => f # e)
    BY <1>1
  <2>1. f \in due[q] /\ f # e /\ AwaitsHandOver(q, f)
    <3>1. q # p => e \notin due[q]
      BY <1>2 DEF AwaitsHandOver
    <3>. QED BY <2>0, <3>1 DEF OnceInv
  <2>2. ASSUME NEW r \in Pods PROVE ~Sending(r, f)' /\ (r # q => f \notin due'[r])
    <3>1. ~Sending(r, f) /\ (r # q => f \notin due[r])
      BY <2>1 DEF AwaitsHandOver
    <3>2. ~Sending(r, f)'
      BY <1>3, <1>4, <2>1, <3>1
    <3>. QED BY <1>1, <3>1, <3>2
  <2>3. f \in Valid /\ Committed(f)' /\ ~Logged(f)'
    BY <1>5, <2>1 DEF AwaitsHandOver
  <2>. QED BY <2>2, <2>3 DEF AwaitsHandOver
<1>7. \A q \in Pods : \A f \in Events : Sending(q, f)' => AwaitsBroker(q, f)'
  BY <1>2, <1>3, <1>4, <1>5 DEF OnceInv, AwaitsBroker, AwaitsHandOver
<1>8. \A q \in Pods : Distinct(outbox'[q])
  BY <1>1, <1>3 DEF OnceInv
<1>9. LogDistinct'
  BY <1>1 DEF OnceInv, LogDistinct, Committed
<1>. QED BY <1>6, <1>7, <1>8, <1>9 DEF OnceInv

\* The head of an outbox leaves it, for the log or for nowhere.
LEMMA OutboxShrinks ==
  ASSUME TypeOK, OnceInv, NEW p \in Pods, outbox[p] # <<>>,
         outbox' = [outbox EXCEPT ![p] = Tail(@)]
  PROVE  /\ Head(outbox[p]) \in Events /\ Sending(p, Head(outbox[p]))
         /\ \A q \in Pods : \A f \in Events :
              Sending(q, f)' => Sending(q, f) /\ f # Head(outbox[p])
         /\ \A q \in Pods : Distinct(outbox'[q])
<1>1. outbox[p] \in Seq(Events) /\ Distinct(outbox[p])
  BY DEF TypeOK, OnceInv
<1>2. outbox'[p] = Tail(outbox[p]) /\ \A q \in Pods \ {p} : outbox'[q] = outbox[q]
  BY DEF TypeOK
<1>3. Head(outbox[p]) \in Events
  BY <1>1
<1>4. Sending(p, Head(outbox[p]))
  BY <1>1, TailOccurs DEF Sending
<1>5. \A f : Sending(p, f)' => Sending(p, f) /\ f # Head(outbox[p])
  BY <1>1, <1>2, TailOccurs DEF Sending
<1>6. \A q \in Pods \ {p} : \A f \in Events : Sending(q, f)' => Sending(q, f) /\ f # Head(outbox[p])
  BY <1>2, <1>3, <1>4 DEF OnceInv, AwaitsBroker, Sending
<1>7. \A q \in Pods : Distinct(outbox'[q])
  BY <1>1, <1>2, TailOccurs DEF OnceInv
<1>. QED BY <1>3, <1>4, <1>5, <1>6, <1>7

LEMMA OnceSend ==
  ASSUME TypeOK, OnceInv, NEW p \in Pods, Send(p)
  PROVE  OnceInv'
<1>. DEFINE e == Head(outbox[p])
<1>1. /\ outbox[p] # <<>> /\ outbox' = [outbox EXCEPT ![p] = Tail(@)]
      /\ log' = [log EXCEPT ![PartitionOf(e)] = Append(@, e)]
      /\ UNCHANGED <<committed, due>>
  BY DEF Send
<1>2. /\ e \in Events /\ Sending(p, e)
      /\ \A q \in Pods : \A f \in Events : Sending(q, f)' => Sending(q, f) /\ f # e
      /\ \A q \in Pods : Distinct(outbox'[q])
  BY <1>1, OutboxShrinks
<1>3. AwaitsBroker(p, e)
  BY <1>2 DEF OnceInv
<1>4. (\A f \in Events : Logged(f)' <=> Logged(f) \/ f = e) /\ LogDistinct'
  BY <1>1, <1>2, <1>3, LogGrows DEF OnceInv, AwaitsBroker
<1>5. \A f : Committed(f)' <=> Committed(f)
  BY <1>1 DEF Committed
<1>6. \A q \in Pods : due'[q] = due[q] /\ due[q] \subseteq Events
  BY <1>1 DEF TypeOK
<1>. HIDE DEF e
<1>7. ASSUME NEW q \in Pods, NEW f \in due'[q] PROVE AwaitsHandOver(q, f)'
  <2>1. AwaitsHandOver(q, f) /\ f \in Events
    BY <1>6, <1>7 DEF OnceInv
  <2>2. f # e
    BY <1>2, <2>1 DEF AwaitsHandOver
  <2>. QED BY <1>2, <1>4, <1>5, <1>6, <2>1, <2>2 DEF AwaitsHandOver
<1>8. \A q \in Pods : \A f \in Events : Sending(q, f)' => AwaitsBroker(q, f)'
  BY <1>2, <1>4, <1>5 DEF OnceInv, AwaitsBroker
<1>. QED BY <1>2, <1>4, <1>7, <1>8 DEF OnceInv

LEMMA OnceLoss ==
  ASSUME TypeOK, OnceInv, NEW p \in Pods, SendFails(p) \/ PodDies(p)
  PROVE  OnceInv'
<1>1. UNCHANGED <<committed, log>> /\ \A q \in Pods : due'[q] \subseteq due[q]
  BY DEF SendFails, PodDies, TypeOK
<1>2. /\ \A q \in Pods : \A f \in Events : Sending(q, f)' => Sending(q, f)
      /\ \A q \in Pods : Distinct(outbox'[q])
  <2>1. CASE SendFails(p)
    BY <2>1, OutboxShrinks DEF SendFails
  <2>2. CASE PodDies(p)
    <3>1. outbox'[p] = <<>> /\ \A q \in Pods \ {p} : outbox'[q] = outbox[q]
      BY <2>2 DEF PodDies, TypeOK
    <3>2. Distinct(<<>>) /\ \A f : ~Occurs(f, <<>>)
      BY DEF Distinct, Occurs
    <3>3. Distinct(outbox'[p]) /\ \A f : ~Sending(p, f)'
      BY <3>1, <3>2 DEF Sending
    <3>. QED BY <3>1, <3>3 DEF OnceInv, Sending
  <2>. QED BY <2>1, <2>2
<1>3. \A f : (Committed(f)' <=> Committed(f)) /\ (Logged(f)' <=> Logged(f))
  BY <1>1 DEF Committed, Logged
<1>4. \A q \in Pods : due[q] \subseteq Events
  BY DEF TypeOK
<1>5. \A q \in Pods : \A f \in due'[q] : AwaitsHandOver(q, f)'
  BY <1>1, <1>2, <1>3, <1>4 DEF OnceInv, AwaitsHandOver
<1>6. \A q \in Pods : \A f \in Events : Sending(q, f)' => AwaitsBroker(q, f)'
  BY <1>2, <1>3 DEF OnceInv, AwaitsBroker
<1>7. LogDistinct'
  BY <1>1 DEF OnceInv, LogDistinct, Committed
<1>. QED BY <1>2, <1>5, <1>6, <1>7 DEF OnceInv

LEMMA OnceForeign ==
  ASSUME TypeOK, OnceInv, NEW e \in Events, ForeignSend(e)
  PROVE  OnceInv'
<1>1. /\ e \notin Valid /\ ~Logged(e)
      /\ log' = [log EXCEPT ![PartitionOf(e)] = Append(@, e)]
      /\ UNCHANGED <<committed, due, outbox>>
  BY DEF ForeignSend, producing
<1>2. (\A f \in Events : Logged(f)' <=> Logged(f) \/ f = e) /\ LogDistinct'
  BY <1>1, LogGrows DEF OnceInv
<1>3. \A q \in Pods : \A f : (Committed(f)' <=> Committed(f)) /\ (Sending(q, f)' <=> Sending(q, f))
  BY <1>1 DEF Committed, Sending
<1>4. \A q \in Pods : due'[q] = due[q] /\ due[q] \subseteq Events
  BY <1>1 DEF TypeOK
<1>5. \A q \in Pods : \A f \in due'[q] : AwaitsHandOver(q, f)'
  BY <1>1, <1>2, <1>3, <1>4 DEF OnceInv, AwaitsHandOver
<1>6. \A q \in Pods : \A f \in Events : Sending(q, f)' => AwaitsBroker(q, f)'
  BY <1>1, <1>2, <1>3 DEF OnceInv, AwaitsBroker
<1>. QED BY <1>1, <1>2, <1>5, <1>6 DEF OnceInv

-----------------------------------------------------------------------------
(* The consumer group *)

Reached(t) ==
  /\ offset[t] <= position[t] /\ position[t] <= Len(log[t])
  /\ \A i \in 1..position[t] : Handled(log[t][i])

\* What is known of the message w is handling, fresh or not.
UnderWay(w) ==
  LET t == job[w].part
  IN  /\ job[w].at \in DOMAIN log[t]
      /\ \A i \in DOMAIN log[t] : i < job[w].at => Handled(log[t][i])
      /\ job[w].fresh => owner[t] = w /\ job[w].at = position[t] + 1
      /\ job[w].step = "bury" /\ log[t][job[w].at] \in Valid
           => log[t][job[w].at] \in failed

GroupInv ==
  /\ \A t \in Partitions : Reached(t)
  /\ \A e \in Events : Handled(e) => Logged(e)
  /\ \A w \in Workers : job[w] # Idle => UnderWay(w)
  /\ HandledInOrder
  /\ DeadLettersExplained

LEMMA GroupInBounds == GroupInv => InBounds
BY DEF GroupInv, InBounds, UnderWay

LEMMA LogType ==
  ASSUME TypeOK, NEW t \in Partitions
  PROVE  /\ log[t] \in Seq(Events) /\ DOMAIN log[t] = 1..Len(log[t]) /\ Len(log[t]) \in Nat
         /\ position[t] \in Nat /\ offset[t] \in Nat
<1>1. log[t] \in Seq(Events) /\ position[t] \in Nat /\ offset[t] \in Nat
  BY DEF TypeOK
<1>. QED BY <1>1

LEMMA GroupFrame ==
  ASSUME GroupInv, UNCHANGED <<log, consuming, results>>
  PROVE  GroupInv'
<1>1. UNCHANGED <<log, owner, position, offset, job, notified, dead, failed>>
  BY DEF consuming, results
<1>. QED BY <1>1 DEF GroupInv, Reached, UnderWay, HandledInOrder, DeadLettersExplained,
                    Handled, Logged

LEMMA GroupLog ==
  ASSUME TypeOK, OnceInv, GroupInv, NEW e \in Events, ~Logged(e),
         log' = [log EXCEPT ![PartitionOf(e)] = Append(@, e)],
         UNCHANGED <<consuming, results>>
  PROVE  GroupInv'
<1>1. /\ \A f \in Events : Logged(f)' <=> Logged(f) \/ f = e
      /\ \A t \in Partitions :
           /\ \A i \in DOMAIN log[t] : i \in DOMAIN log'[t] /\ log'[t][i] = log[t][i]
           /\ t # PartitionOf(e) => log'[t] = log[t]
      /\ DOMAIN log'[PartitionOf(e)] = 1..Len(log[PartitionOf(e)]) + 1
      /\ log'[PartitionOf(e)][Len(log[PartitionOf(e)]) + 1] = e
  BY LogGrows
<1>2. UNCHANGED <<owner, position, offset, job, notified, dead, failed>>
  BY DEF consuming, results
<1>3. \A f : Handled(f)' <=> Handled(f)
  BY <1>2 DEF Handled
<1>4. PartitionOf(e) \in Partitions /\ ~Handled(e)
  BY PartitionType DEF GroupInv
<1>5. \A t \in Partitions : Len(log'[t]) \in Nat /\ Len(log'[t]) >= Len(log[t])
                            /\ DOMAIN log'[t] = 1..Len(log'[t])
  <2>. SUFFICES ASSUME NEW t \in Partitions
                PROVE  Len(log'[t]) \in Nat /\ Len(log'[t]) >= Len(log[t])
                       /\ DOMAIN log'[t] = 1..Len(log'[t])
    OBVIOUS
  <2>1. log[t] \in Seq(Events) /\ log' = [log EXCEPT ![PartitionOf(e)] = Append(log[PartitionOf(e)], e)]
    BY LogType
  <2>2. log'[t] = log[t] \/ log'[t] = Append(log[t], e)
    BY <2>1 DEF TypeOK
  <2>. QED BY <2>1, <2>2
<1>6. ASSUME NEW t \in Partitions PROVE Reached(t)'
  <2>1. Reached(t) /\ log[t] \in Seq(Events) /\ position[t] \in Nat /\ offset[t] \in Nat
        /\ DOMAIN log[t] = 1..Len(log[t]) /\ Len(log[t]) \in Nat
    BY LogType DEF GroupInv
  <2>2. \A i \in 1..position[t] : i \in DOMAIN log[t]
    BY <2>1 DEF Reached
  <2>. QED BY <1>1, <1>2, <1>3, <1>5, <2>1, <2>2 DEF Reached
<1>7. ASSUME NEW w \in Workers, job'[w] # Idle PROVE UnderWay(w)'
  <2>1. UnderWay(w) /\ job[w].part \in Partitions /\ job[w].at \in Nat
    BY <1>2, <1>7, JobType DEF GroupInv
  <2>2. \A i \in DOMAIN log'[job[w].part] : i < job[w].at => i \in DOMAIN log[job[w].part]
    BY <1>5, <2>1, LogType DEF UnderWay
  <2>. QED BY <1>1, <1>2, <1>3, <2>1, <2>2 DEF UnderWay
<1>8. HandledInOrder'
  <2>. SUFFICES ASSUME NEW t \in Partitions, NEW i \in DOMAIN log'[t], NEW j \in DOMAIN log'[t],
                       i < j, Handled(log'[t][j])
                PROVE  Handled(log'[t][i])
    BY <1>3 DEF HandledInOrder
  <2>1. j \in DOMAIN log[t]
    BY <1>1, <1>4, LogType
  <2>2. i \in DOMAIN log[t]
    BY <1>5, <2>1, LogType
  <2>. QED BY <1>1, <2>1, <2>2 DEF GroupInv, HandledInOrder
<1>9. (\A f \in Events : Handled(f)' => Logged(f)') /\ DeadLettersExplained'
  BY <1>1, <1>2, <1>3 DEF GroupInv, DeadLettersExplained
<1>. QED BY <1>6, <1>7, <1>8, <1>9 DEF GroupInv

\* While the log and the results stay, only offsets and jobs are left to look at.
LEMMA GroupQuiet ==
  ASSUME GroupInv, UNCHANGED <<log, results>>,
         \A t \in Partitions : Reached(t)',
         \A w \in Workers : job'[w] # Idle => UnderWay(w)'
  PROVE  GroupInv'
<1>1. UNCHANGED <<log, notified, dead, failed>>
  BY DEF results
<1>. QED BY <1>1 DEF GroupInv, HandledInOrder, DeadLettersExplained, Handled, Logged

LEMMA GroupAssign ==
  ASSUME TypeOK, GroupInv, NEW v \in Workers, NEW u \in Partitions, Assign(v, u)
  PROVE  GroupInv'
<1>1. /\ owner[u] = NoWorker /\ UNCHANGED <<log, offset, job, results>>
      /\ \A t \in Partitions \ {u} : owner'[t] = owner[t] /\ position'[t] = position[t]
      /\ position'[u] = offset[u]
      /\ UNCHANGED <<notified, dead, failed>>
  BY DEF Assign, TypeOK, results
<1>2. \A f : Handled(f)' <=> Handled(f)
  BY <1>1 DEF Handled
<1>3. ASSUME NEW t \in Partitions PROVE Reached(t)'
  <2>1. Reached(t) /\ position[t] \in Nat /\ offset[t] \in Nat /\ Len(log[t]) \in Nat
    BY LogType DEF GroupInv
  <2>. QED BY <1>1, <1>2, <2>1 DEF Reached
<1>4. ASSUME NEW w \in Workers, job'[w] # Idle PROVE UnderWay(w)'
  <2>1. UnderWay(w) /\ job[w].part \in Partitions
    BY <1>1, <1>4, JobType DEF GroupInv
  <2>. QED BY <1>1, <1>2, <2>1 DEF UnderWay
<1>. QED BY <1>1, <1>3, <1>4, GroupQuiet

LEMMA GroupRevoke ==
  ASSUME TypeOK, GroupInv, NEW u \in Partitions, Revoke(u)
  PROVE  GroupInv'
<1>1. /\ UNCHANGED <<log, position, offset, results>>
      /\ UNCHANGED <<notified, dead, failed>>
      /\ \A t \in Partitions \ {u} : owner'[t] = owner[t]
      /\ \A w \in Workers : job'[w] = IF job[w] # Idle /\ job[w].part = u
                                      THEN [job[w] EXCEPT !.fresh = FALSE] ELSE job[w]
  BY DEF Revoke, TypeOK, results
<1>2. \A f : Handled(f)' <=> Handled(f)
  BY <1>1 DEF Handled
<1>3. \A t \in Partitions : Reached(t)'
  BY <1>1, <1>2 DEF GroupInv, Reached
<1>4. ASSUME NEW w \in Workers, job'[w] # Idle PROVE UnderWay(w)'
  <2>1. job[w] # Idle
    BY <1>1, <1>4
  <2>2. UnderWay(w) /\ job[w] \in Job /\ job[w].part \in Partitions
    BY <2>1, JobType DEF GroupInv
  <2>3. /\ job'[w].part = job[w].part /\ job'[w].at = job[w].at
        /\ job'[w].step = job[w].step
        /\ job'[w].fresh => job[w].fresh /\ job[w].part # u
    BY <1>1, <2>1, <2>2 DEF Job
  <2>. QED BY <1>1, <1>2, <2>2, <2>3 DEF UnderWay
<1>. QED BY <1>1, <1>3, <1>4, GroupQuiet

LEMMA GroupCommit ==
  ASSUME TypeOK, GroupInv, NEW u \in Partitions, CommitOffset(u)
  PROVE  GroupInv'
<1>1. /\ UNCHANGED <<log, position, owner, job, results>>
      /\ UNCHANGED <<notified, dead, failed>>
      /\ \A t \in Partitions : offset'[t] \in {offset[t], position[t]}
  BY DEF CommitOffset, TypeOK, results
<1>2. \A f : Handled(f)' <=> Handled(f)
  BY <1>1 DEF Handled
<1>3. ASSUME NEW t \in Partitions PROVE Reached(t)'
  <2>1. Reached(t) /\ position[t] \in Nat /\ offset[t] \in Nat
    BY LogType DEF GroupInv
  <2>. QED BY <1>1, <1>2, <2>1 DEF Reached
<1>4. \A w \in Workers : job'[w] # Idle => UnderWay(w)'
  BY <1>1, <1>2 DEF GroupInv, UnderWay
<1>. QED BY <1>1, <1>3, <1>4, GroupQuiet

LEMMA GroupLeave ==
  ASSUME TypeOK, GroupInv, NEW v \in Workers, LeaveGroup(v)
  PROVE  GroupInv'
<1>1. /\ UNCHANGED <<log, position, offset, results>>
      /\ UNCHANGED <<notified, dead, failed>>
      /\ \A t \in Partitions : owner'[t] = IF owner[t] = v THEN NoWorker ELSE owner[t]
      /\ job'[v] = Idle /\ \A w \in Workers \ {v} : job'[w] = job[w]
  BY DEF LeaveGroup, TypeOK, results
<1>2. \A f : Handled(f)' <=> Handled(f)
  BY <1>1 DEF Handled
<1>3. \A t \in Partitions : Reached(t)'
  BY <1>1, <1>2 DEF GroupInv, Reached
<1>4. ASSUME NEW w \in Workers, job'[w] # Idle PROVE UnderWay(w)'
  <2>1. w # v /\ job'[w] = job[w] /\ UnderWay(w) /\ job[w].part \in Partitions
    BY <1>1, <1>4, JobType DEF GroupInv
  <2>. QED BY <1>1, <1>2, <2>1 DEF UnderWay
<1>. QED BY <1>1, <1>3, <1>4, GroupQuiet

LEMMA GroupFetch ==
  ASSUME TypeOK, GroupInv, NEW v \in Workers, NEW u \in Partitions, Fetch(v, u)
  PROVE  GroupInv'
<1>1. /\ owner[u] = v /\ position[u] < Len(log[u])
      /\ UNCHANGED <<log, owner, position, offset, results>>
      /\ UNCHANGED <<notified, dead, failed>>
      /\ job'[v] = [part |-> u, at |-> position[u] + 1, step |-> "insert", fresh |-> TRUE]
      /\ \A w \in Workers \ {v} : job'[w] = job[w]
  BY DEF Fetch, TypeOK, results
<1>2. \A f : Handled(f)' <=> Handled(f)
  BY <1>1 DEF Handled
<1>3. \A t \in Partitions : Reached(t)'
  BY <1>1, <1>2 DEF GroupInv, Reached
<1>4. UnderWay(v)'
  <2>1. /\ Reached(u) /\ position[u] \in Nat
        /\ DOMAIN log[u] = 1..Len(log[u]) /\ Len(log[u]) \in Nat
    BY LogType DEF GroupInv
  <2>2. job'[v].part = u /\ job'[v].at = position[u] + 1 /\ job'[v].step = "insert"
    BY <1>1
  <2>3. position[u] + 1 \in DOMAIN log[u]
    BY <1>1, <2>1
  <2>4. \A i \in DOMAIN log[u] : i < position[u] + 1 => Handled(log[u][i])
    BY <2>1 DEF Reached
  <2>. QED BY <1>1, <1>2, <2>2, <2>3, <2>4 DEF UnderWay
<1>5. ASSUME NEW w \in Workers, job'[w] # Idle PROVE UnderWay(w)'
  <2>1. CASE w = v
    BY <1>4, <2>1
  <2>2. CASE w # v
    BY <1>1, <1>2, <1>5, <2>2 DEF GroupInv, UnderWay
  <2>. QED BY <2>1, <2>2
<1>. QED BY <1>1, <1>3, <1>5, GroupQuiet

-----------------------------------------------------------------------------
(* handle() *)

\* All before the message in hand are dealt with, and it occurs nowhere else:
\* so its own turn keeps the order.
LEMMA MarkDone ==
  ASSUME TypeOK, OnceInv, GroupInv, NEW w \in Workers, job[w] # Idle, log' = log,
         notified \subseteq notified', notified' \subseteq notified \cup {Message(w)},
         dead \subseteq dead', dead' \subseteq dead \cup {Message(w)}
  PROVE  /\ \A f : Handled(f) => Handled(f)'
         /\ \A f \in Events : Handled(f)' => Logged(f)'
         /\ HandledInOrder'
<1>. DEFINE t == job[w].part
            n == job[w].at
            e == log[t][n]
<1>1. t \in Partitions /\ n \in Nat /\ n \in DOMAIN log[t]
  BY JobType DEF GroupInv, UnderWay
<1>2. Message(w) = e
  BY DEF Message
<1>3. e \in Events /\ PartitionOf(e) = t
  <2>1. log[t] \in Seq(Events)
    BY <1>1, LogType
  <2>2. e \in Events
    BY <1>1, <2>1
  <2>. QED BY <1>1, <2>2 DEF OnceInv, LogDistinct
<1>4. Logged(e)
  BY <1>1, <1>3 DEF Logged
<1>5. \A i \in DOMAIN log[t] : i < n => Handled(log[t][i])
  BY DEF GroupInv, UnderWay
<1>6. \A u \in Partitions : \A i \in DOMAIN log[u] : log[u][i] = e => u = t /\ i = n
  BY <1>1, <1>3 DEF OnceInv, LogDistinct, Distinct
<1>. HIDE DEF t, n, e
<1>7. \A f : (Handled(f) => Handled(f)') /\ (Handled(f)' => Handled(f) \/ f = e)
  BY <1>2 DEF Handled
<1>8. \A f \in Events : Handled(f)' => Logged(f)'
  BY <1>4, <1>7 DEF GroupInv, Logged
<1>9. HandledInOrder'
  <2>. SUFFICES ASSUME NEW u \in Partitions, NEW i \in DOMAIN log[u], NEW j \in DOMAIN log[u],
                       i < j, Handled(log[u][j])'
                PROVE  Handled(log[u][i])'
    BY DEF HandledInOrder
  <2>1. CASE Handled(log[u][j])
    BY <1>7, <2>1 DEF GroupInv, HandledInOrder
  <2>2. CASE log[u][j] = e
    BY <1>5, <1>6, <1>7, <2>2
  <2>. QED BY <1>7, <2>1, <2>2
<1>. QED BY <1>7, <1>8, <1>9

LEMMA GroupResolve ==
  ASSUME TypeOK, GroupInv, NEW v \in Workers, job[v] # Idle, Resolve(v),
         \A f : Handled(f) => Handled(f)', UNCHANGED failed,
         Message(v) \in notified' \/ Message(v) \in dead'
  PROVE  /\ \A t \in Partitions : Reached(t)'
         /\ \A w \in Workers : job'[w] # Idle => UnderWay(w)'
<1>. DEFINE u == job[v].part
<1>1. /\ u \in Partitions /\ job[v].at \in Nat /\ job[v].at \in DOMAIN log[u]
      /\ job[v].fresh => owner[u] = v /\ job[v].at = position[u] + 1
  BY JobType DEF GroupInv, UnderWay
<1>2. /\ UNCHANGED <<log, owner, offset>>
      /\ job'[v] = Idle /\ \A w \in Workers \ {v} : job'[w] = job[w]
      /\ \A t \in Partitions \ {u} : position'[t] = position[t]
      /\ position'[u] = IF job[v].fresh THEN job[v].at ELSE position[u]
  BY <1>1 DEF Resolve, TypeOK
<1>3. \A f : f = log[u][job[v].at] => Handled(f)'
  BY DEF Message, Handled
<1>4. ASSUME NEW t \in Partitions PROVE Reached(t)'
  <2>1. /\ Reached(t) /\ position[t] \in Nat /\ offset[t] \in Nat
        /\ DOMAIN log[t] = 1..Len(log[t]) /\ Len(log[t]) \in Nat
    BY LogType DEF GroupInv
  <2>2. CASE t = u /\ job[v].fresh
    <3>1. position'[t] = position[t] + 1 /\ position[t] + 1 \in DOMAIN log[t]
      BY <1>1, <1>2, <2>2
    <3>2. \A i \in 1..position'[t] : Handled(log[t][i])'
      BY <1>1, <1>2, <1>3, <2>1, <2>2, <3>1 DEF Reached
    <3>. QED BY <1>2, <2>1, <3>1, <3>2 DEF Reached
  <2>3. CASE ~(t = u /\ job[v].fresh)
    <3>1. position'[t] = position[t]
      BY <1>2, <2>3
    <3>2. \A i \in 1..position'[t] : Handled(log[t][i])'
      BY <1>2, <2>1, <3>1 DEF Reached
    <3>. QED BY <1>2, <2>1, <3>1, <3>2 DEF Reached
  <2>. QED BY <2>2, <2>3
<1>5. ASSUME NEW w \in Workers, job'[w] # Idle PROVE UnderWay(w)'
  <2>1. w # v /\ job'[w] = job[w] /\ UnderWay(w) /\ job[w].part \in Partitions
    BY <1>2, <1>5, JobType DEF GroupInv
  <2>2. job[w].fresh => position'[job[w].part] = position[job[w].part]
    BY <1>1, <1>2, <2>1 DEF UnderWay
  <2>3. \A i \in DOMAIN log[job[w].part] :
          i < job[w].at => Handled(log[job[w].part][i])'
    BY <1>2, <2>1 DEF UnderWay
  <2>. QED BY <1>2, <2>1, <2>2, <2>3 DEF UnderWay
<1>. QED BY <1>4, <1>5

LEMMA GroupToBury ==
  ASSUME TypeOK, GroupInv, NEW v \in Workers, job[v] # Idle, ToBury(v),
         \A f : Handled(f) => Handled(f)', failed \subseteq failed',
         Message(v) \in Valid => Message(v) \in failed'
  PROVE  /\ \A t \in Partitions : Reached(t)'
         /\ \A w \in Workers : job'[w] # Idle => UnderWay(w)'
<1>1. /\ UNCHANGED <<log, owner, position, offset>>
      /\ job'[v] = [job[v] EXCEPT !.step = "bury"]
      /\ \A w \in Workers \ {v} : job'[w] = job[w]
  BY DEF ToBury, TypeOK
<1>2. ASSUME NEW t \in Partitions PROVE Reached(t)'
  <2>1. Reached(t)
    BY DEF GroupInv
  <2>2. \A i \in 1..position[t] : Handled(log[t][i])'
    BY <1>1, <2>1 DEF Reached
  <2>. QED BY <1>1, <2>1, <2>2 DEF Reached
<1>3. ASSUME NEW w \in Workers, job'[w] # Idle PROVE UnderWay(w)'
  <2>1. job[w] # Idle
    BY <1>1, <1>3
  <2>2. UnderWay(w) /\ job[w] \in Job
    BY <2>1, JobType DEF GroupInv
  <2>3. /\ job'[w].part = job[w].part /\ job'[w].at = job[w].at
        /\ job'[w].fresh = job[w].fresh
        /\ w # v => job'[w].step = job[w].step
    BY <1>1, <2>2 DEF Job
  <2>4. \A i \in DOMAIN log[job[w].part] :
          i < job[w].at => Handled(log[job[w].part][i])'
    BY <1>1, <2>2, <2>3 DEF UnderWay
  <2>5. job'[w].step = "bury" /\ log[job[w].part][job[w].at] \in Valid
          => log[job[w].part][job[w].at] \in failed'
    BY <2>2, <2>3 DEF UnderWay, Message
  <2>. QED BY <1>1, <2>2, <2>3, <2>4, <2>5 DEF UnderWay
<1>. QED BY <1>2, <1>3

LEMMA GroupHandling ==
  ASSUME TypeOK, OnceInv, GroupInv, NEW w \in Workers,
         Notify(w) \/ InsertFails(w) \/ Reject(w) \/ Bury(w)
  PROVE  GroupInv'
<1>1. job[w] # Idle /\ UnderWay(w)
  BY StepIsJob DEF Notify, InsertFails, Reject, Bury, GroupInv
<1>2. /\ UNCHANGED log
      /\ notified \subseteq notified' /\ notified' \subseteq notified \cup {Message(w)}
      /\ dead \subseteq dead' /\ dead' \subseteq dead \cup {Message(w)}
      /\ failed \subseteq failed'
  BY DEF Notify, InsertFails, Reject, Bury, Resolve, ToBury
<1>3. /\ \A f : Handled(f) => Handled(f)'
      /\ \A f \in Events : Handled(f)' => Logged(f)'
      /\ HandledInOrder'
  BY <1>1, <1>2, MarkDone
<1>4. /\ \A t \in Partitions : Reached(t)'
      /\ \A v \in Workers : job'[v] # Idle => UnderWay(v)'
  <2>1. CASE Notify(w)
    <3>1. Resolve(w) /\ Message(w) \in notified' /\ UNCHANGED failed
      BY <2>1 DEF Notify
    <3>. QED BY <1>1, <1>3, <3>1, GroupResolve
  <2>2. CASE InsertFails(w)
    <3>1. ToBury(w) /\ Message(w) \in failed'
      BY <2>2 DEF InsertFails
    <3>. QED BY <1>1, <1>2, <1>3, <3>1, GroupToBury
  <2>3. CASE Reject(w)
    <3>1. ToBury(w) /\ Message(w) \notin Valid
      BY <2>3 DEF Reject
    <3>. QED BY <1>1, <1>2, <1>3, <3>1, GroupToBury
  <2>4. CASE Bury(w)
    <3>1. Resolve(w) /\ Message(w) \in dead' /\ UNCHANGED failed
      BY <2>4 DEF Bury
    <3>. QED BY <1>1, <1>3, <3>1, GroupResolve
  <2>. QED BY <2>1, <2>2, <2>3, <2>4
<1>5. DeadLettersExplained'
  <2>1. CASE Bury(w)
    <3>1. dead' = dead \cup {Message(w)} /\ UNCHANGED failed /\ job[w].step = "bury"
      BY <2>1 DEF Bury
    <3>2. Message(w) \in Valid => Message(w) \in failed
      BY <1>1, <3>1 DEF UnderWay, Message
    <3>. QED BY <3>1, <3>2 DEF GroupInv, DeadLettersExplained
  <2>2. CASE ~Bury(w)
    <3>1. UNCHANGED dead
      BY <2>2 DEF Notify, InsertFails, Reject, ToBury
    <3>. QED BY <1>2, <3>1 DEF GroupInv, DeadLettersExplained
  <2>. QED BY <2>1, <2>2
<1>. QED BY <1>3, <1>4, <1>5 DEF GroupInv

-----------------------------------------------------------------------------
(* The theorems *)

PipelineInv == TypeOK /\ OnceInv /\ GroupInv

LEMMA PipelineInit == Init => PipelineInv
<1>. SUFFICES ASSUME Init PROVE PipelineInv
  OBVIOUS
<1>. USE DEF Init
<1>1. TypeOK
  BY DEF TypeOK
<1>2. OnceInv
  BY DEF OnceInv, LogDistinct, Distinct, Sending, Occurs
<1>3. GroupInv
  BY DEF GroupInv, Reached, Handled, HandledInOrder, DeadLettersExplained
<1>. QED BY <1>1, <1>2, <1>3 DEF PipelineInv

LEMMA PipelineNext == PipelineInv /\ [Next]_vars => PipelineInv'
<1>. SUFFICES ASSUME PipelineInv, [Next]_vars PROVE PipelineInv'
  OBVIOUS
<1>. USE DEF PipelineInv
<1>1. ASSUME NEW p \in Pods, NEW e \in Events, Commit(p, e) PROVE PipelineInv'
  BY <1>1, TypePublish, OnceCommit, GroupFrame DEF Commit
<1>2. ASSUME NEW p \in Pods, NEW e \in Events, HandOver(p, e) PROVE PipelineInv'
  BY <1>2, TypePublish, OnceHandOver, GroupFrame DEF HandOver
<1>3. ASSUME NEW p \in Pods, Send(p) PROVE PipelineInv'
  <2>1. /\ Head(outbox[p]) \in Events /\ Sending(p, Head(outbox[p]))
    BY <1>3, OutboxShrinks DEF Send
  <2>2. ~Logged(Head(outbox[p]))
    BY <2>1 DEF OnceInv, AwaitsBroker
  <2>3. GroupInv'
    BY <1>3, <2>1, <2>2, GroupLog DEF Send
  <2>. QED BY <1>3, <2>1, <2>3, TypePod, OnceSend
<1>4. ASSUME NEW p \in Pods, SendFails(p) \/ PodDies(p) PROVE PipelineInv'
  <2>1. GroupInv'
    BY <1>4, GroupFrame DEF SendFails, PodDies
  <2>. QED BY <1>4, <2>1, TypePod, OnceLoss
<1>5. ASSUME NEW p \in Pods, Connect(p) PROVE PipelineInv'
  <2>1. OnceInv' /\ GroupInv'
    BY <1>5, OnceFrame, GroupFrame DEF Connect
  <2>. QED BY <1>5, <2>1, TypePod
<1>6. ASSUME NEW e \in Events, ForeignSend(e) PROVE PipelineInv'
  <2>1. GroupInv'
    BY <1>6, GroupLog DEF ForeignSend
  <2>. QED BY <1>6, <2>1, TypeForeign, OnceForeign
<1>7. ASSUME NEW t \in Partitions, NEW w \in Workers, Assign(w, t) \/ Fetch(w, t)
      PROVE  PipelineInv'
  <2>1. OnceInv'
    BY <1>7, OnceFrame DEF Assign, Fetch, producing
  <2>. QED BY <1>7, <2>1, TypeGroup, GroupAssign, GroupFetch
<1>8. ASSUME NEW t \in Partitions, Revoke(t) \/ CommitOffset(t) PROVE PipelineInv'
  <2>1. OnceInv'
    BY <1>8, OnceFrame DEF Revoke, CommitOffset, producing
  <2>. QED BY <1>8, <2>1, TypeOffsets, GroupRevoke, GroupCommit
<1>9. ASSUME NEW w \in Workers, WorkerDies(w) \/ BuryFails(w) PROVE PipelineInv'
  <2>1. LeaveGroup(w) /\ faults' \in Nat
    BY <1>9 DEF WorkerDies, BuryFails, Fault, TypeOK
  <2>2. OnceInv'
    BY <2>1, OnceFrame DEF LeaveGroup, producing
  <2>. QED BY <2>1, <2>2, TypeLeave, GroupLeave
<1>10. ASSUME NEW w \in Workers, Notify(w) \/ InsertFails(w) \/ Reject(w) \/ Bury(w)
       PROVE  PipelineInv'
  <2>1. OnceInv'
    BY <1>10, OnceFrame DEF Notify, InsertFails, Reject, Bury, Resolve, ToBury, producing
  <2>. QED BY <1>10, <2>1, GroupInBounds, TypeHandling, GroupHandling
<1>11. CASE UNCHANGED vars
  <2>1. OnceInv' /\ GroupInv'
    BY <1>11, OnceFrame, GroupFrame DEF vars, consuming, results
  <2>2. TypeOK'
    BY <1>11 DEF TypeOK, vars
  <2>. QED BY <2>1, <2>2
<1>. QED BY <1>1, <1>2, <1>3, <1>4, <1>5, <1>6, <1>7, <1>8, <1>9, <1>10, <1>11
         DEF Next, Work, Drained

LEMMA PipelineInvariant == Spec => []PipelineInv
BY PipelineInit, PipelineNext, PTL DEF Spec

\* Every reachable state of the pipeline is well typed.
THEOREM PipelineTypes == Spec => []TypeOK
<1>1. PipelineInv => TypeOK
  BY DEF PipelineInv
<1>. QED BY <1>1, PipelineInvariant, PTL

\* Messages of a partition are dealt with in their order, however often the
\* partition changes hands (eachMessage and handle, notification.consumer.ts).
THEOREM PartitionOrder == Spec => []HandledInOrder
<1>1. PipelineInv => HandledInOrder
  BY DEF PipelineInv, GroupInv
<1>. QED BY <1>1, PipelineInvariant, PTL

\* The group never commits past a message that is neither notified nor dead:
\* nothing is lost once Kafka has it.
THEOREM AtLeastOnce == Spec => []NothingSkipped
<1>1. PipelineInv => NothingSkipped
  <2>. SUFFICES ASSUME PipelineInv, NEW t \in Partitions, NEW i \in 1..offset[t]
                PROVE  i \in DOMAIN log[t] /\ Handled(log[t][i])
    BY DEF NothingSkipped
  <2>1. Reached(t) /\ TypeOK
    BY DEF PipelineInv, GroupInv
  <2>. QED BY <2>1, LogType DEF Reached
<1>. QED BY <1>1, PipelineInvariant, PTL

\* A message that satisfies the contract is among the dead letters only if the
\* database failed its insert: redelivery alone never takes it there.
THEOREM DeadLetterCause == Spec => []DeadLettersExplained
<1>1. PipelineInv => DeadLettersExplained
  BY DEF PipelineInv, GroupInv
<1>. QED BY <1>1, PipelineInvariant, PTL
=============================================================================
