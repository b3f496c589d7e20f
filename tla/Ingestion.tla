----------------------------- MODULE Ingestion ------------------------------
(***************************************************************************)
(* Knowledge ingestion (ai/rag/knowledge-ingestion.service.ts) over the    *)
(* pgvector store: every pod ingests in the background when it starts, and *)
(* POST ai/ingest does it on demand.  A session-level advisory lock keeps  *)
(* them apart; each file is replaced in a READ COMMITTED transaction, so   *)
(* the lock is all that keeps two of them from doubling a file.            *)
(***************************************************************************)
EXTENDS Integers, Sequences, FiniteSets

CONSTANTS
  Boots,        \* the background ingestion of each pod
  Requests,     \* POST ai/ingest
  PodOf,        \* [Boots \cup Requests -> pod]
  Files,        \* the markdown files, in the order they are read
  MaxAttempts,  \* attempts of a boot (60)
  MaxFaults,    \* bound: failing embeddings and queries
  MaxCrashes,   \* bound: pods that die
  Nobody        \* who holds the lock when it is free

Workers == Boots \cup Requests
Sources == {Files[i] : i \in DOMAIN Files}

ASSUME IngestionAssumption ==
  /\ Boots \cap Requests = {} /\ DOMAIN PodOf = Workers /\ Nobody \notin Workers
  /\ Files \in Seq(Sources) /\ Cardinality(Sources) = Len(Files)
  /\ MaxAttempts \in Nat \ {0} /\ MaxFaults \in Nat /\ MaxCrashes \in Nat

VARIABLES
  chunks,   \* knowledge_chunks: the copies of each file's chunks, by <<writer, attempt>>
  holder,   \* the session with advisory lock 771001
  worker,   \* per worker: pc, attempt, files left, the copies its DELETE took
  faults, crashes

vars == <<chunks, holder, worker, faults, crashes>>

Busy    == {"embedding", "replacing", "unlocking", "giving up"}
Running == Busy \cup {"asking", "locking", "waiting"}
Ends    == {"ingested", "left to others", "found", "failed", "dead"}
Copies  == Workers \X (1 .. MaxAttempts)

TypeOK ==
  /\ chunks \in [Sources -> SUBSET Copies] /\ holder \in Workers \cup {Nobody}
  /\ worker \in [Workers -> [pc : {"idle"} \cup Running \cup Ends,
                             attempt : 1 .. MaxAttempts, left : 0 .. Len(Files),
                             taken : SUBSET Copies]]
  /\ faults \in 0 .. MaxFaults /\ crashes \in 0 .. MaxCrashes

Init ==
  /\ chunks = [f \in Sources |-> {}] /\ holder = Nobody
  /\ worker = [w \in Workers |-> [pc |-> "idle", attempt |-> 1, left |-> 0, taken |-> {}]]
  /\ faults = 0 /\ crashes = 0

Goes(w, pc) == worker' = [worker EXCEPT ![w].pc = pc]
Fault == faults < MaxFaults /\ faults' = faults + 1
File(w) == Files[Len(Files) - worker[w].left + 1]

\* A boot looks whether there is anything already, a request does not.
Start(w) ==
  /\ worker[w].pc = "idle"
  /\ Goes(w, IF w \in Boots THEN "asking" ELSE "locking")
  /\ UNCHANGED <<chunks, holder, faults, crashes>>

\* Slip: the attempts are not counted against their limit.
ThrowsForEver(w) ==
  IF w \in Requests THEN Goes(w, "failed")
  ELSE worker' = [worker EXCEPT ![w].pc = "waiting", ![w].attempt = @ + 1]

\* What an exception does: a boot waits and tries again, a request fails.
Throws(w) ==
  IF w \in Requests THEN Goes(w, "failed")
  ELSE IF worker[w].attempt = MaxAttempts THEN Goes(w, "failed")
  ELSE worker' = [worker EXCEPT ![w].pc = "waiting", ![w].attempt = @ + 1]

Retry(w) ==
  /\ worker[w].pc = "waiting" /\ Goes(w, "asking")
  /\ UNCHANGED <<chunks, holder, faults, crashes>>

\* stats(): one chunk of any file is enough for a boot to leave it at that.
Ask(w) ==
  /\ worker[w].pc = "asking"
  /\ \/ /\ Goes(w, IF \E f \in Sources : chunks[f] # {} THEN "found" ELSE "locking")
        /\ UNCHANGED faults
     \/ Throws(w) /\ Fault
  /\ UNCHANGED <<chunks, holder, crashes>>

\* Slip: the answer of pg_try_advisory_lock is not looked at.
LockAnyway(w) ==
  /\ worker[w].pc = "locking" /\ holder' = w
  /\ worker' = [worker EXCEPT ![w].pc = "embedding", ![w].left = Len(Files)]
  /\ UNCHANGED <<chunks, faults, crashes>>

\* pg_try_advisory_lock never waits; who does not get it leaves for good.
Lock(w) ==
  /\ worker[w].pc = "locking"
  /\ \/ /\ holder = Nobody /\ holder' = w /\ UNCHANGED faults
        /\ worker' = [worker EXCEPT ![w].pc = "embedding", ![w].left = Len(Files)]
     \/ holder # Nobody /\ Goes(w, "left to others") /\ UNCHANGED <<holder, faults>>
     \/ Throws(w) /\ Fault /\ UNCHANGED holder
  /\ UNCHANGED <<chunks, crashes>>

\* The file is split and embedded, and the transaction begins with its DELETE:
\* it takes the copies committed by now.
Embed(w) ==
  /\ worker[w].pc = "embedding" /\ worker[w].left > 0
  /\ \/ /\ worker' = [worker EXCEPT ![w].pc = "replacing", ![w].taken = chunks[File(w)]]
        /\ UNCHANGED faults
     \/ Goes(w, "giving up") /\ Fault
  /\ UNCHANGED <<chunks, holder, crashes>>

\* Slip: the old chunks are deleted outside the transaction, and the inserts
\* may fail.
InsertApart(w) ==
  /\ worker[w].pc = "replacing"
  /\ \/ /\ chunks' = [chunks EXCEPT ![File(w)] =
             (@ \ worker[w].taken) \cup {<<w, worker[w].attempt>>}]
        /\ worker' = [worker EXCEPT ![w].pc = "embedding", ![w].left = @ - 1, ![w].taken = {}]
        /\ UNCHANGED faults
     \/ /\ Goes(w, "giving up") /\ Fault
        /\ chunks' = [chunks EXCEPT ![File(w)] = @ \ worker[w].taken]
  /\ UNCHANGED <<holder, crashes>>

\* The inserts and the commit; after an error the old copy is still there.
Insert(w) ==
  /\ worker[w].pc = "replacing"
  /\ \/ /\ chunks' = [chunks EXCEPT ![File(w)] =
             (@ \ worker[w].taken) \cup {<<w, worker[w].attempt>>}]
        /\ worker' = [worker EXCEPT ![w].pc = "embedding", ![w].left = @ - 1, ![w].taken = {}]
        /\ UNCHANGED faults
     \/ Goes(w, "giving up") /\ Fault /\ UNCHANGED chunks
  /\ UNCHANGED <<holder, crashes>>

LastFile(w) ==
  /\ worker[w].pc = "embedding" /\ worker[w].left = 0 /\ Goes(w, "unlocking")
  /\ UNCHANGED <<chunks, holder, faults, crashes>>

Unlocked(w) == holder' = IF holder = w THEN Nobody ELSE holder

\* The lock is given back on every way out; when that query fails the session
\* is gone, and its lock with it.
Unlock(w) ==
  /\ \/ worker[w].pc = "unlocking" /\ Goes(w, "ingested") /\ UNCHANGED faults
     \/ worker[w].pc = "unlocking" /\ Throws(w) /\ Fault
     \/ worker[w].pc = "giving up" /\ Throws(w) /\ UNCHANGED faults
  /\ Unlocked(w)
  /\ UNCHANGED <<chunks, crashes>>

\* A pod dies: its sessions end, open transactions are rolled back.
Crash(pod) ==
  /\ crashes < MaxCrashes /\ crashes' = crashes + 1
  /\ worker' = [w \in Workers |->
       IF PodOf[w] = pod /\ worker[w].pc \in Running
       THEN [worker[w] EXCEPT !.pc = "dead"] ELSE worker[w]]
  /\ holder' = IF holder # Nobody /\ PodOf[holder] = pod THEN Nobody ELSE holder
  /\ UNCHANGED <<chunks, faults>>

Done == (\A w \in Workers : worker[w].pc \in Ends) /\ UNCHANGED vars

Step(w) == Start(w) \/ Retry(w) \/ Ask(w) \/ Lock(w) \/ Embed(w) \/ Insert(w)
           \/ LastFile(w) \/ Unlock(w)

Next ==
  \/ \E w \in Workers : Step(w)
  \/ \E pod \in {PodOf[w] : w \in Workers} : Crash(pod)
  \/ Done

Spec == Init /\ [][Next]_vars

-----------------------------------------------------------------------------

\* A search never finds a file's chunks twice: pods that start together,
\* requests, retries and crashes notwithstanding.  The transactions do not
\* ensure it, the lock does.
SourcesOnce == \A f \in Sources : Cardinality(chunks[f]) <= 1

\* Once somebody was told that the knowledge is ingested, every file can be
\* found for ever, also while it is replaced and when the replacing fails.
IngestedStaysWhole ==
  (\E w \in Workers : worker[w].pc = "ingested") => \A f \in Sources : chunks[f] # {}
=============================================================================
