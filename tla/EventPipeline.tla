---------------------------- MODULE EventPipeline ----------------------------
(***************************************************************************)
(* The path of a domain event from a committed transaction in an API pod,  *)
(* through the event bus and Kafka, to a notification written by a worker  *)
(* (modules/messaging).                                                    *)
(*                                                                         *)
(* Producer side: a handler publishes after its commit; the forwarding     *)
(* observer's adapter refuses until its producer is connected, and the bus *)
(* swallows what an observer throws, so a refused event is gone.  Sends of *)
(* one pod go out one at a time (maxInFlightRequests: 1).                  *)
(*                                                                         *)
(* Consumer side: each worker handles one message at a time (eachMessage), *)
(* resolves its offset when handle() returns, and commits resolved offsets *)
(* now and then.  A partition given to a worker restarts at the committed  *)
(* offset, while its former owner may still be in the middle of handle().  *)
(* Kafka and kafkajs are not in the repository: they are modelled from how *)
(* the adapter and the consumer use them.                                  *)
(***************************************************************************)
EXTENDS Naturals, Sequences

CONSTANTS
  Pods, Workers,   \* API pods and worker pods
  NoWorker,        \* the owner of a partition nobody consumes
  Events,          \* event ids
  Valid,           \* the events that satisfy the shared schemas
  Type, Key,       \* [Events -> EventTypes], [Events -> Keys]
  Keys, Slot,      \* message keys; [Keys -> partition number], the broker's hash
  MaxFaults        \* bound: failures and rebalances in a run

EventTypes ==
  {"account.opened", "account.status-changed", "transaction.deposited",
   "transaction.withdrawn", "transaction.transferred", "transaction.reversed",
   "loan.decided", "customer.onboarded"}

ASSUME PipelineAssumption ==
  /\ Valid \subseteq Events
  /\ Type \in [Events -> EventTypes] /\ Key \in [Events -> Keys]
  /\ Slot \in [Keys -> Nat]
  /\ NoWorker \notin Workers /\ MaxFaults \in Nat

VARIABLES
  committed,  \* events of committed transactions, in commit order
  due,        \* per pod: events its handlers have yet to publish
  connected,  \* per pod: is the producer connected
  outbox,     \* per pod: messages given to the producer and not acknowledged
  log,        \* per partition: its messages
  owner,      \* per partition: the worker that consumes it
  position,   \* per partition: messages its owner has resolved
  offset,     \* per partition: the offset the consumer group has committed
  job,        \* per worker: the message it is handling
  notified,   \* rows of notifications, by their primary key event_id
  dead,       \* messages in the dead-letter topic
  failed,     \* events whose insert met a database error
  faults      \* failures so far

producing == <<committed, due, connected, outbox>>
consuming == <<owner, position, offset, job>>
results   == <<notified, dead, failed>>
vars == <<committed, due, connected, outbox, log, owner, position, offset, job,
          notified, dead, failed, faults>>

-----------------------------------------------------------------------------
TopicFor(type) ==
  CASE type \in {"account.opened", "account.status-changed"} -> "account-events"
    [] type = "loan.decided" -> "loan-events"
    [] type = "customer.onboarded" -> "customer-events"
    [] OTHER -> "transaction-events"

\* topicFor and partitionKeyFor: a partition is a slot of a topic.
PartitionOf(e) == <<TopicFor(Type[e]), Slot[Key[e]]>>
Partitions == {PartitionOf(e) : e \in Events}

Idle == [step |-> "idle"]
Job  == [part : Partitions, at : Nat, step : {"insert", "bury"}, fresh : BOOLEAN]

Committed(e) == \E i \in DOMAIN committed : committed[i] = e
Logged(e) == \E i \in DOMAIN log[PartitionOf(e)] : log[PartitionOf(e)][i] = e
Handled(e) == e \in notified \/ e \in dead
Message(w) == log[job[w].part][job[w].at]

Fault == faults < MaxFaults /\ faults' = faults + 1

Init ==
  /\ committed = <<>>
  /\ due = [p \in Pods |-> {}]
  /\ connected = [p \in Pods |-> FALSE]
  /\ outbox = [p \in Pods |-> <<>>]
  /\ log = [t \in Partitions |-> <<>>]
  /\ owner = [t \in Partitions |-> NoWorker]
  /\ position = [t \in Partitions |-> 0]
  /\ offset = [t \in Partitions |-> 0]
  /\ job = [w \in Workers |-> Idle]
  /\ notified = {} /\ dead = {} /\ failed = {}
  /\ faults = 0

-----------------------------------------------------------------------------
(* API pods *)

\* A transaction of some service commits; its handler has yet to publish.
Commit(p, e) ==
  /\ e \in Valid /\ ~Committed(e)
  /\ committed' = Append(committed, e)
  /\ due' = [due EXCEPT ![p] = @ \cup {e}]
  /\ UNCHANGED <<connected, outbox, log, consuming, results, faults>>

\* DomainEventBus.publish and the adapter's publish: what is thrown before the
\* producer is connected is only logged.
HandOver(p, e) ==
  /\ e \in due[p]
  /\ due' = [due EXCEPT ![p] = @ \ {e}]
  /\ outbox' = IF connected[p] THEN [outbox EXCEPT ![p] = Append(@, e)] ELSE outbox
  /\ UNCHANGED <<committed, connected, log, consuming, results, faults>>

\* The broker acknowledges a send, without duplicates (idempotent producer).
Send(p) ==
  /\ outbox[p] # <<>>
  /\ LET e == Head(outbox[p])
     IN  log' = [log EXCEPT ![PartitionOf(e)] = Append(@, e)]
  /\ outbox' = [outbox EXCEPT ![p] = Tail(@)]
  /\ UNCHANGED <<committed, due, connected, consuming, results, faults>>

\* All retries of a send failed: send() throws and the bus swallows it.
SendFails(p) ==
  /\ outbox[p] # <<>> /\ Fault
  /\ outbox' = [outbox EXCEPT ![p] = Tail(@)]
  /\ UNCHANGED <<committed, due, connected, log, consuming, results>>

\* connectWithRetry reaches Kafka at last; connected is never reset.
Connect(p) ==
  /\ ~connected[p]
  /\ connected' = [connected EXCEPT ![p] = TRUE]
  /\ UNCHANGED <<committed, due, outbox, log, consuming, results, faults>>

\* A pod dies and starts again with an empty memory.
PodDies(p) ==
  /\ Fault
  /\ due' = [due EXCEPT ![p] = {}]
  /\ outbox' = [outbox EXCEPT ![p] = <<>>]
  /\ connected' = [connected EXCEPT ![p] = FALSE]
  /\ UNCHANGED <<committed, log, consuming, results>>

\* Some other client writes a message that breaks the contract.
ForeignSend(e) ==
  /\ e \in Events \ Valid /\ ~Logged(e)
  /\ log' = [log EXCEPT ![PartitionOf(e)] = Append(@, e)]
  /\ UNCHANGED <<producing, consuming, results, faults>>

-----------------------------------------------------------------------------
(* The consumer group *)

\* A worker receives a partition and restarts at the committed offset.
Assign(w, t) ==
  /\ owner[t] = NoWorker
  /\ owner' = [owner EXCEPT ![t] = w]
  /\ position' = [position EXCEPT ![t] = offset[t]]
  /\ UNCHANGED <<producing, log, offset, job, results, faults>>

\* A rebalance takes the partition away, perhaps in the middle of handle().
Revoke(t) ==
  /\ owner[t] # NoWorker /\ Fault
  /\ owner' = [owner EXCEPT ![t] = NoWorker]
  /\ job' = [w \in Workers |->
               IF job[w] # Idle /\ job[w].part = t
               THEN [job[w] EXCEPT !.fresh = FALSE] ELSE job[w]]
  /\ UNCHANGED <<producing, log, position, offset, results>>

\* Auto-commit of what the owner has resolved.
CommitOffset(t) ==
  /\ owner[t] # NoWorker /\ offset[t] # position[t]
  /\ offset' = [offset EXCEPT ![t] = position[t]]
  /\ UNCHANGED <<producing, log, owner, position, job, results, faults>>

\* The worker leaves the group and forgets the message it was handling.
LeaveGroup(w) ==
  /\ owner' = [t \in Partitions |-> IF owner[t] = w THEN NoWorker ELSE owner[t]]
  /\ job' = [job EXCEPT ![w] = Idle]
  /\ UNCHANGED <<producing, log, position, offset, results>>

WorkerDies(w) == Fault /\ LeaveGroup(w)

-----------------------------------------------------------------------------
(* NotificationConsumer.handle *)

\* Slip: eachMessage does not return the promise of handle().
FetchUnawaited(w, t) ==
  /\ owner[t] = w /\ job[w] = Idle /\ position[t] < Len(log[t])
  /\ job' = [job EXCEPT ![w] = [part |-> t, at |-> position[t] + 1,
                                step |-> "insert", fresh |-> FALSE]]
  /\ position' = [position EXCEPT ![t] = @ + 1]
  /\ UNCHANGED <<producing, log, owner, offset, results, faults>>

\* eachMessage: the next message of a partition the worker owns.
Fetch(w, t) ==
  /\ owner[t] = w /\ job[w] = Idle /\ position[t] < Len(log[t])
  /\ job' = [job EXCEPT ![w] = [part |-> t, at |-> position[t] + 1,
                                step |-> "insert", fresh |-> TRUE]]
  /\ UNCHANGED <<producing, log, owner, position, offset, results, faults>>

\* handle() returns: the offset is resolved, unless the partition has been
\* taken away since the fetch.
Resolve(w) ==
  /\ job' = [job EXCEPT ![w] = Idle]
  /\ position' = IF job[w].fresh THEN [position EXCEPT ![job[w].part] = job[w].at]
                                 ELSE position
  /\ UNCHANGED <<producing, log, owner, offset>>

\* handle() goes on to its catch clause.
ToBury(w) ==
  /\ job' = [job EXCEPT ![w].step = "bury"]
  /\ UNCHANGED <<producing, log, owner, position, offset, dead>>

\* Slip: the insert has no ON CONFLICT clause.
NotifyOnce(w) ==
  /\ job[w].step = "insert" /\ Message(w) \in Valid
  /\ IF Message(w) \in notified
     THEN ToBury(w) /\ UNCHANGED notified
     ELSE Resolve(w) /\ notified' = notified \cup {Message(w)} /\ UNCHANGED dead
  /\ UNCHANGED <<failed, faults>>

\* INSERT ... ON CONFLICT DO NOTHING.
Notify(w) ==
  /\ job[w].step = "insert" /\ Message(w) \in Valid
  /\ Resolve(w)
  /\ notified' = notified \cup {Message(w)}
  /\ UNCHANGED <<dead, failed, faults>>

\* The insert throws; the row may be there all the same (a lost answer).
InsertFails(w) ==
  /\ job[w].step = "insert" /\ Message(w) \in Valid /\ Fault
  /\ ToBury(w)
  /\ notified' \in {notified, notified \cup {Message(w)}}
  /\ failed' = failed \cup {Message(w)}

\* Slip: an invalid message is thrown back at Kafka.
RejectThrows(w) ==
  /\ job[w].step = "insert" /\ Message(w) \notin Valid
  /\ LeaveGroup(w) /\ UNCHANGED faults

\* The message does not parse or breaks the contract.
Reject(w) ==
  /\ job[w].step = "insert" /\ Message(w) \notin Valid
  /\ ToBury(w)
  /\ UNCHANGED <<notified, failed, faults>>

\* Slip: the dead letter carries the partition instead of the raw message.
BuryPartition(w) ==
  /\ job[w].step = "bury"
  /\ Resolve(w)
  /\ dead' = dead \cup {job[w].part}
  /\ UNCHANGED <<notified, failed, faults>>

\* The raw message goes to banking.dead-letter.
Bury(w) ==
  /\ job[w].step = "bury"
  /\ Resolve(w)
  /\ dead' = dead \cup {Message(w)}
  /\ UNCHANGED <<notified, failed, faults>>

\* Slip: a failing dead-letter send is swallowed.
BuryFailsQuietly(w) ==
  /\ job[w].step = "bury" /\ Fault
  /\ Resolve(w)
  /\ UNCHANGED results

\* The dead-letter send throws out of handle(): the consumer stops, leaves the
\* group and is restarted; the message will be delivered again.
BuryFails(w) == job[w].step = "bury" /\ Fault /\ LeaveGroup(w)

-----------------------------------------------------------------------------
\* Nothing is under way anywhere and every event has been sent or lost.
Drained ==
  /\ \A e \in Events : IF e \in Valid THEN Committed(e) ELSE Logged(e)
  /\ \A p \in Pods : connected[p] /\ due[p] = {} /\ outbox[p] = <<>>
  /\ \A t \in Partitions : owner[t] # NoWorker /\ offset[t] = Len(log[t])
                                               /\ position[t] = Len(log[t])
  /\ \A w \in Workers : job[w] = Idle
  /\ UNCHANGED vars

\* What kafkajs and handle() do for worker w when nothing fails.
Work(w) ==
  \/ \E t \in Partitions : Assign(w, t) \/ Fetch(w, t)
  \/ Notify(w) \/ Reject(w) \/ Bury(w)

Next ==
  \/ \E p \in Pods, e \in Events : Commit(p, e) \/ HandOver(p, e)
  \/ \E p \in Pods : Send(p) \/ SendFails(p) \/ Connect(p) \/ PodDies(p)
  \/ \E e \in Events : ForeignSend(e)
  \/ \E t \in Partitions : Revoke(t) \/ CommitOffset(t)
  \/ \E w \in Workers : Work(w) \/ WorkerDies(w) \/ InsertFails(w) \/ BuryFails(w)
  \/ Drained

Spec == Init /\ [][Next]_vars

\* A running worker polls, and Node.js resumes handle(); nothing obliges pods
\* to commit, to reach Kafka or to fail.
FairSpec == Spec /\ \A w \in Workers : WF_vars(Work(w))

-----------------------------------------------------------------------------
(* Properties *)

TypeOK ==
  /\ committed \in Seq(Events)
  /\ due \in [Pods -> SUBSET Events]
  /\ connected \in [Pods -> BOOLEAN]
  /\ outbox \in [Pods -> Seq(Events)]
  /\ log \in [Partitions -> Seq(Events)]
  /\ owner \in [Partitions -> Workers \cup {NoWorker}]
  /\ position \in [Partitions -> Nat]
  /\ offset \in [Partitions -> Nat]
  /\ job \in [Workers -> Job \cup {Idle}]
  /\ notified \subseteq Events /\ dead \subseteq Events /\ failed \subseteq Events
  /\ faults \in Nat

\* Messages of a partition are dealt with in their order, through rebalances,
\* redeliveries and workers that finish late: none is notified or
\* dead-lettered while an earlier one is still untouched.
HandledInOrder ==
  \A t \in Partitions : \A i, j \in DOMAIN log[t] :
    i < j /\ Handled(log[t][j]) => Handled(log[t][i])

\* At-least-once: the group never commits past a message that is neither
\* notified nor in the dead letters, whatever fails.
NothingSkipped ==
  \A t \in Partitions : \A i \in 1..offset[t] :
    i \in DOMAIN log[t] /\ Handled(log[t][i])

\* Redelivery alone never sends a good message to the dead letters (the insert
\* ignores the conflict): only a database error does.
DeadLettersExplained == dead \cap Valid \subseteq failed

\* No message blocks its partition: each one in the log ends as a notification
\* or as a dead letter.
EveryMessageHandled == \A e \in Events : Logged(e) ~> Handled(e)
=============================================================================
