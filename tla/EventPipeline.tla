--------------------------- MODULE EventPipeline ---------------------------
(***************************************************************************)
(* From a finished match to the players' statistics.  The transaction that *)
(* finishes a match also writes a row of the outbox; the workers' publisher *)
(* loop claims rows, sends them to Kafka and marks them; the workers'      *)
(* consumer loop reads the topic, projects each event into the statistics  *)
(* and commits the offset.  Both loops live in one process: it crashes, or *)
(* is stopped by an error of the consumer, as a whole, and is restarted.   *)
(*                                                                         *)
(* An event is named by its match (one event per match).  The topic is     *)
(* one partition: events of different keys are not ordered across          *)
(* partitions, and one that blocks its partition blocks the same keys.     *)
(***************************************************************************)
EXTENDS Naturals, Sequences, FiniteSets

CONSTANTS
  Matches,     \* matches, each of a room of its own
  Actors,      \* who plays every match
  Users,       \* the registered ones of them: only they have statistics
  Workers,     \* event worker processes
  NoWorker,
  MaxAttempts, \* config: attempts after which an event goes to the dead-letter topic
  MaxFaults    \* bound: crashes, failed calls to Postgres or Kafka, lost partitions

ASSUME PipelineAssumption ==
  /\ Users \subseteq Actors
  /\ NoWorker \notin Workers
  /\ MaxAttempts \in Nat \ {0} /\ MaxFaults \in Nat

VARIABLES
  match,      \* rows of matches: "active", "finished", or "deleted" with the room
  outcome,    \* the payload of the match's event
  outbox,     \* rows of outbox_events
  topic,      \* the partition of the match events topic
  dlq,        \* the dead-letter topic
  up,         \* the worker process runs
  batch,      \* rows its publisher has claimed and not dealt with
  sending,    \* the one being published, and how far it has come
  owner,      \* the group member that owns the partition
  committed,  \* the group's committed offset
  cursor,     \* the worker's place in the records it polled
  processed,  \* rows of processed_events
  stats,      \* rows of user_game_stats
  unlocked,   \* rows of user_achievements
  faults      \* faults left

rows == <<match, outcome>>
publishing == <<outbox, topic, dlq, batch, sending>>
consuming == <<owner, committed, cursor>>
projection == <<processed, stats, unlocked>>
vars == <<rows, publishing, consuming, projection, up, faults>>

Reasons == {"normal_completion", "ended_early"}
NoOutcome == [reason |-> "none", winners |-> {}]
Outcome == [reason : Reasons, winners : SUBSET Actors] \cup {NoOutcome}

\* lock: locked_until is NULL, in the future, or in the past.
\* available: available_at has come.
Row == [attempts : Nat, lock : {"none", "held", "lapsed"},
        available : BOOLEAN, published : BOOLEAN]
NoRow == [attempts |-> 0, lock |-> "none", available |-> FALSE, published |-> FALSE]

Claim == [match : Matches, attempts : Nat]
Idle == [result |-> "none"]
AtStart == [next |-> 0, polled |-> 0, applied |-> FALSE]

Codes == {"first_game", "first_win"}
NoStats == [matches |-> 0, wins |-> 0, losses |-> 0, draws |-> 0]

TypeOK ==
  /\ match \in [Matches -> {"active", "finished", "deleted"}]
  /\ outcome \in [Matches -> Outcome]
  /\ outbox \in [Matches -> Row]
  /\ topic \in Seq(Matches) /\ dlq \subseteq Matches
  /\ up \in [Workers -> BOOLEAN]
  /\ batch \in [Workers -> SUBSET Claim]
  /\ sending \in [Workers -> [claim : Claim, result : {"ok", "failed"}] \cup {Idle}]
  /\ owner \in Workers \cup {NoWorker}
  /\ committed \in Nat
  /\ cursor \in [Workers -> [next : Nat, polled : Nat, applied : BOOLEAN]]
  /\ processed \subseteq Matches
  /\ stats \in [Users -> [matches : Nat, wins : Nat, losses : Nat, draws : Nat]]
  /\ unlocked \in [Users -> SUBSET Codes]
  /\ faults \in 0..MaxFaults

Init ==
  /\ match = [m \in Matches |-> "active"]
  /\ outcome = [m \in Matches |-> NoOutcome]
  /\ outbox = [m \in Matches |-> NoRow]
  /\ topic = <<>> /\ dlq = {}
  /\ up = [w \in Workers |-> TRUE]
  /\ batch = [w \in Workers |-> {}]
  /\ sending = [w \in Workers |-> Idle]
  /\ owner = NoWorker
  /\ committed = 0
  /\ cursor = [w \in Workers |-> AtStart]
  /\ processed = {}
  /\ stats = [u \in Users |-> NoStats]
  /\ unlocked = [u \in Users |-> {}]
  /\ faults = MaxFaults

Fault == faults > 0 /\ faults' = faults - 1

----------------------------------------------------------------------------
(* The API's side *)

\* TerminateActiveMatch: the match and its event in one transaction.  A match that
\* is completed has winners, guests or bots maybe; one that ends early has no result.
TerminateActiveMatch(m) ==
  /\ match[m] = "active"
  /\ match' = [match EXCEPT ![m] = "finished"]
  /\ \E o \in Outcome :
       /\ o.reason \in Reasons
       /\ o.reason = "normal_completion" <=> o.winners # {}
       /\ outcome' = [outcome EXCEPT ![m] = o]
  /\ outbox' = [outbox EXCEPT ![m].available = TRUE]
  /\ UNCHANGED <<topic, dlq, batch, sending, consuming, projection, up, faults>>

\* DeleteRoom: allowed when the room is not playing; its matches go with it.
DeleteRoom(m) ==
  /\ match[m] = "finished"
  /\ match' = [match EXCEPT ![m] = "deleted"]
  /\ UNCHANGED <<outcome, publishing, consuming, projection, up, faults>>

----------------------------------------------------------------------------
(* The worker process *)

\* Worker.Run returns: its loops stop wherever they are.
Stop(w) ==
  /\ up' = [up EXCEPT ![w] = FALSE]
  /\ batch' = [batch EXCEPT ![w] = {}]
  /\ sending' = [sending EXCEPT ![w] = Idle]
  /\ cursor' = [cursor EXCEPT ![w] = AtStart]
  /\ owner' = IF owner = w THEN NoWorker ELSE owner
  /\ UNCHANGED committed

Crash(w) ==
  /\ up[w]
  /\ Fault
  /\ Stop(w)
  /\ UNCHANGED <<rows, outbox, topic, dlq, projection>>

\* The container is started again.
Restart(w) ==
  /\ ~up[w]
  /\ up' = [up EXCEPT ![w] = TRUE]
  /\ UNCHANGED <<rows, publishing, consuming, projection, faults>>

----------------------------------------------------------------------------
(* The publisher loop *)

\* Time: the lease of a claim runs out, whether or not its holder still works.
LeaseRunsOut(m) ==
  /\ outbox[m].lock = "held" /\ ~outbox[m].published
  /\ outbox' = [outbox EXCEPT ![m].lock = "lapsed"]
  /\ UNCHANGED <<rows, topic, dlq, batch, sending, consuming, projection, up, faults>>

\* Time: the delay after a failed attempt is over.
BackoffEnds(m) ==
  /\ outbox[m].attempts > 0 /\ ~outbox[m].available
  /\ outbox' = [outbox EXCEPT ![m].available = TRUE]
  /\ UNCHANGED <<rows, topic, dlq, batch, sending, consuming, projection, up, faults>>

\* (mutant) a row whose claimant died is never claimed again
claimableOnce(r) == ~r.published /\ r.available /\ r.lock = "none"
\* The WHERE of ClaimBatch.
claimable(r) == ~r.published /\ r.available /\ r.lock # "held"

\* Attempts are counted up to the first one that goes to the dead-letter topic: more
\* of them make no difference.
Attempt(r) == IF r.attempts > MaxAttempts THEN r.attempts ELSE r.attempts + 1

\* ClaimBatch: rows another transaction is claiming are skipped, and the batch is
\* limited, so any of the claimable rows may be in it.
ClaimBatch(w) ==
  /\ up[w] /\ batch[w] = {}
  /\ \E S \in SUBSET {m \in Matches : claimable(outbox[m])} :
       /\ S # {}
       /\ outbox' = [m \in Matches |->
            IF m \in S THEN [outbox[m] EXCEPT !.lock = "held", !.attempts = Attempt(outbox[m])]
            ELSE outbox[m]]
       /\ batch' = [batch EXCEPT ![w] =
            {[match |-> m, attempts |-> Attempt(outbox[m])] : m \in S}]
  /\ UNCHANGED <<rows, topic, dlq, sending, consuming, projection, up, faults>>

\* Where publishBatch sends a claim, once it has arrived.
Delivered(c) ==
  IF c.attempts > MaxAttempts
  THEN dlq' = dlq \cup {c.match} /\ UNCHANGED topic
  ELSE topic' = Append(topic, c.match) /\ UNCHANGED dlq

\* (mutant) the error is logged and the row marked as if it had been sent
PublishUnchecked(w) ==
  /\ up[w] /\ sending[w] = Idle
  /\ \E c \in batch[w] :
       /\ sending' = [sending EXCEPT ![w] = [claim |-> c, result |-> "ok"]]
       /\ \/ Delivered(c) /\ UNCHANGED faults
          \/ Fault /\ UNCHANGED <<topic, dlq>>
  /\ UNCHANGED <<rows, outbox, batch, consuming, projection, up>>
\* publishBatch, the call of Publish: an error does not say the record was not
\* stored.
Publish(w) ==
  /\ up[w] /\ sending[w] = Idle
  /\ \E c \in batch[w] :
       \/ /\ sending' = [sending EXCEPT ![w] = [claim |-> c, result |-> "ok"]]
          /\ Delivered(c)
          /\ UNCHANGED faults
       \/ /\ sending' = [sending EXCEPT ![w] = [claim |-> c, result |-> "failed"]]
          /\ Delivered(c) \/ UNCHANGED <<topic, dlq>>
          /\ Fault
  /\ UNCHANGED <<rows, outbox, batch, consuming, projection, up>>

\* The updates of MarkPublished and MarkFailed; neither asks who holds the lock.
Marked(r, result) ==
  IF r.published THEN r
  ELSE IF result = "ok" THEN [r EXCEPT !.published = TRUE, !.lock = "none"]
  ELSE [r EXCEPT !.lock = "none", !.available = FALSE]

\* publishBatch, after Publish: on an error of the update the rest of the batch is
\* dropped and waits for its lease to run out.
Mark(w) ==
  /\ up[w] /\ sending[w] # Idle
  /\ LET c == sending[w].claim
         updated == outbox' = [outbox EXCEPT ![c.match] = Marked(@, sending[w].result)]
     IN \/ /\ updated
           /\ batch' = [batch EXCEPT ![w] = @ \ {c}]
           /\ UNCHANGED faults
        \/ /\ updated \/ UNCHANGED outbox
           /\ batch' = [batch EXCEPT ![w] = {}]
           /\ Fault
  /\ sending' = [sending EXCEPT ![w] = Idle]
  /\ UNCHANGED <<rows, topic, dlq, consuming, projection, up>>

----------------------------------------------------------------------------
(* The consumer loop *)

\* The group gives the free partition to a member, which reads on from the
\* committed offset.
Assign(w) ==
  /\ up[w] /\ owner = NoWorker
  /\ owner' = w
  /\ cursor' = [cursor EXCEPT ![w] = [next |-> committed, polled |-> committed, applied |-> FALSE]]
  /\ UNCHANGED <<rows, publishing, committed, projection, up, faults>>

\* The group drops a member that is too slow; the member still has its records.
LosePartition ==
  /\ owner # NoWorker
  /\ Fault
  /\ owner' = NoWorker
  /\ UNCHANGED <<rows, publishing, committed, cursor, projection, up>>

PollRecords(w) ==
  /\ up[w] /\ owner = w
  /\ cursor[w].next = cursor[w].polled
  /\ Len(topic) > cursor[w].polled
  /\ cursor' = [cursor EXCEPT ![w].polled = Len(topic)]
  /\ UNCHANGED <<rows, publishing, owner, committed, projection, up, faults>>

\* ApplyMatchFinished: what one completed match adds to a player's statistics.
Tally(s, o, u) ==
  [matches |-> s.matches + 1,
   draws   |-> s.draws  + IF u \in o.winners /\ o.winners # {u} THEN 1 ELSE 0,
   wins    |-> s.wins   + IF o.winners = {u} THEN 1 ELSE 0,
   losses  |-> s.losses + IF u \notin o.winners THEN 1 ELSE 0]
Earned(o, u) == IF u \in o.winners THEN Codes ELSE {"first_game"}

Counts(m) == outcome[m].reason = "normal_completion"

\* The reference of a new achievement to its match holds only while the match is
\* there; an achievement the player has is not inserted again.
Insertable(m) ==
  Counts(m) /\ match[m] = "deleted" => \A u \in Users : Earned(outcome[m], u) \subseteq unlocked[u]

\* (mutant) the event is not looked up
neverDuplicate(m) == FALSE
\* The row of processed_events is there.
duplicate(m) == m \in processed

ApplyMatchFinished(m) ==
  IF duplicate(m) THEN UNCHANGED projection
  ELSE /\ processed' = processed \cup {m}
       /\ IF Counts(m)
          THEN /\ stats' = [u \in Users |-> Tally(stats[u], outcome[m], u)]
               /\ unlocked' = [u \in Users |-> unlocked[u] \cup Earned(outcome[m], u)]
          ELSE UNCHANGED <<stats, unlocked>>

\* (mutant) an error is logged and the record passed over
HandleOrSkip(w) ==
  /\ up[w]
  /\ cursor[w].next < cursor[w].polled /\ ~cursor[w].applied
  /\ LET m == topic[cursor[w].next + 1] IN
     /\ \/ (duplicate(m) \/ Insertable(m)) /\ ApplyMatchFinished(m) /\ UNCHANGED faults
        \/ ~duplicate(m) /\ ~Insertable(m) /\ UNCHANGED <<projection, faults>>
        \/ Fault /\ UNCHANGED projection
     /\ cursor' = [cursor EXCEPT ![w].applied = TRUE]
     /\ UNCHANGED <<up, batch, sending, owner, committed>>
  /\ UNCHANGED <<rows, outbox, topic, dlq>>
\* Consumer.Handle, called by Worker.consume: any error ends the worker.
Handle(w) ==
  /\ up[w]
  /\ cursor[w].next < cursor[w].polled /\ ~cursor[w].applied
  /\ LET m == topic[cursor[w].next + 1] IN
     \/ /\ duplicate(m) \/ Insertable(m)
        /\ ApplyMatchFinished(m)
        /\ cursor' = [cursor EXCEPT ![w].applied = TRUE]
        /\ UNCHANGED <<up, batch, sending, owner, committed, faults>>
     \/ /\ ~duplicate(m) /\ ~Insertable(m)
        /\ Stop(w)
        /\ UNCHANGED <<projection, faults>>
     \/ /\ Fault
        /\ \/ UNCHANGED projection
           \/ (duplicate(m) \/ Insertable(m)) /\ ApplyMatchFinished(m)
        /\ Stop(w)
  /\ UNCHANGED <<rows, outbox, topic, dlq>>

\* CommitRecords: the group refuses a member that lost the partition.
CommitRecords(w) ==
  /\ up[w] /\ cursor[w].applied
  /\ \/ /\ owner = w
        /\ committed' = cursor[w].next + 1
        /\ cursor' = [cursor EXCEPT ![w].next = @ + 1, ![w].applied = FALSE]
        /\ UNCHANGED <<owner, up, batch, sending, faults>>
     \/ owner # w /\ Stop(w) /\ UNCHANGED faults
     \/ Fault /\ Stop(w)
  /\ UNCHANGED <<rows, outbox, topic, dlq, projection>>

----------------------------------------------------------------------------
Next ==
  \/ \E m \in Matches :
       \/ TerminateActiveMatch(m) \/ DeleteRoom(m)
       \/ LeaseRunsOut(m) \/ BackoffEnds(m)
  \/ \E w \in Workers :
       \/ Crash(w) \/ Restart(w)
       \/ ClaimBatch(w) \/ Publish(w) \/ Mark(w)
       \/ Assign(w) \/ PollRecords(w) \/ Handle(w) \/ CommitRecords(w)
  \/ LosePartition

Spec == Init /\ [][Next]_vars

\* Time passes, containers are restarted and the loops run; nobody has to finish a
\* match or delete a room, and nothing has to fail.
Fairness ==
  /\ \A m \in Matches : WF_vars(LeaseRunsOut(m)) /\ WF_vars(BackoffEnds(m))
  /\ \A w \in Workers :
       /\ WF_vars(Restart(w))
       /\ WF_vars(ClaimBatch(w)) /\ WF_vars(Publish(w)) /\ WF_vars(Mark(w))
       /\ WF_vars(Assign(w)) /\ WF_vars(PollRecords(w))
       /\ WF_vars(Handle(w)) /\ WF_vars(CommitRecords(w))

FairSpec == Spec /\ Fairness

----------------------------------------------------------------------------
Sent(m) == m \in dlq \/ \E i \in 1..Len(topic) : topic[i] = m

\* A row is marked published only once its event is in one of the topics: whatever
\* fails between claiming, sending and marking, publishBatch drops no result.
PublishedWasSent == \A m \in Matches : outbox[m].published => Sent(m)

\* The group's offset passes no record whose event is not projected: the loop of
\* Worker.consume commits after Handle, and stops at an error, also when a member
\* that lost the partition goes on with the records it has.
OffsetIsProcessed == \A i \in 1..Len(topic) : i <= committed => topic[i] \in processed

\* What the statistics of a player must be: those of the matches projected so far.
Counted == {m \in processed : Counts(m)}
Fitting(u) ==
  [matches |-> Cardinality(Counted),
   wins    |-> Cardinality({m \in Counted : outcome[m].winners = {u}}),
   losses  |-> Cardinality({m \in Counted : u \notin outcome[m].winners}),
   draws   |-> Cardinality({m \in Counted : u \in outcome[m].winners /\ outcome[m].winners # {u}})]

\* Each completed match counts once in the statistics of each registered player, and
\* unlocks what it earned, however often its event is published, redelivered or
\* handled by two workers; early-ended and unfinished ones do not count.
StatsFollowResults ==
  /\ \A m \in processed : match[m] # "active"
  /\ \A u \in Users :
       /\ stats[u] = Fitting(u)
       /\ unlocked[u] = UNION {Earned(outcome[m], u) : m \in Counted}

Result(m) == match[m] # "active"

\* Every finished match is projected in the end, or is in the dead-letter topic,
\* unless a room is deleted: whatever crashes, fails or is sent twice.
EveryResultArrives ==
  \A m \in Matches : Result(m) ~> (m \in processed \/ m \in dlq
                                     \/ \E n \in Matches : match[n] = "deleted")

\* README.md: the idempotent consumer updates the statistics asynchronously.  Stated
\* for the matches of rooms that are kept, whatever happens to other rooms.
EveryKeptResultArrives ==
  \A m \in Matches : Result(m) ~> (m \in processed \/ m \in dlq \/ match[m] = "deleted")
=============================================================================
