------------------------ MODULE EventPipelineProofs ------------------------
(***************************************************************************)
(* The invariants of EventPipeline, for any number of matches, players,    *)
(* workers, attempts and faults.                                           *)
(***************************************************************************)
EXTENDS EventPipeline, FiniteSetTheorems, TLAPS

\* Only the event of a match that has ended is claimed, sent or projected.
OnlyEnded ==
  \A m \in Matches : match[m] = "active" =>
    /\ outbox[m] = NoRow
    /\ m \notin processed
    /\ \A w \in Workers : \A c \in batch[w] : c.match # m
    /\ \A w \in Workers : sending[w] # Idle => sending[w].claim.match # m
    /\ \A i \in 1..Len(topic) : topic[i] # m

\* What publishBatch is about to mark as published has arrived.
Arrived == \A w \in Workers : sending[w].result = "ok" => Sent(sending[w].claim.match)

\* Where the group and its members are in the topic: the owner of the partition is at
\* the committed offset, and a record that is being committed is projected.
Reading ==
  /\ committed <= Len(topic)
  /\ \A w \in Workers :
       /\ cursor[w].next <= cursor[w].polled /\ cursor[w].polled <= Len(topic)
       /\ cursor[w].applied => /\ cursor[w].next < cursor[w].polled
                               /\ topic[cursor[w].next + 1] \in processed
       /\ owner = w => cursor[w].next = committed

IInv ==
  /\ TypeOK /\ OnlyEnded /\ Arrived /\ Reading
  /\ PublishedWasSent /\ OffsetIsProcessed
  /\ IsFiniteSet(processed) /\ StatsFollowResults

----------------------------------------------------------------------------
(* Types *)

LEMMA StopTypes ==
  ASSUME TypeOK, NEW w \in Workers, Stop(w)
  PROVE  /\ up' \in [Workers -> BOOLEAN]
         /\ batch' \in [Workers -> SUBSET Claim]
         /\ sending' \in [Workers -> [claim : Claim, result : {"ok", "failed"}] \cup {Idle}]
         /\ owner' \in Workers \cup {NoWorker}
         /\ committed' \in Nat
         /\ cursor' \in [Workers -> [next : Nat, polled : Nat, applied : BOOLEAN]]
<1>1. AtStart \in [next : Nat, polled : Nat, applied : BOOLEAN]
  BY DEF AtStart
<1> QED
  BY <1>1 DEF TypeOK, Stop

LEMMA AttemptTyped ==
  ASSUME NEW r \in Row
  PROVE  Attempt(r) \in Nat
BY PipelineAssumption DEF Row, Attempt

LEMMA OutboxTypes ==
  ASSUME NEW r \in Row
  PROVE  /\ [r EXCEPT !.lock = "held", !.attempts = Attempt(r)] \in Row
         /\ [r EXCEPT !.lock = "lapsed"] \in Row
         /\ [r EXCEPT !.available = TRUE] \in Row
         /\ \A result : Marked(r, result) \in Row
<1>1. ASSUME NEW a \in Nat
      PROVE  [r EXCEPT !.lock = "held", !.attempts = a] \in Row
  BY DEF Row
<1>2. [r EXCEPT !.lock = "lapsed"] \in Row /\ [r EXCEPT !.available = TRUE] \in Row
  BY DEF Row
<1>3. \A result : Marked(r, result) \in Row
  BY DEF Row, Marked
<1> QED
  BY <1>1, <1>2, <1>3, AttemptTyped

LEMMA CursorTypes ==
  ASSUME NEW c \in [next : Nat, polled : Nat, applied : BOOLEAN], NEW n \in Nat
  PROVE  /\ [c EXCEPT !.polled = n] \in [next : Nat, polled : Nat, applied : BOOLEAN]
         /\ [c EXCEPT !.applied = TRUE] \in [next : Nat, polled : Nat, applied : BOOLEAN]
         /\ [c EXCEPT !.next = @ + 1, !.applied = FALSE]
              \in [next : Nat, polled : Nat, applied : BOOLEAN]
<1>1. [c EXCEPT !.polled = n] \in [next : Nat, polled : Nat, applied : BOOLEAN]
  OBVIOUS
<1>2. [c EXCEPT !.applied = TRUE] \in [next : Nat, polled : Nat, applied : BOOLEAN]
  OBVIOUS
<1>3. ASSUME NEW k \in Nat
      PROVE  [c EXCEPT !.next = k, !.applied = FALSE]
               \in [next : Nat, polled : Nat, applied : BOOLEAN]
  OBVIOUS
<1>4. c.next + 1 \in Nat
  OBVIOUS
<1> QED
  BY <1>1, <1>2, <1>3, <1>4

LEMMA ProjectionTypes ==
  ASSUME TypeOK, NEW m \in Matches, ApplyMatchFinished(m)
  PROVE  /\ processed' \subseteq Matches
         /\ stats' \in [Users -> [matches : Nat, wins : Nat, losses : Nat, draws : Nat]]
         /\ unlocked' \in [Users -> SUBSET Codes]
<1>1. ASSUME NEW s \in [matches : Nat, wins : Nat, losses : Nat, draws : Nat], NEW o, NEW u
      PROVE  Tally(s, o, u) \in [matches : Nat, wins : Nat, losses : Nat, draws : Nat]
  BY DEF Tally
<1>2. \A o, u : Earned(o, u) \subseteq Codes
  BY DEF Earned, Codes
<1> QED
  BY <1>1, <1>2 DEF TypeOK, ApplyMatchFinished, projection

LEMMA InitTyped == Init => TypeOK
<1> SUFFICES ASSUME Init PROVE TypeOK
  OBVIOUS
<1>1. NoRow \in Row /\ NoOutcome \in Outcome
  BY DEF NoRow, Row, NoOutcome, Outcome
<1>2. AtStart \in [next : Nat, polled : Nat, applied : BOOLEAN]
  BY DEF AtStart
<1>3. NoStats \in [matches : Nat, wins : Nat, losses : Nat, draws : Nat]
  BY DEF NoStats
<1> QED
  BY <1>1, <1>2, <1>3, PipelineAssumption DEF Init, TypeOK

LEMMA FaultTyped == TypeOK /\ Fault => faults' \in 0..MaxFaults
BY PipelineAssumption DEF TypeOK, Fault

LEMMA NextTyped == TypeOK /\ Reading /\ [Next]_vars => TypeOK'
<1> SUFFICES ASSUME TypeOK, Reading, [Next]_vars PROVE TypeOK'
  OBVIOUS
<1> USE DEF rows, publishing, consuming, projection, vars
<1>1. ASSUME NEW m \in Matches, TerminateActiveMatch(m) PROVE TypeOK'
  <2>1. outbox' \in [Matches -> Row]
    BY <1>1, OutboxTypes DEF TerminateActiveMatch, TypeOK
  <2> QED
    BY <1>1, <2>1 DEF TerminateActiveMatch, TypeOK
<1>2. ASSUME NEW m \in Matches, DeleteRoom(m) PROVE TypeOK'
  BY <1>2 DEF DeleteRoom, TypeOK
<1>3. ASSUME NEW m \in Matches, LeaseRunsOut(m) PROVE TypeOK'
  <2>1. outbox' \in [Matches -> Row]
    BY <1>3, OutboxTypes DEF LeaseRunsOut, TypeOK
  <2> QED
    BY <1>3, <2>1 DEF LeaseRunsOut, TypeOK
<1>4. ASSUME NEW m \in Matches, BackoffEnds(m) PROVE TypeOK'
  <2>1. outbox' \in [Matches -> Row]
    BY <1>4, OutboxTypes DEF BackoffEnds, TypeOK
  <2> QED
    BY <1>4, <2>1 DEF BackoffEnds, TypeOK
<1>5. ASSUME NEW w \in Workers, Crash(w) PROVE TypeOK'
  BY <1>5, StopTypes, FaultTyped DEF Crash, TypeOK
<1>6. ASSUME NEW w \in Workers, Restart(w) PROVE TypeOK'
  BY <1>6 DEF Restart, TypeOK
<1>7. ASSUME NEW w \in Workers, ClaimBatch(w) PROVE TypeOK'
  <2>1. PICK S \in SUBSET {m \in Matches : claimable(outbox[m])} :
          /\ outbox' = [m \in Matches |->
               IF m \in S THEN [outbox[m] EXCEPT !.lock = "held", !.attempts = Attempt(outbox[m])]
               ELSE outbox[m]]
          /\ batch' = [batch EXCEPT ![w] =
               {[match |-> m, attempts |-> Attempt(outbox[m])] : m \in S}]
    BY <1>7 DEF ClaimBatch
  <2>2. outbox' \in [Matches -> Row]
    <3>1. \A m \in Matches :
            /\ outbox[m] \in Row
            /\ [outbox[m] EXCEPT !.lock = "held", !.attempts = Attempt(outbox[m])] \in Row
      BY OutboxTypes DEF TypeOK
    <3> QED
      BY <2>1, <3>1
  <2>3. \A m \in Matches : Attempt(outbox[m]) \in Nat
    BY AttemptTyped DEF TypeOK
  <2>4. {[match |-> m, attempts |-> Attempt(outbox[m])] : m \in S} \subseteq Claim
    BY <2>3 DEF Claim
  <2>5. batch' \in [Workers -> SUBSET Claim]
    BY <2>1, <2>4 DEF TypeOK
  <2> QED
    BY <1>7, <2>2, <2>5 DEF ClaimBatch, TypeOK
<1>8. ASSUME NEW w \in Workers, Publish(w) PROVE TypeOK'
  <2>1. PICK c \in batch[w] :
          /\ \E r \in {"ok", "failed"} : sending' = [sending EXCEPT ![w] = [claim |-> c, result |-> r]]
          /\ Delivered(c) \/ UNCHANGED <<topic, dlq>>
          /\ UNCHANGED faults \/ Fault
    BY <1>8 DEF Publish
  <2>2. c \in Claim /\ c.match \in Matches
    BY DEF TypeOK, Claim
  <2>3. topic' \in Seq(Matches) /\ dlq' \subseteq Matches
    <3>1. topic \in Seq(Matches) /\ dlq \subseteq Matches
      BY DEF TypeOK
    <3>2. Append(topic, c.match) \in Seq(Matches)
      BY <2>2, <3>1
    <3> QED
      BY <2>1, <2>2, <3>1, <3>2 DEF Delivered
  <2>4. sending' \in [Workers -> [claim : Claim, result : {"ok", "failed"}] \cup {Idle}]
    BY <2>1, <2>2 DEF TypeOK
  <2>5. faults' \in 0..MaxFaults
    BY <2>1, FaultTyped DEF TypeOK
  <2> QED
    BY <1>8, <2>3, <2>4, <2>5 DEF Publish, TypeOK
<1>9. ASSUME NEW w \in Workers, Mark(w) PROVE TypeOK'
  <2> DEFINE c == sending[w].claim
  <2>1. /\ \/ outbox' = [outbox EXCEPT ![c.match] = Marked(@, sending[w].result)]
           \/ outbox' = outbox
        /\ batch' = [batch EXCEPT ![w] = @ \ {c}] \/ batch' = [batch EXCEPT ![w] = {}]
        /\ UNCHANGED faults \/ Fault
    BY <1>9 DEF Mark
  <2>2. outbox' \in [Matches -> Row]
    <3>1. outbox \in [Matches -> Row] /\ Marked(outbox[c.match], sending[w].result) \in Row
      <4>1. c \in Claim
        BY <1>9 DEF Mark, TypeOK
      <4> QED
        BY <4>1, OutboxTypes DEF TypeOK, Claim
    <3> QED
      BY <2>1, <3>1
  <2>3. batch' \in [Workers -> SUBSET Claim]
    BY <2>1 DEF TypeOK
  <2>4. faults' \in 0..MaxFaults
    BY <2>1, FaultTyped DEF TypeOK
  <2> QED
    BY <1>9, <2>2, <2>3, <2>4 DEF Mark, TypeOK
<1>10. ASSUME NEW w \in Workers, Assign(w) PROVE TypeOK'
  BY <1>10 DEF Assign, TypeOK
<1>11. ASSUME NEW w \in Workers, PollRecords(w) PROVE TypeOK'
  <2>1. cursor' \in [Workers -> [next : Nat, polled : Nat, applied : BOOLEAN]]
    <3>1. Len(topic) \in Nat
      BY DEF TypeOK
    <3>2. [cursor[w] EXCEPT !.polled = Len(topic)] \in [next : Nat, polled : Nat, applied : BOOLEAN]
      BY <3>1, CursorTypes DEF TypeOK
    <3> QED
      BY <1>11, <3>2 DEF PollRecords, TypeOK
  <2> QED
    BY <1>11, <2>1 DEF PollRecords, TypeOK
<1>12. ASSUME NEW w \in Workers, Handle(w) PROVE TypeOK'
  <2> DEFINE m == topic[cursor[w].next + 1]
  <2>1. m \in Matches
    BY <1>12 DEF Handle, Reading, TypeOK
  <2> HIDE DEF m
  <2>2. UNCHANGED <<rows, outbox, topic, dlq>>
    BY <1>12 DEF Handle
  <2>3. ApplyMatchFinished(m) \/ UNCHANGED projection
    BY <1>12 DEF Handle, m
  <2>4. /\ processed' \subseteq Matches
        /\ stats' \in [Users -> [matches : Nat, wins : Nat, losses : Nat, draws : Nat]]
        /\ unlocked' \in [Users -> SUBSET Codes]
    BY <2>1, <2>3, ProjectionTypes DEF TypeOK
  <2>5. /\ up' \in [Workers -> BOOLEAN]
        /\ batch' \in [Workers -> SUBSET Claim]
        /\ sending' \in [Workers -> [claim : Claim, result : {"ok", "failed"}] \cup {Idle}]
        /\ owner' \in Workers \cup {NoWorker}
        /\ committed' \in Nat
        /\ cursor' \in [Workers -> [next : Nat, polled : Nat, applied : BOOLEAN]]
    <3>1. CASE Stop(w)
      BY <3>1, StopTypes
    <3>2. CASE /\ cursor' = [cursor EXCEPT ![w].applied = TRUE]
               /\ UNCHANGED <<up, batch, sending, owner, committed>>
      <4>1. cursor[w] \in [next : Nat, polled : Nat, applied : BOOLEAN]
        BY DEF TypeOK
      <4>2. [cursor[w] EXCEPT !.applied = TRUE] \in [next : Nat, polled : Nat, applied : BOOLEAN]
        BY <4>1, CursorTypes, Zenon
      <4>3. cursor' = [cursor EXCEPT ![w] = [cursor[w] EXCEPT !.applied = TRUE]]
        BY <3>2
      <4>4. cursor' \in [Workers -> [next : Nat, polled : Nat, applied : BOOLEAN]]
        BY <4>2, <4>3 DEF TypeOK
      <4> QED
        BY <3>2, <4>4 DEF TypeOK
    <3> QED
      BY <1>12, <3>1, <3>2 DEF Handle
  <2>6. faults' \in 0..MaxFaults
    BY <1>12, FaultTyped DEF Handle, TypeOK
  <2> QED
    BY <2>2, <2>4, <2>5, <2>6 DEF TypeOK
<1>13. ASSUME NEW w \in Workers, CommitRecords(w) PROVE TypeOK'
  <2>1. CASE owner = w /\ committed' = cursor[w].next + 1
              /\ cursor' = [cursor EXCEPT ![w].next = @ + 1, ![w].applied = FALSE]
              /\ UNCHANGED <<owner, up, batch, sending, faults>>
    <3>1. [cursor[w] EXCEPT !.next = @ + 1, !.applied = FALSE]
            \in [next : Nat, polled : Nat, applied : BOOLEAN]
      BY CursorTypes DEF TypeOK
    <3>2. /\ cursor' \in [Workers -> [next : Nat, polled : Nat, applied : BOOLEAN]]
          /\ committed' \in Nat
      BY <2>1, <3>1 DEF TypeOK
    <3> QED
      BY <1>13, <2>1, <3>2 DEF CommitRecords, TypeOK
  <2>2. CASE Stop(w) /\ (UNCHANGED faults \/ Fault)
    BY <1>13, <2>2, StopTypes, FaultTyped DEF CommitRecords, TypeOK
  <2> QED
    BY <1>13, <2>1, <2>2 DEF CommitRecords
<1>14. ASSUME LosePartition PROVE TypeOK'
  BY <1>14, FaultTyped DEF LosePartition, TypeOK
<1>15. ASSUME UNCHANGED vars PROVE TypeOK'
  BY <1>15 DEF TypeOK
<1> QED
  BY <1>1, <1>2, <1>3, <1>4, <1>5, <1>6, <1>7, <1>8, <1>9, <1>10, <1>11, <1>12, <1>13, <1>14,
     <1>15 DEF Next
----------------------------------------------------------------------------
(* From the outbox to the topic *)

\* Kafka keeps what it has: the topic only grows, by an event that is claimed.
Grows ==
  /\ \/ topic' = topic
     \/ \E w \in Workers : \E c \in batch[w] : topic' = Append(topic, c.match)
  /\ dlq \subseteq dlq' /\ processed \subseteq processed'

LEMMA TopicGrows == TypeOK /\ [Next]_vars => Grows
<1> SUFFICES ASSUME TypeOK, [Next]_vars PROVE Grows
  OBVIOUS
<1> USE DEF rows, publishing, consuming, projection, vars, Grows
<1>1. ASSUME NEW m \in Matches, TerminateActiveMatch(m) \/ DeleteRoom(m) \/ LeaseRunsOut(m)
                                 \/ BackoffEnds(m)
      PROVE  Grows
  BY <1>1 DEF TerminateActiveMatch, DeleteRoom, LeaseRunsOut, BackoffEnds
<1>2. ASSUME NEW w \in Workers, Crash(w) \/ Restart(w) \/ ClaimBatch(w) \/ Mark(w)
                                 \/ Assign(w) \/ PollRecords(w) \/ CommitRecords(w)
      PROVE  Grows
  BY <1>2 DEF Crash, Restart, ClaimBatch, Mark, Assign, PollRecords, CommitRecords
<1>3. ASSUME NEW w \in Workers, Publish(w) PROVE Grows
  BY <1>3 DEF Publish, Delivered
<1>4. ASSUME NEW w \in Workers, Handle(w) PROVE Grows
  BY <1>4 DEF Handle, ApplyMatchFinished
<1>5. LosePartition \/ UNCHANGED vars => Grows
  BY DEF LosePartition
<1> QED
  BY <1>1, <1>2, <1>3, <1>4, <1>5 DEF Next

LEMMA TopicKept ==
  ASSUME TypeOK, Grows
  PROVE  /\ Len(topic) \in Nat /\ Len(topic') \in Nat
         /\ Len(topic) <= Len(topic')
         /\ \A i \in 1..Len(topic) : topic'[i] = topic[i]
<1>1. topic \in Seq(Matches)
  BY DEF TypeOK
<1>2. ASSUME NEW w \in Workers, NEW c \in batch[w], topic' = Append(topic, c.match)
      PROVE  /\ Len(topic) \in Nat /\ Len(topic') = Len(topic) + 1
             /\ \A i \in 1..Len(topic) : topic'[i] = topic[i]
  <2>1. c.match \in Matches
    BY DEF TypeOK, Claim
  <2> QED
    BY <1>1, <1>2, <2>1
<1>3. Len(topic) \in Nat
  BY <1>1
<1> QED
  BY <1>2, <1>3 DEF Grows

LEMMA SentForEver == ASSUME TypeOK, Grows, NEW m, Sent(m) PROVE Sent(m)'
<1>1. CASE m \in dlq
  BY <1>1 DEF Grows, Sent
<1>2. CASE \E i \in 1..Len(topic) : topic[i] = m
  <2>1. PICK i \in 1..Len(topic) : topic[i] = m
    BY <1>2
  <2>2. i \in 1..Len(topic') /\ topic'[i] = m
    BY <2>1, TopicKept
  <2> QED
    BY <2>2 DEF Sent
<1> QED
  BY <1>1, <1>2 DEF Sent

LEMMA DeliveredIsSent ==
  ASSUME TypeOK, NEW w \in Workers, NEW c \in batch[w], Delivered(c)
  PROVE  Sent(c.match)'
<1>1. c.match \in Matches /\ topic \in Seq(Matches)
  BY DEF TypeOK, Claim
<1>2. CASE c.attempts > MaxAttempts
  BY <1>2 DEF Delivered, Sent
<1>3. CASE ~(c.attempts > MaxAttempts)
  <2>1. /\ Len(topic') = Len(topic) + 1 /\ Len(topic) \in Nat
        /\ topic'[Len(topic) + 1] = c.match
    BY <1>1, <1>3 DEF Delivered
  <2>2. Len(topic) + 1 \in 1..Len(topic')
    BY <2>1
  <2> QED
    BY <2>1, <2>2 DEF Sent
<1> QED
  BY <1>2, <1>3

\* What changes sending: publishing the next claim, or its end.
LEMMA SendingSteps ==
  ASSUME TypeOK, [Next]_vars, NEW v \in Workers, sending'[v] # sending[v]
  PROVE  sending'[v] = Idle \/ Publish(v)
<1> USE DEF rows, publishing, consuming, projection, vars
<1>1. ASSUME NEW m \in Matches, TerminateActiveMatch(m) \/ DeleteRoom(m) \/ LeaseRunsOut(m)
                                 \/ BackoffEnds(m)
      PROVE  sending' = sending
  BY <1>1 DEF TerminateActiveMatch, DeleteRoom, LeaseRunsOut, BackoffEnds
<1>2. ASSUME NEW w \in Workers, Restart(w) \/ ClaimBatch(w) \/ Assign(w) \/ PollRecords(w)
      PROVE  sending' = sending
  BY <1>2 DEF Restart, ClaimBatch, Assign, PollRecords
<1>3. ASSUME NEW w \in Workers, Crash(w) \/ Handle(w) \/ CommitRecords(w) \/ Mark(w)
      PROVE  sending' = sending \/ sending' = [sending EXCEPT ![w] = Idle]
  BY <1>3 DEF Crash, Handle, CommitRecords, Mark, Stop
<1>4. ASSUME NEW w \in Workers, Publish(w)
      PROVE  w = v \/ sending'[v] = sending[v]
  BY <1>4 DEF Publish, TypeOK
<1>5. LosePartition \/ UNCHANGED vars => sending' = sending
  BY DEF LosePartition
<1>6. sending \in [Workers -> [claim : Claim, result : {"ok", "failed"}] \cup {Idle}]
  BY DEF TypeOK
<1> QED
  BY <1>1, <1>2, <1>3, <1>4, <1>5, <1>6 DEF Next

LEMMA ArrivedKept ==
  ASSUME TypeOK, Arrived, [Next]_vars
  PROVE  Arrived'
<1> SUFFICES ASSUME NEW v \in Workers, sending'[v].result = "ok"
             PROVE  Sent(sending[v].claim.match)'
  BY DEF Arrived
<1>1. Grows
  BY TopicGrows
<1>2. CASE sending'[v] = sending[v]
  BY <1>1, <1>2, SentForEver DEF Arrived
<1>3. CASE sending'[v] # sending[v]
  <2>1. sending'[v] # Idle
    BY DEF Idle
  <2>2. PICK c \in batch[v] :
          \/ sending' = [sending EXCEPT ![v] = [claim |-> c, result |-> "ok"]] /\ Delivered(c)
          \/ sending' = [sending EXCEPT ![v] = [claim |-> c, result |-> "failed"]]
    BY <1>3, <2>1, SendingSteps DEF Publish
  <2>3. sending'[v].claim = c /\ Delivered(c)
    BY <2>2 DEF TypeOK
  <2> QED
    BY <2>3, DeliveredIsSent
<1> QED
  BY <1>2, <1>3

LEMMA PublishedKept ==
  ASSUME TypeOK, Arrived, PublishedWasSent, [Next]_vars
  PROVE  PublishedWasSent'
<1> SUFFICES ASSUME NEW m \in Matches, outbox'[m].published
             PROVE  Sent(m)'
  BY DEF PublishedWasSent
<1> USE DEF rows, publishing, consuming, projection, vars
<1>1. CASE outbox[m].published
  BY <1>1, TopicGrows, SentForEver DEF PublishedWasSent
<1>2. CASE ~outbox[m].published
  <2>0. outbox \in [Matches -> Row]
    BY DEF TypeOK
  <2>1. ASSUME NEW w \in Workers, Mark(w)
        PROVE  Sent(m)'
    <3> DEFINE c == sending[w].claim
    <3>1. c.match \in Matches
      BY <2>1 DEF Mark, TypeOK, Claim
    <3>2. outbox'[m] # outbox[m]
      BY <1>2
    <3>3. outbox' = [outbox EXCEPT ![c.match] = Marked(@, sending[w].result)]
      BY <2>1, <3>2 DEF Mark
    <3>4. m = c.match /\ outbox'[m] = Marked(outbox[m], sending[w].result)
      BY <2>0, <3>1, <3>2, <3>3
    <3>5. sending[w].result = "ok"
      <4>1. [outbox[m] EXCEPT !.lock = "none", !.available = FALSE].published = outbox[m].published
        BY <2>0 DEF Row
      <4> QED
        BY <1>2, <3>4, <4>1 DEF Marked
    <3>6. Sent(c.match)
      BY <3>5 DEF Arrived
    <3> QED
      BY <3>4, <3>6, TopicGrows, SentForEver
  <2>2. ASSUME NEW w \in Workers, ClaimBatch(w)
        PROVE  FALSE
    <3>1. outbox[m] \in Row
      BY <2>0
    <3>2. \A a : [outbox[m] EXCEPT !.lock = "held", !.attempts = a].published
                  = outbox[m].published
      BY <3>1 DEF Row
    <3>3. \/ outbox'[m] = outbox[m]
          \/ outbox'[m] = [outbox[m] EXCEPT !.lock = "held", !.attempts = Attempt(outbox[m])]
      BY <2>2 DEF ClaimBatch
    <3> QED
      BY <1>2, <3>2, <3>3
  <2>3. ASSUME NEW n \in Matches, TerminateActiveMatch(n) \/ LeaseRunsOut(n) \/ BackoffEnds(n)
        PROVE  FALSE
    BY <1>2, <2>0, <2>3 DEF TerminateActiveMatch, LeaseRunsOut, BackoffEnds, Row
  <2>4. ASSUME NEW w \in Workers, Crash(w) \/ Restart(w) \/ Publish(w) \/ Assign(w)
                                   \/ PollRecords(w) \/ Handle(w) \/ CommitRecords(w)
        PROVE  outbox' = outbox
    BY <2>4 DEF Crash, Restart, Publish, Assign, PollRecords, Handle, CommitRecords
  <2>5. ASSUME NEW n \in Matches, DeleteRoom(n)
        PROVE  outbox' = outbox
    BY <2>5 DEF DeleteRoom
  <2>6. LosePartition \/ UNCHANGED vars => outbox' = outbox
    BY DEF LosePartition
  <2> QED
    BY <1>2, <2>1, <2>2, <2>3, <2>4, <2>5, <2>6 DEF Next
<1> QED
  BY <1>1, <1>2
----------------------------------------------------------------------------
(* From the topic to the projection *)

\* What the steps do to the group's offset and the members' places.
Moves ==
  \/ UNCHANGED <<owner, committed, cursor>>
  \/ UNCHANGED <<committed, cursor>> /\ owner' = NoWorker
  \/ \E w \in Workers :
       \/ Stop(w)
       \/ /\ owner = NoWorker /\ owner' = w
          /\ cursor' = [cursor EXCEPT ![w] = [next |-> committed, polled |-> committed, applied |-> FALSE]]
          /\ UNCHANGED committed
       \/ /\ cursor' = [cursor EXCEPT ![w].polled = Len(topic)]
          /\ cursor[w].next = cursor[w].polled
          /\ UNCHANGED <<owner, committed, topic>>
       \/ /\ cursor' = [cursor EXCEPT ![w].applied = TRUE]
          /\ cursor[w].next < cursor[w].polled
          /\ topic[cursor[w].next + 1] \in processed'
          /\ UNCHANGED <<owner, committed, topic>>
       \/ /\ owner = w /\ cursor[w].applied
          /\ committed' = cursor[w].next + 1
          /\ cursor' = [cursor EXCEPT ![w].next = @ + 1, ![w].applied = FALSE]
          /\ UNCHANGED owner

LEMMA CursorMoves == [Next]_vars => Moves
<1> SUFFICES ASSUME [Next]_vars PROVE Moves
  OBVIOUS
<1> USE DEF rows, publishing, consuming, projection, vars, Moves
<1>1. ASSUME NEW m \in Matches, TerminateActiveMatch(m) \/ DeleteRoom(m) \/ LeaseRunsOut(m)
                                 \/ BackoffEnds(m)
      PROVE  Moves
  BY <1>1 DEF TerminateActiveMatch, DeleteRoom, LeaseRunsOut, BackoffEnds
<1>2. ASSUME NEW w \in Workers, Crash(w) \/ Restart(w) \/ ClaimBatch(w) \/ Publish(w)
                                 \/ Mark(w) \/ Assign(w) \/ PollRecords(w)
      PROVE  Moves
  BY <1>2 DEF Crash, Restart, ClaimBatch, Publish, Mark, Assign, PollRecords
<1>3. ASSUME NEW w \in Workers, Handle(w) PROVE Moves
  BY <1>3 DEF Handle, ApplyMatchFinished, duplicate
<1>4. ASSUME NEW w \in Workers, CommitRecords(w) PROVE Moves
  BY <1>4 DEF CommitRecords
<1>5. LosePartition \/ UNCHANGED vars => Moves
  BY DEF LosePartition
<1> QED
  BY <1>1, <1>2, <1>3, <1>4, <1>5 DEF Next

LEMMA ReadingKept ==
  ASSUME TypeOK, Reading, OffsetIsProcessed, [Next]_vars
  PROVE  Reading' /\ OffsetIsProcessed'
<1>1. Grows /\ Moves
  BY TopicGrows, CursorMoves
<1>2. /\ Len(topic) \in Nat /\ Len(topic') \in Nat /\ Len(topic) <= Len(topic')
      /\ \A i \in 1..Len(topic) : topic'[i] = topic[i]
      /\ processed \subseteq processed'
  BY <1>1, TopicKept DEF Grows
<1> DEFINE Cursor == [next : Nat, polled : Nat, applied : BOOLEAN]
<1>3. cursor \in [Workers -> Cursor] /\ committed \in Nat
  BY DEF TypeOK
<1>4. ASSUME NEW w \in Workers
      PROVE  /\ cursor[w].next \in Nat /\ cursor[w].polled \in Nat
             /\ cursor[w].next <= cursor[w].polled /\ cursor[w].polled <= Len(topic')
             /\ cursor[w].applied => /\ cursor[w].next < cursor[w].polled
                                     /\ topic'[cursor[w].next + 1] \in processed'
             /\ owner = w => cursor[w].next = committed
  <2>1. cursor[w] \in Cursor
    BY <1>3
  <2>2. cursor[w].next \in Nat /\ cursor[w].polled \in Nat
    BY <2>1
  <2>3. cursor[w].applied => cursor[w].next + 1 \in 1..Len(topic)
    BY <1>2, <2>2 DEF Reading
  <2> QED
    BY <1>2, <2>2, <2>3 DEF Reading
<1>5. committed <= Len(topic) /\ committed <= Len(topic')
  BY <1>2, <1>3 DEF Reading
<1>6. ASSUME NEW i \in 1..Len(topic'), i <= committed PROVE topic'[i] \in processed'
  BY <1>2, <1>3, <1>5, <1>6 DEF OffsetIsProcessed
<1>7. CASE UNCHANGED <<committed, cursor>> /\ (owner' = owner \/ owner' = NoWorker)
  <2>1. NoWorker \notin Workers
    BY PipelineAssumption
  <2> QED
    BY <1>4, <1>5, <1>6, <1>7, <2>1 DEF Reading, OffsetIsProcessed
<1>8. ASSUME NEW w \in Workers, Stop(w) PROVE Reading' /\ OffsetIsProcessed'
  <2>1. \A v \in Workers : cursor'[v] = IF v = w THEN AtStart ELSE cursor[v]
    BY <1>3, <1>8 DEF Stop
  <2>2. committed' = committed /\ owner' # w /\ (owner' = owner \/ owner' = NoWorker)
    BY <1>8, PipelineAssumption DEF Stop
  <2>3. AtStart.next = 0 /\ AtStart.polled = 0 /\ AtStart.applied = FALSE
    BY DEF AtStart
  <2>4. NoWorker \notin Workers
    BY PipelineAssumption
  <2> QED
    BY <1>2, <1>4, <1>5, <1>6, <2>1, <2>2, <2>3, <2>4 DEF Reading, OffsetIsProcessed
<1>9. ASSUME NEW w \in Workers, NEW c, cursor' = [cursor EXCEPT ![w] = c], committed' = committed,
             owner' = owner \/ (owner = NoWorker /\ owner' = w /\ c.next = committed),
             /\ c.next <= c.polled /\ c.polled <= Len(topic')
             /\ c.applied => c.next < c.polled /\ topic'[c.next + 1] \in processed'
             /\ owner = w => c.next = committed
      PROVE  Reading' /\ OffsetIsProcessed'
  <2>1. \A v \in Workers : cursor'[v] = IF v = w THEN c ELSE cursor[v]
    BY <1>3, <1>9
  <2>2. NoWorker \notin Workers
    BY PipelineAssumption
  <2> QED
    BY <1>4, <1>5, <1>6, <1>9, <2>1, <2>2 DEF Reading, OffsetIsProcessed
<1>10. ASSUME NEW w \in Workers, owner = NoWorker, owner' = w, UNCHANGED committed,
              cursor' = [cursor EXCEPT ![w] = [next |-> committed, polled |-> committed, applied |-> FALSE]]
       PROVE  Reading' /\ OffsetIsProcessed'
  <2> DEFINE c == [next |-> committed, polled |-> committed, applied |-> FALSE]
  <2>1. c.next = committed /\ c.polled = committed /\ c.applied = FALSE
    OBVIOUS
  <2>2. cursor' = [cursor EXCEPT ![w] = c]
    BY <1>10
  <2> HIDE DEF c
  <2>3. /\ c.next <= c.polled /\ c.polled <= Len(topic')
        /\ c.applied => c.next < c.polled /\ topic'[c.next + 1] \in processed'
        /\ c.next = committed
    BY <1>3, <1>5, <2>1
  <2> QED
    BY <1>9, <1>10, <2>2, <2>3
<1>11. ASSUME NEW w \in Workers, cursor' = [cursor EXCEPT ![w].polled = Len(topic)],
              cursor[w].next = cursor[w].polled, UNCHANGED <<owner, committed, topic>>
       PROVE  Reading' /\ OffsetIsProcessed'
  <2>1. PICK c : c = [cursor[w] EXCEPT !.polled = Len(topic)]
    OBVIOUS
  <2>2. cursor[w] \in Cursor
    BY <1>3
  <2>3. c.next = cursor[w].next /\ c.polled = Len(topic) /\ c.applied = cursor[w].applied
    BY <2>1, <2>2
  <2>4. cursor' = [cursor EXCEPT ![w] = c]
    BY <1>11, <2>1
  <2>5. ~cursor[w].applied
    BY <1>4, <1>11
  <2>6. /\ c.next <= c.polled /\ c.polled <= Len(topic')
        /\ c.applied => c.next < c.polled /\ topic'[c.next + 1] \in processed'
        /\ owner = w => c.next = committed
    BY <1>2, <1>4, <1>11, <2>3, <2>5
  <2> QED
    BY <1>9, <1>11, <2>4, <2>6
<1>12. ASSUME NEW w \in Workers, cursor' = [cursor EXCEPT ![w].applied = TRUE],
              cursor[w].next < cursor[w].polled, topic[cursor[w].next + 1] \in processed',
              UNCHANGED <<owner, committed, topic>>
       PROVE  Reading' /\ OffsetIsProcessed'
  <2>1. PICK c : c = [cursor[w] EXCEPT !.applied = TRUE]
    OBVIOUS
  <2>2. cursor[w] \in Cursor
    BY <1>3
  <2>3. c.next = cursor[w].next /\ c.polled = cursor[w].polled /\ c.applied = TRUE
    BY <2>1, <2>2
  <2>4. cursor' = [cursor EXCEPT ![w] = c]
    BY <1>12, <2>1
  <2> QED
    BY <1>4, <1>9, <1>12, <2>3, <2>4
<1>13. ASSUME NEW w \in Workers, owner = w, cursor[w].applied, committed' = cursor[w].next + 1,
              cursor' = [cursor EXCEPT ![w].next = @ + 1, ![w].applied = FALSE], UNCHANGED owner
       PROVE  Reading' /\ OffsetIsProcessed'
  <2>1. PICK c : c = [cursor[w] EXCEPT !.next = @ + 1, !.applied = FALSE]
    OBVIOUS
  <2>2. cursor[w] \in Cursor
    BY <1>3
  <2>3. c.next = cursor[w].next + 1 /\ c.polled = cursor[w].polled /\ c.applied = FALSE
    BY <2>1, <2>2
  <2>4. \A v \in Workers : cursor'[v] = IF v = w THEN c ELSE cursor[v]
    BY <1>3, <1>13, <2>1
  <2>5. /\ cursor[w].next = committed /\ committed' = committed + 1
        /\ committed' <= Len(topic') /\ topic'[committed'] \in processed'
    BY <1>2, <1>3, <1>4, <1>13
  <2>6. OffsetIsProcessed'
    <3> SUFFICES ASSUME NEW i \in 1..Len(topic'), i <= committed' PROVE topic'[i] \in processed'
      BY DEF OffsetIsProcessed
    <3> QED
      BY <1>3, <1>6, <2>5
  <2>7. Reading'
    BY <1>2, <1>3, <1>4, <1>13, <2>3, <2>4, <2>5 DEF Reading
  <2> QED
    BY <2>6, <2>7
<1> QED
  BY <1>1, <1>7, <1>8, <1>10, <1>11, <1>12, <1>13 DEF Moves
----------------------------------------------------------------------------
(* Only the event of a match that has ended is on its way *)

LEMMA HandledRecord ==
  ASSUME TypeOK, Reading, OnlyEnded, NEW w \in Workers, cursor[w].next < cursor[w].polled
  PROVE  /\ topic[cursor[w].next + 1] \in Matches
         /\ match[topic[cursor[w].next + 1]] # "active"
<1>1. /\ cursor[w].next \in Nat /\ cursor[w].polled \in Nat /\ Len(topic) \in Nat
      /\ cursor[w].polled <= Len(topic)
  BY DEF TypeOK, Reading
<1>2. cursor[w].next + 1 \in 1..Len(topic)
  BY <1>1
<1> QED
  BY <1>2 DEF TypeOK, OnlyEnded

\* What a step does to the rows of matches.
LEMMA RowSteps ==
  ASSUME TypeOK, [Next]_vars
  PROVE  \/ \E m \in Matches : TerminateActiveMatch(m)
         \/ UNCHANGED outcome /\ \A m \in Matches : match'[m] = "active" <=> match[m] = "active"
<1> USE DEF rows, publishing, consuming, projection, vars
<1>1. ASSUME NEW m \in Matches, DeleteRoom(m)
      PROVE  UNCHANGED outcome /\ \A n \in Matches : match'[n] = "active" <=> match[n] = "active"
  BY <1>1 DEF DeleteRoom, TypeOK
<1>2. ASSUME NEW m \in Matches, LeaseRunsOut(m) \/ BackoffEnds(m) PROVE UNCHANGED rows
  BY <1>2 DEF LeaseRunsOut, BackoffEnds
<1>3. ASSUME NEW w \in Workers, Crash(w) \/ Restart(w) \/ ClaimBatch(w) \/ Publish(w)
             \/ Mark(w) \/ Assign(w) \/ PollRecords(w) \/ Handle(w) \/ CommitRecords(w)
      PROVE  UNCHANGED rows
  BY <1>3 DEF Crash, Restart, ClaimBatch, Publish, Mark, Assign, PollRecords, Handle, CommitRecords
<1>4. LosePartition \/ UNCHANGED vars => UNCHANGED rows
  BY DEF LosePartition
<1> QED
  BY <1>1, <1>2, <1>3, <1>4 DEF Next

LEMMA EndsOnce ==
  ASSUME TypeOK, NEW n \in Matches, TerminateActiveMatch(n)
  PROVE  /\ match[n] = "active" /\ match'[n] # "active"
         /\ \A m \in Matches \ {n} : /\ match'[m] = match[m] /\ outcome'[m] = outcome[m]
                                     /\ outbox'[m] = outbox[m]
         /\ UNCHANGED <<topic, batch, sending, processed, stats, unlocked>>
BY DEF TerminateActiveMatch, TypeOK, projection

\* The parts of OnlyEnded for the match m.
LEMMA OutboxOfActive ==
  ASSUME TypeOK, OnlyEnded, [Next]_vars, NEW m \in Matches, match[m] = "active",
         match'[m] = "active"
  PROVE  outbox'[m] = NoRow
<1> USE DEF rows, publishing, consuming, projection, vars
<1>1. outbox[m] = NoRow /\ outbox \in [Matches -> Row]
  BY DEF OnlyEnded, TypeOK
<1>2. ~claimable(NoRow) /\ NoRow.lock = "none" /\ NoRow.attempts = 0
  BY DEF claimable, NoRow
<1>3. ASSUME NEW n \in Matches, TerminateActiveMatch(n) PROVE outbox'[m] = outbox[m]
  BY <1>3, EndsOnce
<1>4. ASSUME NEW n \in Matches, LeaseRunsOut(n) \/ BackoffEnds(n)
      PROVE  outbox'[m] = outbox[m]
  <2>1. n # m
    BY <1>1, <1>2, <1>4 DEF LeaseRunsOut, BackoffEnds
  <2> QED
    BY <1>1, <1>4, <2>1 DEF LeaseRunsOut, BackoffEnds
<1>5. ASSUME NEW w \in Workers, ClaimBatch(w) PROVE outbox'[m] = outbox[m]
  BY <1>1, <1>2, <1>5 DEF ClaimBatch
<1>6. ASSUME NEW w \in Workers, Mark(w) PROVE outbox'[m] = outbox[m]
  <2>1. sending[w].claim.match # m
    BY <1>6 DEF Mark, OnlyEnded
  <2> QED
    BY <1>1, <1>6, <2>1 DEF Mark
<1>7. ASSUME NEW w \in Workers, Crash(w) \/ Restart(w) \/ Publish(w) \/ Assign(w)
                                 \/ PollRecords(w) \/ Handle(w) \/ CommitRecords(w)
      PROVE  outbox' = outbox
  BY <1>7 DEF Crash, Restart, Publish, Assign, PollRecords, Handle, CommitRecords
<1>8. ASSUME NEW n \in Matches, DeleteRoom(n) PROVE outbox' = outbox
  BY <1>8 DEF DeleteRoom
<1>9. LosePartition \/ UNCHANGED vars => outbox' = outbox
  BY DEF LosePartition
<1> QED
  BY <1>1, <1>3, <1>4, <1>5, <1>6, <1>7, <1>8, <1>9 DEF Next

LEMMA BatchOfActive ==
  ASSUME TypeOK, OnlyEnded, [Next]_vars, NEW m \in Matches, match[m] = "active",
         NEW v \in Workers, NEW c \in batch'[v]
  PROVE  c.match # m
<1> USE DEF rows, publishing, consuming, projection, vars
<1>1. batch \in [Workers -> SUBSET Claim] /\ outbox[m] = NoRow
  BY DEF OnlyEnded, TypeOK
<1>2. c \in batch[v] => c.match # m
  BY DEF OnlyEnded
<1>3. ASSUME NEW w \in Workers, ClaimBatch(w) PROVE c.match # m
  <2>1. ~claimable(outbox[m])
    BY <1>1 DEF claimable, NoRow
  <2>2. PICK S \in SUBSET {n \in Matches : claimable(outbox[n])} :
          batch' = [batch EXCEPT ![w] =
            {[match |-> n, attempts |-> Attempt(outbox[n])] : n \in S}]
    BY <1>3 DEF ClaimBatch
  <2>3. CASE v = w
    <3>1. PICK n \in S : c = [match |-> n, attempts |-> Attempt(outbox[n])]
      BY <1>1, <2>2, <2>3
    <3>2. c.match = n /\ n # m
      BY <2>1, <3>1
    <3> QED
      BY <3>2
  <2> QED
    BY <1>1, <1>2, <2>2, <2>3
<1>4. ASSUME NEW w \in Workers, Stop(w) \/ Mark(w) PROVE batch'[v] \subseteq batch[v]
  BY <1>1, <1>4 DEF Stop, Mark
<1>5. ASSUME NEW w \in Workers, Restart(w) \/ Publish(w) \/ Assign(w) \/ PollRecords(w)
      PROVE  batch' = batch
  BY <1>5 DEF Restart, Publish, Assign, PollRecords
<1>6. ASSUME NEW w \in Workers, Crash(w) \/ Handle(w) \/ CommitRecords(w)
      PROVE  Stop(w) \/ batch' = batch
  BY <1>6 DEF Crash, Handle, CommitRecords
<1>7. ASSUME NEW n \in Matches, TerminateActiveMatch(n) \/ DeleteRoom(n) \/ LeaseRunsOut(n)
                                 \/ BackoffEnds(n)
      PROVE  batch' = batch
  BY <1>7 DEF TerminateActiveMatch, DeleteRoom, LeaseRunsOut, BackoffEnds
<1>8. LosePartition \/ UNCHANGED vars => batch' = batch
  BY DEF LosePartition
<1> QED
  BY <1>2, <1>3, <1>4, <1>5, <1>6, <1>7, <1>8 DEF Next

LEMMA SendingOfActive ==
  ASSUME TypeOK, OnlyEnded, [Next]_vars, NEW m \in Matches, match[m] = "active",
         NEW v \in Workers, sending'[v] # Idle
  PROVE  sending'[v].claim.match # m
<1>1. CASE sending'[v] = sending[v]
  BY <1>1 DEF OnlyEnded
<1>2. CASE sending'[v] # sending[v]
  <2>1. PICK c \in batch[v], r \in {"ok", "failed"} :
          sending' = [sending EXCEPT ![v] = [claim |-> c, result |-> r]]
    BY <1>2, SendingSteps DEF Publish
  <2>2. sending'[v].claim = c
    BY <2>1 DEF TypeOK
  <2> QED
    BY <2>2 DEF OnlyEnded
<1> QED
  BY <1>1, <1>2

LEMMA TopicOfActive ==
  ASSUME TypeOK, OnlyEnded, [Next]_vars, NEW m \in Matches, match[m] = "active",
         NEW i \in 1..Len(topic')
  PROVE  topic'[i] # m
<1>1. CASE topic' = topic
  BY <1>1 DEF OnlyEnded
<1>2. ASSUME NEW w \in Workers, NEW c \in batch[w], topic' = Append(topic, c.match)
      PROVE  topic'[i] # m
  <2>1. topic \in Seq(Matches) /\ c.match \in Matches /\ c.match # m
    BY DEF TypeOK, Claim, OnlyEnded
  <2>2. i \in 1..Len(topic) \/ topic'[i] = c.match
    BY <1>2, <2>1
  <2>3. i \in 1..Len(topic) => topic'[i] = topic[i]
    BY <1>2, <2>1
  <2> QED
    BY <2>1, <2>2, <2>3 DEF OnlyEnded
<1> QED
  BY <1>1, <1>2, TopicGrows DEF Grows

LEMMA ProcessedSteps ==
  ASSUME TypeOK, Reading, OnlyEnded, [Next]_vars
  PROVE  \/ UNCHANGED projection
         \/ \E m \in Matches : /\ match[m] # "active" /\ m \notin processed
                              /\ ApplyMatchFinished(m) /\ UNCHANGED rows
<1> USE DEF rows, publishing, consuming, projection, vars
<1>1. ASSUME NEW w \in Workers, Handle(w)
      PROVE  \/ UNCHANGED projection
             \/ \E m \in Matches : /\ match[m] # "active" /\ m \notin processed
                                  /\ ApplyMatchFinished(m) /\ UNCHANGED rows
  <2> DEFINE m == topic[cursor[w].next + 1]
  <2>1. m \in Matches /\ match[m] # "active"
    BY <1>1, HandledRecord DEF Handle
  <2> HIDE DEF m
  <2>2. UNCHANGED projection \/ ApplyMatchFinished(m)
    BY <1>1 DEF Handle, m
  <2>3. m \in processed /\ ApplyMatchFinished(m) => UNCHANGED projection
    BY DEF ApplyMatchFinished, duplicate
  <2>4. UNCHANGED rows
    BY <1>1 DEF Handle
  <2> QED
    BY <2>1, <2>2, <2>3, <2>4
<1>2. ASSUME NEW w \in Workers, Crash(w) \/ Restart(w) \/ ClaimBatch(w) \/ Publish(w)
             \/ Mark(w) \/ Assign(w) \/ PollRecords(w) \/ CommitRecords(w)
      PROVE  UNCHANGED projection
  BY <1>2 DEF Crash, Restart, ClaimBatch, Publish, Mark, Assign, PollRecords, CommitRecords
<1>3. ASSUME NEW n \in Matches, TerminateActiveMatch(n) \/ DeleteRoom(n) \/ LeaseRunsOut(n)
                                 \/ BackoffEnds(n)
      PROVE  UNCHANGED projection
  BY <1>3 DEF TerminateActiveMatch, DeleteRoom, LeaseRunsOut, BackoffEnds
<1>4. LosePartition \/ UNCHANGED vars => UNCHANGED projection
  BY DEF LosePartition
<1> QED
  BY <1>1, <1>2, <1>3, <1>4 DEF Next

LEMMA OnlyEndedKept ==
  ASSUME TypeOK, Reading, OnlyEnded, [Next]_vars
  PROVE  OnlyEnded'
<1> SUFFICES ASSUME NEW m \in Matches, match'[m] = "active"
             PROVE  /\ outbox'[m] = NoRow
                    /\ m \notin processed'
                    /\ \A w \in Workers : \A c \in batch'[w] : c.match # m
                    /\ \A w \in Workers : sending'[w] # Idle => sending'[w].claim.match # m
                    /\ \A i \in 1..Len(topic') : topic'[i] # m
  BY DEF OnlyEnded
<1>1. match[m] = "active"
  BY RowSteps, EndsOnce
<1>2. m \notin processed'
  <2>1. m \notin processed
    BY <1>1 DEF OnlyEnded
  <2>2. ASSUME NEW n \in Matches, match[n] # "active", n \notin processed, ApplyMatchFinished(n)
        PROVE  m \notin processed'
    BY <1>1, <2>1, <2>2 DEF ApplyMatchFinished, duplicate, projection
  <2> QED
    BY <2>1, <2>2, ProcessedSteps DEF projection
<1> QED
  BY <1>1, <1>2, OutboxOfActive, BatchOfActive, SendingOfActive, TopicOfActive
----------------------------------------------------------------------------
(* The statistics *)

\* The matches a player won, lost and drew among those counted.
Won(u)   == {m \in Counted : outcome[m].winners = {u}}
Lost(u)  == {m \in Counted : u \notin outcome[m].winners}
Drawn(u) == {m \in Counted : u \in outcome[m].winners /\ outcome[m].winners # {u}}
AllEarned(u) == UNION {Earned(outcome[m], u) : m \in Counted}

LEMMA FittingIs ==
  ASSUME NEW u
  PROVE  Fitting(u) = [matches |-> Cardinality(Counted), wins |-> Cardinality(Won(u)),
                       losses |-> Cardinality(Lost(u)), draws |-> Cardinality(Drawn(u))]
BY DEF Fitting, Won, Lost, Drawn

\* A match that ends changes nothing of what is counted.
LEMMA FittingKept ==
  ASSUME UNCHANGED processed, \A m \in processed : outcome'[m] = outcome[m]
  PROVE  \A u : Fitting(u)' = Fitting(u) /\ AllEarned(u)' = AllEarned(u)
<1>1. Counted' = Counted
  BY DEF Counted, Counts
<1>2. \A m \in Counted : outcome'[m] = outcome[m]
  BY DEF Counted
<1>3. ASSUME NEW u
      PROVE  Won(u)' = Won(u) /\ Lost(u)' = Lost(u) /\ Drawn(u)' = Drawn(u)
             /\ AllEarned(u)' = AllEarned(u)
  BY <1>1, <1>2 DEF Won, Lost, Drawn, AllEarned, Earned
<1> QED
  BY <1>1, <1>3 DEF Fitting, Won, Lost, Drawn

LEMMA OneMore ==
  ASSUME NEW S, NEW T, NEW x, IsFiniteSet(S), x \notin S, NEW P, P \in BOOLEAN,
         T = IF P THEN S \cup {x} ELSE S
  PROVE  /\ Cardinality(S) \in Nat
         /\ Cardinality(T) = Cardinality(S) + IF P THEN 1 ELSE 0
<1>1. Cardinality(S) \in Nat /\ Cardinality(S \cup {x}) = Cardinality(S) + 1
  BY FS_AddElement, FS_CardinalityType
<1> QED
  BY <1>1

\* ApplyMatchFinished adds to the statistics what the match adds to what they must be.
LEMMA FittingGrows ==
  ASSUME TypeOK, IsFiniteSet(processed), NEW m \in Matches, m \notin processed, Counts(m),
         processed' = processed \cup {m}, UNCHANGED outcome, NEW u \in Users
  PROVE  /\ Fitting(u)' = Tally(Fitting(u), outcome[m], u)
         /\ AllEarned(u)' = AllEarned(u) \cup Earned(outcome[m], u)
<1> DEFINE o == outcome[m]
<1>1. Counted' = Counted \cup {m} /\ m \notin Counted
  BY DEF Counted, Counts
<1>2. IsFiniteSet(Counted) /\ IsFiniteSet(Won(u)) /\ IsFiniteSet(Lost(u)) /\ IsFiniteSet(Drawn(u))
  <2>1. IsFiniteSet(Counted)
    BY FS_Subset DEF Counted
  <2> QED
    BY <2>1, FS_Subset DEF Won, Lost, Drawn
<1>3. /\ Won(u)' = IF o.winners = {u} THEN Won(u) \cup {m} ELSE Won(u)
      /\ Lost(u)' = IF u \notin o.winners THEN Lost(u) \cup {m} ELSE Lost(u)
      /\ Drawn(u)' = IF u \in o.winners /\ o.winners # {u} THEN Drawn(u) \cup {m} ELSE Drawn(u)
      /\ AllEarned(u)' = AllEarned(u) \cup Earned(o, u)
  BY <1>1 DEF Won, Lost, Drawn, AllEarned, Earned
<1>4. m \notin Won(u) /\ m \notin Lost(u) /\ m \notin Drawn(u)
  BY <1>1 DEF Won, Lost, Drawn
<1>5. /\ Cardinality(Counted') = Cardinality(Counted) + 1
      /\ Cardinality(Counted) \in Nat
  BY <1>1, <1>2, FS_AddElement, FS_CardinalityType
<1>6. Cardinality(Won(u)') = Cardinality(Won(u)) + IF o.winners = {u} THEN 1 ELSE 0
  BY <1>2, <1>3, <1>4, OneMore
<1>7. Cardinality(Lost(u)') = Cardinality(Lost(u)) + IF u \notin o.winners THEN 1 ELSE 0
  BY <1>2, <1>3, <1>4, OneMore
<1>8. Cardinality(Drawn(u)')
        = Cardinality(Drawn(u)) + IF u \in o.winners /\ o.winners # {u} THEN 1 ELSE 0
  BY <1>2, <1>3, <1>4, OneMore
<1>9. Fitting(u)' = [matches |-> Cardinality(Counted'), wins |-> Cardinality(Won(u)'),
                     losses |-> Cardinality(Lost(u)'), draws |-> Cardinality(Drawn(u)')]
  BY DEF Fitting, Won, Lost, Drawn
<1>10. Fitting(u)' = Tally(Fitting(u), o, u)
  BY <1>5, <1>6, <1>7, <1>8, <1>9, FittingIs DEF Tally
<1> QED
  BY <1>3, <1>10

LEMMA StatsKept ==
  ASSUME TypeOK, Reading, OnlyEnded, IsFiniteSet(processed), StatsFollowResults, [Next]_vars
  PROVE  IsFiniteSet(processed') /\ StatsFollowResults'
<1>1. /\ \A m \in processed : match[m] # "active"
      /\ \A u \in Users : stats[u] = Fitting(u) /\ unlocked[u] = AllEarned(u)
  BY DEF StatsFollowResults, AllEarned
<1>2. processed \subseteq Matches
  BY DEF TypeOK
<1>3. SUFFICES /\ IsFiniteSet(processed')
               /\ \A m \in processed' : match'[m] # "active"
               /\ \A u \in Users : stats'[u] = Fitting(u)' /\ unlocked'[u] = AllEarned(u)'
  BY DEF StatsFollowResults, AllEarned
<1>4. CASE UNCHANGED projection
  <2>1. \A m \in processed : match'[m] # "active" /\ outcome'[m] = outcome[m]
    BY <1>1, <1>2, RowSteps, EndsOnce
  <2> QED
    BY <1>1, <1>4, <2>1, FittingKept DEF projection
<1>5. ASSUME NEW m \in Matches, match[m] # "active", m \notin processed, ApplyMatchFinished(m),
             UNCHANGED rows
      PROVE  /\ IsFiniteSet(processed')
             /\ \A n \in processed' : match'[n] # "active"
             /\ \A u \in Users : stats'[u] = Fitting(u)' /\ unlocked'[u] = AllEarned(u)'
  <2>1. processed' = processed \cup {m} /\ UNCHANGED <<match, outcome>>
    BY <1>5 DEF ApplyMatchFinished, duplicate, rows
  <2>2. IsFiniteSet(processed')
    BY <2>1, FS_AddElement
  <2>3. CASE Counts(m)
    <3>1. \A u \in Users : /\ stats'[u] = Tally(stats[u], outcome[m], u)
                           /\ unlocked'[u] = unlocked[u] \cup Earned(outcome[m], u)
      BY <1>5, <2>3 DEF ApplyMatchFinished, duplicate
    <3> QED
      BY <1>1, <1>5, <2>1, <2>2, <2>3, <3>1, FittingGrows
  <2>4. CASE ~Counts(m)
    <3>1. UNCHANGED <<stats, unlocked>>
      BY <1>5, <2>4 DEF ApplyMatchFinished, duplicate
    <3>2. Counted' = Counted
      BY <2>1, <2>4 DEF Counted, Counts
    <3>3. \A u : Fitting(u)' = Fitting(u) /\ AllEarned(u)' = AllEarned(u)
      BY <2>1, <3>2 DEF Fitting, AllEarned
    <3> QED
      BY <1>1, <1>5, <2>1, <2>2, <3>1, <3>3
  <2> QED
    BY <2>3, <2>4
<1> QED
  BY <1>4, <1>5, ProcessedSteps

----------------------------------------------------------------------------
(* The theorems *)

LEMMA InitInv == Init => IInv
<1> SUFFICES ASSUME Init PROVE IInv
  OBVIOUS
<1>1. TypeOK
  BY InitTyped
<1>2. OnlyEnded /\ Arrived /\ PublishedWasSent
  BY DEF Init, OnlyEnded, Arrived, PublishedWasSent, Idle, NoRow
<1>3. Reading /\ OffsetIsProcessed
  BY PipelineAssumption DEF Init, Reading, OffsetIsProcessed, AtStart
<1>4. IsFiniteSet(processed)
  BY FS_EmptySet DEF Init
<1>5. StatsFollowResults
  <2>1. Counted = {} /\ processed = {}
    BY DEF Init, Counted
  <2>2. Cardinality({}) = 0
    BY FS_EmptySet
  <2>3. \A u : Fitting(u) = NoStats
    BY <2>1, <2>2 DEF Fitting, NoStats
  <2> QED
    BY <2>1, <2>3 DEF Init, StatsFollowResults
<1> QED
  BY <1>1, <1>2, <1>3, <1>4, <1>5 DEF IInv

LEMMA NextInv == IInv /\ [Next]_vars => IInv'
BY NextTyped, OnlyEndedKept, ArrivedKept, PublishedKept, ReadingKept, StatsKept DEF IInv

LEMMA Inductive == Spec => []IInv
BY InitInv, NextInv, PTL DEF Spec

\* The publisher loses nothing: however often leases run out, calls fail and workers
\* die between ClaimBatch, Publish and MarkPublished, a row that is marked was sent.
THEOREM NothingIsLost == Spec => []PublishedWasSent
<1>1. IInv => PublishedWasSent
  BY DEF IInv
<1> QED
  BY <1>1, Inductive, PTL

\* Worker.consume never commits past a record that is not projected, whoever owns the
\* partition when.
THEOREM OffsetsAreSafe == Spec => []OffsetIsProcessed
<1>1. IInv => OffsetIsProcessed
  BY DEF IInv
<1> QED
  BY <1>1, Inductive, PTL

\* ApplyMatchFinished counts each completed match exactly once for each registered
\* player, for any number of matches, players, workers and faults.
THEOREM StatisticsAreExact == Spec => []StatsFollowResults
<1>1. IInv => StatsFollowResults
  BY DEF IInv
<1> QED
  BY <1>1, Inductive, PTL
=============================================================================
