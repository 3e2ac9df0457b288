------------------------------ MODULE WsTicket ------------------------------
(***************************************************************************)
(* One-time tickets that open realtime connections.  A ticket is a key in  *)
(* Redis, changed by the scripts of internal/ws_ticket/store/redis.go; a   *)
(* handshake is the server's side of one connection attempt, with the      *)
(* ticketHandshake of internal/ws/context.go that commits or releases the  *)
(* ticket.  The request's context can end at any moment, and a Redis call  *)
(* can fail before or after it took effect.                                *)
(***************************************************************************)
EXTENDS Naturals, FiniteSets

CONSTANTS
  Tickets,     \* ticket values, each issued at most once
  Handshakes,  \* connection attempts, on any replica
  NoTicket,
  MaxFailures  \* bound: Redis calls that fail

ASSUME TicketAssumption == NoTicket \notin Tickets /\ MaxFailures \in Nat

VARIABLES
  key,        \* the ticket's key in Redis
  pc,         \* where a connection attempt is
  ticket,     \* ticketHandshake.ticket
  finished,   \* ticketHandshake.finished
  ctxDone,    \* the attempt's request context has ended
  failures    \* Redis failures left

vars == <<key, pc, ticket, finished, ctxDone, failures>>

Init ==
  /\ key = [t \in Tickets |-> "unissued"]
  /\ pc = [h \in Handshakes |-> "new"]
  /\ ticket = [h \in Handshakes |-> NoTicket]
  /\ finished = [h \in Handshakes |-> FALSE]
  /\ ctxDone = [h \in Handshakes |-> FALSE]
  /\ failures = MaxFailures

Failure == failures > 0 /\ failures' = failures - 1

\* The scripts.  A missing key is one that expired or was deleted.
\* (mutant) the reserved flag is not looked at
canReserveAny(t) == key[t] \in {"free", "reserved"}
canReserve(t) == key[t] = "free"
canCommit(t) == key[t] = "reserved"
\* (mutants) a release forgets that the key may be gone, or does nothing
releasedAlways(t) == "free"
releasedNever(t) == key[t]
released(t) == IF key[t] = "reserved" THEN "free" ELSE key[t]

\* Create: SET NX PX
Create(t) ==
  /\ key[t] = "unissued"
  /\ key' = [key EXCEPT ![t] = "free"]
  /\ UNCHANGED <<pc, ticket, finished, ctxDone, failures>>

\* The key's time to live runs out, reserved or not (KEEPTTL).
Expire(t) ==
  /\ key[t] \in {"free", "reserved"}
  /\ key' = [key EXCEPT ![t] = "gone"]
  /\ UNCHANGED <<pc, ticket, finished, ctxDone, failures>>

\* authenticate: a ticket that cannot be reserved is answered 401; when the reply
\* is lost the ticket stays reserved and nobody will release it.
Authenticate(h, t) ==
  /\ pc[h] = "new"
  /\ key[t] # "unissued"
  /\ \/ /\ canReserve(t)
        /\ key' = [key EXCEPT ![t] = "reserved"]
        /\ \/ /\ pc' = [pc EXCEPT ![h] = "connecting"]
              /\ ticket' = [ticket EXCEPT ![h] = t]
              /\ UNCHANGED failures
           \/ /\ pc' = [pc EXCEPT ![h] = "refused"]
              /\ Failure
              /\ UNCHANGED ticket
     \/ /\ ~canReserve(t)
        /\ pc' = [pc EXCEPT ![h] = "refused"]
        /\ UNCHANGED <<key, ticket, failures>>
  /\ UNCHANGED <<finished, ctxDone>>

\* The client goes away or the handler returns: the request's context ends.
ContextEnds(h) ==
  /\ pc[h] \in {"connecting", "admitted", "disconnected"}
  /\ ~ctxDone[h]
  /\ ctxDone' = [ctxDone EXCEPT ![h] = TRUE]
  /\ UNCHANGED <<key, pc, ticket, finished, failures>>

\* The goroutine of wrapTransportHandler: ticketHandshake.Release.  Its Redis
\* error is ignored.
Release(h) ==
  /\ ctxDone[h]
  /\ ~finished[h]
  /\ finished' = [finished EXCEPT ![h] = TRUE]
  /\ \/ key' = [key EXCEPT ![ticket[h]] = released(ticket[h])] /\ UNCHANGED failures
     \/ Failure /\ UNCHANGED key
  /\ UNCHANGED <<pc, ticket, ctxDone>>

\* (mutant) what the client is told does not depend on the ticket
OnConnectAnyway(h) ==
  /\ pc[h] = "connecting"
  /\ pc' = [pc EXCEPT ![h] = "admitted"]
  /\ finished' = [finished EXCEPT ![h] = TRUE]
  /\ UNCHANGED <<key, ticket, ctxDone, failures>>

\* onConnect: ticketHandshake.Commit, then the connection is registered, or
\* disconnected when the ticket cannot be consumed.  A handshake that is already
\* finished commits nothing and succeeds.
OnConnect(h) ==
  LET t == ticket[h]
  IN /\ pc[h] = "connecting"
     /\ \/ /\ finished[h]
           /\ pc' = [pc EXCEPT ![h] = "admitted"]
           /\ UNCHANGED <<key, finished, failures>>
        \/ /\ ~finished[h] /\ canCommit(t)
           /\ key' = [key EXCEPT ![t] = "gone"]
           /\ pc' = [pc EXCEPT ![h] = "admitted"]
           /\ finished' = [finished EXCEPT ![h] = TRUE]
           /\ UNCHANGED failures
        \/ /\ ~finished[h] /\ ~canCommit(t)
           /\ pc' = [pc EXCEPT ![h] = "disconnected"]
           /\ UNCHANGED <<key, finished, failures>>
        \/ /\ ~finished[h]
           /\ \/ UNCHANGED key
              \/ canCommit(t) /\ key' = [key EXCEPT ![t] = "gone"]
           /\ pc' = [pc EXCEPT ![h] = "disconnected"]
           /\ Failure
           /\ UNCHANGED finished
     /\ UNCHANGED <<ticket, ctxDone>>

\* The replica dies: what its attempts reserved stays reserved until it expires.
Crash(h) ==
  /\ pc[h] \in {"connecting", "admitted", "disconnected"}
  /\ Failure
  /\ pc' = [pc EXCEPT ![h] = "refused"]
  /\ finished' = [finished EXCEPT ![h] = TRUE]
  /\ UNCHANGED <<key, ticket, ctxDone>>

Next ==
  \/ \E t \in Tickets : Create(t) \/ Expire(t)
  \/ \E h \in Handshakes :
       \/ \E t \in Tickets : Authenticate(h, t)
       \/ ContextEnds(h) \/ Release(h) \/ OnConnect(h) \/ Crash(h)

Spec == Init /\ [][Next]_vars

\* A connection that is not admitted is closed in the end, by its client or by the
\* server (stale or disconnected); the release goroutine then runs.  Nothing makes
\* a client complete its handshake.
Fairness ==
  \A h \in Handshakes : /\ WF_vars(Release(h))
                        /\ WF_vars(pc[h] # "admitted" /\ ContextEnds(h))
FairSpec == Spec /\ Fairness
-----------------------------------------------------------------------------
Holds(h, t) == ticket[h] = t /\ ~finished[h]
Admitted(t) == {h \in Handshakes : ticket[h] = t /\ pc[h] = "admitted"}

TypeOK ==
  /\ key \in [Tickets -> {"unissued", "free", "reserved", "gone"}]
  /\ pc \in [Handshakes -> {"new", "refused", "connecting", "admitted", "disconnected"}]
  /\ ticket \in [Handshakes -> Tickets \cup {NoTicket}]
  /\ finished \in [Handshakes -> BOOLEAN]
  /\ ctxDone \in [Handshakes -> BOOLEAN]
  /\ failures \in 0..MaxFailures

\* Two attempts never work with one ticket at the same time, wherever their
\* contexts end and their Redis calls fail: a ticket that is free is held by
\* nobody, and a ticket is held by one attempt (reserve and release scripts).
HeldByOne ==
  \A t \in Tickets :
    /\ key[t] = "free" => \A h \in Handshakes : ~Holds(h, t)
    /\ Cardinality({h \in Handshakes : Holds(h, t)}) <= 1

\* While its context lives, an attempt is admitted only by consuming its ticket:
\* the ticket's key is gone and stays gone (commit script, KEEPTTL).
AdmissionConsumes ==
  \A h \in Handshakes : pc[h] = "admitted" /\ ~ctxDone[h] => key[ticket[h]] = "gone"

\* A consumed or expired ticket never comes back: no late release revives it.
GoneForEver == [][\A t \in Tickets : key[t] = "gone" => key'[t] = "gone"]_vars

\* A ticket whose connection attempt is over is usable again or gone, unless a
\* Redis call failed: a client is not locked out by its own aborted attempt.
NotLeftReserved ==
  \A t \in Tickets :
    (key[t] = "reserved") ~> (key[t] # "reserved" \/ failures < MaxFailures)

\* README.md:6 calls the tickets one-time ("одноразовых WebSocket-тикетов"): a
\* ticket admits at most one connection.
OneTime == \A t \in Tickets : Cardinality(Admitted(t)) <= 1
=============================================================================
