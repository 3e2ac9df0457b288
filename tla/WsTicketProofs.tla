--------------------------- MODULE WsTicketProofs ---------------------------
(***************************************************************************)
(* The tickets' guarantees for any number of tickets, connection attempts  *)
(* and Redis failures.                                                     *)
(***************************************************************************)
EXTENDS WsTicket, FiniteSetTheorems, TLAPS

Started(h) == pc[h] \in {"connecting", "admitted", "disconnected"}

\* What an attempt knows: it has a ticket once it has started, its context ends
\* only then, and a finished attempt that is not admitted yet was released.
Attempts ==
  \A h \in Handshakes :
    /\ Started(h) \/ finished[h] => ticket[h] \in Tickets
    /\ pc[h] = "new" => ticket[h] = NoTicket
    /\ ctxDone[h] => ticket[h] \in Tickets
    /\ finished[h] /\ pc[h] = "connecting" => ctxDone[h]
    /\ pc[h] = "admitted" => finished[h]

\* A held ticket is reserved, or expired meanwhile, and has one holder.
Held ==
  /\ \A t \in Tickets, h \in Handshakes : Holds(h, t) => key[t] \in {"reserved", "gone"}
  /\ \A t \in Tickets, h, g \in Handshakes : Holds(h, t) /\ Holds(g, t) => h = g

IInv == TypeOK /\ Attempts /\ Held /\ AdmissionConsumes

LEMMA InitIInv == Init => IInv
  BY TicketAssumption DEF Init, IInv, TypeOK, Attempts, Held, AdmissionConsumes, Holds, Started

LEMMA FailureType == ASSUME TypeOK, Failure \/ UNCHANGED failures PROVE failures' \in 0..MaxFailures
  BY TicketAssumption DEF TypeOK, Failure

LEMMA CreateIInv == ASSUME IInv, NEW t \in Tickets, Create(t) PROVE IInv'
  BY DEF Create, IInv, TypeOK, Attempts, Held, AdmissionConsumes, Holds, Started

LEMMA ExpireIInv == ASSUME IInv, NEW t \in Tickets, Expire(t) PROVE IInv'
  BY DEF Expire, IInv, TypeOK, Attempts, Held, AdmissionConsumes, Holds, Started

LEMMA AuthenticateIInv ==
  ASSUME IInv, NEW h \in Handshakes, NEW t \in Tickets, Authenticate(h, t) PROVE IInv'
<1>1. TypeOK'
  BY FailureType DEF Authenticate, IInv, TypeOK
<1>2. Attempts'
  BY TicketAssumption DEF Authenticate, IInv, TypeOK, Attempts, Started
<1>3. Held'
  BY TicketAssumption DEF Authenticate, IInv, TypeOK, Attempts, Held, Holds, canReserve
<1>4. AdmissionConsumes'
  BY DEF Authenticate, IInv, TypeOK, Attempts, AdmissionConsumes, canReserve, Started
<1>5. QED
  BY <1>1, <1>2, <1>3, <1>4 DEF IInv

LEMMA ContextEndsIInv ==
  ASSUME IInv, NEW h \in Handshakes, ContextEnds(h) PROVE IInv'
  BY DEF ContextEnds, IInv, TypeOK, Attempts, Held, AdmissionConsumes, Holds, Started

LEMMA ReleaseIInv == ASSUME IInv, NEW h \in Handshakes, Release(h) PROVE IInv'
<1>1. TypeOK'
  BY FailureType DEF Release, IInv, TypeOK, released
<1>2. Attempts'
  BY DEF Release, IInv, TypeOK, Attempts, Started
<1>3. Held'
  BY DEF Release, IInv, TypeOK, Attempts, Held, Holds, released
<1>4. AdmissionConsumes'
  BY DEF Release, IInv, TypeOK, Attempts, AdmissionConsumes, released
<1>5. QED
  BY <1>1, <1>2, <1>3, <1>4 DEF IInv

LEMMA OnConnectIInv == ASSUME IInv, NEW h \in Handshakes, OnConnect(h) PROVE IInv'
<1>1. TypeOK'
  BY FailureType DEF OnConnect, IInv, TypeOK
<1>2. Attempts'
  BY DEF OnConnect, IInv, TypeOK, Attempts, Started
<1>3. Held'
  BY DEF OnConnect, IInv, TypeOK, Attempts, Held, Holds, Started
<1>4. AdmissionConsumes'
  BY DEF OnConnect, IInv, TypeOK, Attempts, AdmissionConsumes, Started
<1>5. QED
  BY <1>1, <1>2, <1>3, <1>4 DEF IInv

LEMMA CrashIInv == ASSUME IInv, NEW h \in Handshakes, Crash(h) PROVE IInv'
  BY FailureType DEF Crash, IInv, TypeOK, Attempts, Held, AdmissionConsumes, Holds, Started

LEMMA NextIInv == IInv /\ [Next]_vars => IInv'
<1> SUFFICES ASSUME IInv, [Next]_vars PROVE IInv'
  OBVIOUS
<1>1. CASE UNCHANGED vars
  BY <1>1 DEF vars, IInv, TypeOK, Attempts, Held, AdmissionConsumes, Holds, Started
<1>2. CASE Next
  BY <1>2, CreateIInv, ExpireIInv, AuthenticateIInv, ContextEndsIInv, ReleaseIInv,
     OnConnectIInv, CrashIInv DEF Next
<1>3. QED
  BY <1>1, <1>2

\* At most one holder, counted.
LEMMA HeldCounts == IInv => HeldByOne
<1> SUFFICES ASSUME IInv, NEW t \in Tickets
             PROVE  /\ key[t] = "free" => \A h \in Handshakes : ~Holds(h, t)
                    /\ Cardinality({h \in Handshakes : Holds(h, t)}) <= 1
  BY DEF HeldByOne
<1> DEFINE H == {h \in Handshakes : Holds(h, t)}
<1>1. key[t] = "free" => \A h \in Handshakes : ~Holds(h, t)
  BY DEF IInv, Held
<1>2. CASE H = {}
  BY <1>1, <1>2, FS_EmptySet
<1>3. CASE H # {}
  <2>1. PICK h \in Handshakes : H = {h}
    BY <1>3 DEF IInv, Held
  <2>2. Cardinality(H) = 1
    BY <2>1, FS_Singleton
  <2>3. QED
    BY <1>1, <2>2
<1>4. QED
  BY <1>2, <1>3

\* Two connection attempts never work with one ticket at the same time, whatever
\* Redis calls fail, contexts end or replicas die.
THEOREM TicketsAreExclusive == Spec => []HeldByOne
<1>1. Init => IInv
  BY InitIInv
<1>2. IInv /\ [Next]_vars => IInv'
  BY NextIInv
<1>3. IInv => HeldByOne
  BY HeldCounts
<1>4. QED
  BY <1>1, <1>2, <1>3, PTL DEF Spec

\* An attempt whose request is still alive is admitted only by consuming its ticket.
THEOREM AdmittedByConsuming == Spec => []AdmissionConsumes
<1>1. Init => IInv
  BY InitIInv
<1>2. IInv /\ [Next]_vars => IInv'
  BY NextIInv
<1>3. IInv => AdmissionConsumes
  BY DEF IInv
<1>4. QED
  BY <1>1, <1>2, <1>3, PTL DEF Spec

LEMMA GoneStays ==
  ASSUME IInv, [Next]_vars, NEW t \in Tickets, key[t] = "gone"
  PROVE  key'[t] = "gone"
<1>1. key \in [Tickets -> {"unissued", "free", "reserved", "gone"}]
  BY DEF IInv, TypeOK
<1>2. ASSUME NEW u \in Tickets, Create(u) \/ Expire(u) PROVE key'[t] = "gone"
  BY <1>1, <1>2 DEF Create, Expire
<1>3. ASSUME NEW h \in Handshakes, NEW u \in Tickets, Authenticate(h, u) PROVE key'[t] = "gone"
  BY <1>1, <1>3 DEF Authenticate, canReserve
<1>4. ASSUME NEW h \in Handshakes, Release(h) PROVE key'[t] = "gone"
  BY <1>1, <1>4 DEF Release, released
<1>5. ASSUME NEW h \in Handshakes, OnConnect(h) PROVE key'[t] = "gone"
  BY <1>1, <1>5 DEF OnConnect
<1>6. ASSUME NEW h \in Handshakes, ContextEnds(h) \/ Crash(h) PROVE key'[t] = "gone"
  BY <1>6 DEF ContextEnds, Crash
<1>7. CASE UNCHANGED vars
  BY <1>7 DEF vars
<1>8. QED
  BY <1>2, <1>3, <1>4, <1>5, <1>6, <1>7 DEF Next

\* A ticket that was consumed or has expired never comes back, however late the
\* release of an attempt that had reserved it reaches Redis (release script, KEEPTTL).
THEOREM GoneIsForEver == Spec => GoneForEver
<1>1. IInv /\ [Next]_vars => [\A t \in Tickets : key[t] = "gone" => key'[t] = "gone"]_vars
  BY GoneStays
<1>2. QED
  BY InitIInv, NextIInv, <1>1, PTL DEF Spec, GoneForEver
=============================================================================
