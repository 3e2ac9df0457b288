SPECIFICATION FairSpec
CONSTANTS
  t1 = t1
  t2 = t2
  h1 = h1
  h2 = h2
  h3 = h3
  Tickets = {t1, t2}
  Handshakes = {h1, h2, h3}
  NoTicket = NoTicket
  MaxFailures = 1
INVARIANTS HeldByOne AdmissionConsumes
PROPERTIES GoneForEver NotLeftReserved
CHECK_DEADLOCK FALSE
