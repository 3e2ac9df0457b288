----------------------------- MODULE MCWsTicket -----------------------------
\* Two tickets and three connection attempts: a ticket can be tried by two
\* attempts at once and again by a third one after the first has ended.
EXTENDS WsTicket

CONSTANTS t1, t2, h1, h2, h3
=============================================================================
