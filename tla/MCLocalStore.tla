---------------------------- MODULE MCLocalStore ----------------------------
(* Model values for LocalStore: one account, two chats, one request twice.  *)
EXTENDS LocalStore

CONSTANTS t1, t2, t3, c1, c2, o1, r1, r2

TwoChats == [t \in Turns |-> IF t = t3 THEN c2 ELSE c1]
Repeated == [t \in Turns |-> IF t = t2 THEN r2 ELSE r1]
OneOwner == [c \in Chats |-> o1]
=============================================================================
