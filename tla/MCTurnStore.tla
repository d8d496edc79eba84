----------------------------- MODULE MCTurnStore -----------------------------
(* Model values for the runs of TurnStore on its own.                      *)
EXTENDS TurnStore, TLC

CONSTANTS t1, t2, t3, c1, c2, o1, r1, r2

\* t1 and t2 share a chat, t3 has another one.
SharedChatOf == [t \in Turns |-> IF t = t3 THEN c2 ELSE c1]
\* t1 and t3 are one request of one account, posted to two chats.
RepeatedOf == [t \in Turns |-> IF t = t2 THEN r2 ELSE r1]
OneOwnerOf == [c \in Chats |-> o1]

WorkerSymmetry == Permutations(Workers)
==============================================================================
