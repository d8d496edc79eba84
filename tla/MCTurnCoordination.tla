-------------------------- MODULE MCTurnCoordination --------------------------
(* Model values for the runs of TurnCoordination: one turn of one account. *)
EXTENDS TurnCoordination, TLC

CONSTANTS t1, c1, o1, r1

OneChatOf == [t \in Turns |-> c1]
OneRequestOf == [t \in Turns |-> r1]
OneOwnerOf == [c \in Chats |-> o1]

WorkerSymmetry == Permutations(Workers)
=============================================================================
