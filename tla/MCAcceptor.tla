----------------------------- MODULE MCAcceptor -----------------------------
(* Instances of Acceptor for TLC: who the handler is in each run. *)
EXTENDS Acceptor, TLC

CONSTANTS c1, c2, c3

TwoConns == {c1, c2}
ThreeConns == {c1, c2, c3}

AnyAnswer == SUBSET Flags                    \* the callback may return anything
Never == {{}}                          \* always 0
MayHaveMore == {{}, {"more"}}          \* never result_disconnect
MayDisconnect == {{}, {"disconnect"}}  \* never result_more_data

ConnSymmetry == Permutations(Conn)
=============================================================================
