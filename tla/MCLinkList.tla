----------------------------- MODULE MCLinkList -----------------------------
(* Instances of LinkList for TLC. *)
EXTENDS LinkList, TLC

CONSTANTS h1, h2, n1, n2, n3

TwoHeads == {h1, h2}
ThreeNodes == {n1, n2, n3}
=============================================================================
