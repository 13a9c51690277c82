------------------------------ MODULE MC_NatNeg ------------------------------
(* Instances of NatNeg for TLC.                                            *)
EXTENDS NatNeg

\* A session of two that keep retrying, the first from two ports, and one of
\* three that do as they like.
CONSTANTS pair, crowd, e1, e2

MCPunctual == {pair} \X {0, 1}
MCInits == {<<pair, 0, e1>>, <<pair, 0, e2>>, <<pair, 1, e1>>,
            <<crowd, 0, e1>>, <<crowd, 1, e2>>, <<crowd, 2, e1>>}
=============================================================================
