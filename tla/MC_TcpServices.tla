--------------------------- MODULE MC_TcpServices ---------------------------
(* Instances of TcpServices for TLC.                                       *)
EXTENDS TcpServices

\* A marker that overlaps itself, as "\final\" does.
MCMarker == <<"separator", "text", "separator">>

\* Nothing, a byte, the largest body within the limit, too much, and a
\* length that wraps.
MCDeclared == {0, 1, 2, Limit - Prefix, Limit + 1, SizeMod - 2}
=============================================================================
