----------------------------- MODULE MCPamWire -----------------------------
(* PamWire for TLC.                                                        *)
EXTENDS PamWire

\* a stack with the password after another line, and one without auth lines
MCOriginals == {<<"comment", "auth", "rest">>, <<"rest">>}
=============================================================================
