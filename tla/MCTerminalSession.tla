------------------------- MODULE MCTerminalSession -------------------------
(* Instances of TerminalSession for TLC: websockets are alike, and so are   *)
(* the browser tabs.                                                        *)
EXTENDS TerminalSession, TLC

TabSymmetry == Permutations(Conns) \cup Permutations(Clients)
=============================================================================
