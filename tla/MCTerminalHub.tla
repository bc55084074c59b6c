--------------------------- MODULE MCTerminalHub ---------------------------
(* Instances of TerminalHub for TLC.                                        *)
EXTENDS TerminalHub, TLC

CONSTANTS a, b, c, u1, u2

MCOneUser == a :> u1 @@ b :> u1
MCA == a :> u1
MCThreeIds == a :> u1 @@ b :> u1 @@ c :> u1
MCTwoUsers == a :> u1 @@ b :> u2

InstSymmetry == Permutations(Insts) \cup Permutations(Requests)

\* Sound only with one user: ids of one user are alike.
IdSymmetry == InstSymmetry \cup Permutations(Ids)

=============================================================================
