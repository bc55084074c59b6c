----------------------------- MODULE MCJobRuns -----------------------------
(* Values of JobRuns's constants for TLC.                                   *)
EXTENDS JobRuns

\* One tick a minute, three minutes an hour, two hours a day, two days a month.
MCScale == [min |-> 1, hour |-> 3, day |-> 2, month |-> 2]
=============================================================================
