------------------------------- MODULE MCPanel -------------------------------
(***************************************************************************)
(* The pages of the panel on a small instance.                             *)
(***************************************************************************)
EXTENDS Panel

\* A root with a directory and a file, and a file in the directory.
MCFilesPaths == {<<>>, <<"d">>, <<"f">>, <<"d", "f">>}
MCFilesEditable == {<<"f">>, <<"d", "f">>}
MCFilesDisk == [p \in MCFilesPaths |-> IF p \in {<<>>, <<"d">>} THEN Dir ELSE "a"]

\* Version v1 is enabled, v2 installed, v3 can be had from two archives.
MCPiVersionOf == [a \in {"a3", "b3"} |-> "v3"]
MCPiRefs == ("url" :> {"r1", "r2"}) @@ ("catalog" :> {"r1"})
MCPiUpstream == [r \in {"r1", "r2"} |-> "a3"]
MCPiRegistry == ("v1" :> "enabled") @@ ("v2" :> "installed") @@ ("v3" :> "absent")

\* The access log of a site, and the jobs.
MCLgSources == <<<<"access", "a">>, <<"job", "none">>>>
MCLgDefault == <<<<"access", "a">>, "q1">>

\* One site, active and without a certificate.
MCWsRows == <<[dom |-> "a", active |-> TRUE, ssl |-> FALSE]>>
=============================================================================
