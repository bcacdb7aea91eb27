----------------------------- MODULE MCRegistry -----------------------------
(* A small registry: one hive, three keys, two values a key; programs that     *)
(* work on the tree, on the values of a key, or inside a query.                *)
EXTENDS RtlRegistry

VARIABLE profile
mcVars == <<profile, rtlVars>>
A == 65
a == 97
U == 95
MCPaths == {<<>>, <<a>>, <<A, 92, U>>, <<92, U>>, <<U, U, U>>}
MCNames == {<<>>, <<a>>}
MCData == {<<>>, <<0, 1>>, <<1>>}
Entry(f, n) == [flags |-> f, name |-> n]
MCTables == {<<Entry({"noexpand"}, NoName)>>, <<Entry({"delete", "required"}, NoName), Entry({"topkey"}, <<a>>)>>,
             <<Entry({"subkey", "novalue"}, NoName), Entry({"direct"}, NoName)>>}

MCInit == RegInit /\ profile \in {"tree", "values", "query"}
MCNext ==
    /\ \/ profile = "tree" /\ (KeyOps \/ \E h \in Handles : SetValueOp(h, <<a>>, "sz", <<1>>, 1) \/ DeleteValueOp(h, <<A>>))
       \/ profile = "values" /\ \E n \in MCNames : ValueOps(0, n)
       \/ profile = "query" /\ \/ CreateKeyOp(0, <<a>>) \/ DeleteKeyOp(1, <<>>)
                               \/ \E n \in MCNames, t \in Types, d \in {<<1>>, <<0, 1>>} : SetValueOp(1, n, t, d, Len(d))
                               \/ DeleteValueOp(1, <<a>>)
                               \/ RtlQueryRegistryValues \/ RtlEntry \/ RtlValue \/ RtlEnum \/ RtlReturn
                               \/ RtlAborted
    /\ UNCHANGED profile
MCSpec == MCInit /\ [][MCNext]_mcVars /\ WF_mcVars(RtlSteps /\ UNCHANGED profile)
=============================================================================
