----------------------------- MODULE MCGTPClient -----------------------------
(***************************************************************************)
(* Small sets of calls on one GTP-C client.                                *)
(***************************************************************************)
EXTENDS GTPClient, TLC

CONSTANTS c1, c2, c3, c4, c5, c6

CreateAndDelete == c1 :> "create" @@ c2 :> "delete"
AllKinds == c1 :> "create" @@ c2 :> "create" @@ c3 :> "delete"
            @@ c4 :> "echo" @@ c5 :> "echo" @@ c6 :> "echo"

NoProbe == <<>>
ThreeProbes == <<c4, c5, c6>>

\* Bound: of AllKinds the two creates are made, or the delete and the three
\* echos.
FewCalls ==
  LET Made(k) == \E p \in Call : Kind[p] = k /\ ~At(p, "idle")
  IN Made("create") => ~Made("delete") /\ ~Made("echo")

CreateSymmetry == Permutations({c1, c2})

=============================================================================
