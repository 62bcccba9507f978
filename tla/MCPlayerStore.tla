---------------------------- MODULE MCPlayerStore ----------------------------
(* Instance of PlayerStore: an account of an earlier deployment, and one    *)
(* that is spelled in two ways and does not exist yet.                      *)
EXTENDS PlayerStore, TLC

CONSTANTS w1, w2, ann, bob, p1, p2

MCName == {"Ann", "ann", "bob", "b/"}
MCPath == [n \in MCName |-> CASE n = "bob" -> bob
                               [] n = "b/" -> None
                               [] OTHER -> ann]
MCExisting == ann :> None @@ bob :> p1

Symmetric == Permutations({w1, w2})
=============================================================================
