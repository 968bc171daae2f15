--------------------------- MODULE MCTonConnect ---------------------------
(* Two /connect_wallet of one user, their teardowns and one restart.       *)
EXTENDS TonConnect, TLC

Symmetry == Permutations(Session)

(* The proof of a late session that is not being verified is refused for   *)
(* its age (RejectProof), so what the histories say of it changes nothing  *)
(* any more; and `crossed` is only asked about sessions under way.         *)
TooLate == late \ {waits[s] : s \in {t \in Session : stage[t] = "verify"}}

View ==
    <<stored, connector, link, task, clock, job, counts,
      spent \ TooLate, ended \ TooLate, rivals, crossed \cap Relying>>
=============================================================================
