---------------------------- MODULE MCContracts ----------------------------
(***************************************************************************)
(* Finite instance of Contracts, governance with two proposals among them  *)
(* (Governance_votes has one, more voters, an upgraded contract, an        *)
(* allowlist and the migration, which are left out here).                  *)
(***************************************************************************)
EXTENDS Contracts, TLC

CONSTANTS a1, a2, a3, a4, x1, x2, c1, c2

\* Every list of at most three accounts, repeats included.
Signers == {a1, a2, a3}
Lists == UNION {[1..n -> Signers] : n \in 0..3}
Amounts == {-1, 0}

\* Owner lists of up to three requests, an empty one included, and recovery
\* lists of up to two, which is enough for a chain, a swap and a repeat.
Creations == UNION {[1..n -> Owner] : n \in 0..3}
Recoveries == UNION {[1..n -> Owner \X Owner] : n \in 1..2}

\* The second account of recoveries and the clients keep their names.
Symmetry == Permutations(Signers) \cup Permutations({x1, x2})

\* The contracts a behaviour is not about start in one of their states.
MCInit ==
  /\ contract \in {"multisig", "batch-wallet", "gist-registry", "governance"}
  /\ Init /\ Wallet!Init /\ Registry!Init /\ Gov!InitFresh
  /\ contract # "gist-registry" => reader[c1] = reader[c2] /\ reader[c1].limit = 1
MCNext == ContractsNext /\ executorAllowlist' = {} /\ ~migrationDone'
MCSpec == MCInit /\ [][MCNext]_contractVars
=============================================================================
