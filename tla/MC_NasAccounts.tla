--------------------------- MODULE MC_NasAccounts ----------------------------
(* Instances of NasAccounts for TLC.                                       *)
EXTENDS NasAccounts, TLC

\* Consoles, workers, tokens and tickets are only compared for equality.
Symmetry == Permutations(Console) \cup Permutations(Worker)
            \cup Permutations(Token) \cup Permutations(Ticket)
=============================================================================
