------------------------- MODULE MCTelegramPublish -------------------------
(* Small instances of the Telegram publication for TLC. *)
EXTENDS TelegramPublish, TLC

CONSTANTS u, v

MCWorkerSymmetry == Permutations(Workers)

\* Bound: from a state with more claims and retries than these TLC does not go on.
MCFewClaims == count[1] + count[2] + retries <= 2
=============================================================================
