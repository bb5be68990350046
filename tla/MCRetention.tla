----------------------------- MODULE MCRetention -----------------------------
(* Instances of Retention for TLC. *)
EXTENDS Retention, TLC

CONSTANTS u, v, a, b, c, d

\* Two media rows with the same content, an attempt and an export.
MCKind == [r \in Rows |-> CASE r \in {a, b} -> "media" [] r = c -> "scrub"
                            [] OTHER -> "export"]
MCUnit == [r \in Rows |-> IF r = b THEN a ELSE r]

\* Two attempts of one generation run.
MCScrub == [r \in Rows |-> "scrub"]
MCOneRun == [r \in Rows |-> a]

MCSymmetry == Permutations(Workers)
=============================================================================
