----------------------------- MODULE MCBriefing -----------------------------
(* TLC instances of Briefing. *)
EXTENDS Briefing, TLC

\* One session that is briefed, beside others that only share its fetches.
OneRoot == {r \in [Sessions -> AllRoles] : Cardinality({s \in Sessions : r[s] = "root"}) = 1}

Symmetry == Permutations(Tasks) \cup Permutations(Fetches) \cup Permutations(Sessions)
=============================================================================
