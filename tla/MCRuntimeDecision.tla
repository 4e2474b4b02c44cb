------------------------- MODULE MCRuntimeDecision --------------------------
(* Instances of RuntimeDecision for TLC: one decision, a requester and two  *)
(* approvers, so that both risk levels, a repeated vote and a veto after a  *)
(* quorum all occur.                                                        *)
EXTENDS RuntimeDecision, TLC

Interchangeable == Permutations(Principals) \cup Permutations(Keys)

(* seen guards nothing: runs that do not speak of it leave it out.          *)
WithoutSeen == <<sim, mem, disk, op, commands, unread>>

=============================================================================
