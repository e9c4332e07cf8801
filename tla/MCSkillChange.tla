--------------------------- MODULE MCSkillChange ---------------------------
(***************************************************************************)
(* Two hosts of one Vault that share a bridge file, as codex and opencode  *)
(* share AGENTS.md, or that have none, as openclaw and pi.  The second     *)
(* release drops a Skill, changes one and adds one.                        *)
(***************************************************************************)
EXTENDS SkillChange, TLC

MCNameOrder == <<"a", "b", "c">>
MCSuite == <<{"a", "b"}, {"b", "c"}>>
MCPlacements == {[h \in Hosts |-> b] : b \in Bridges \cup {NoBridge}}
Symmetry == Permutations(Hosts) \cup Permutations(Ops)
=============================================================================
