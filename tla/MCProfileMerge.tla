----------------------------- MODULE MCProfileMerge -----------------------------
(* Instances of ProfileMerge for TLC.                                        *)
EXTENDS ProfileMerge

\* Merge treats every field on its own, so overlays of up to two fields meet every
\* pair of cases.
AtMostOne == {{}} \union {{f} : f \in Fields}
AtMostTwo == {{f, g} : f, g \in Fields} \union {{}}

MCGlobals == {{}, Fields, Safety \union Shared}
MCTenants == {Nil} \union [scope: {"tenant", "global"}, set: AtMostOne]
MCSessions == {Nil} \union [scope: Scopes, set: AtMostTwo]
=============================================================================
