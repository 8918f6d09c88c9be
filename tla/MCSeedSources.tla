--------------------------- MODULE MCSeedSources ---------------------------
(* An instance of the initial sources for TLC: a seed list, a search and a *)
(* query for packs that finds two. One pack's list hides an account on its *)
(* first page and overlaps its sample; the other's goes round in a circle. *)
EXTENDS SeedSources, TLC

CONSTANTS
  u1, u2, u4, u5, u6,      \* accounts
  g1, g2,                  \* packs
  PackLimit                \* the limit of the query for packs

MCSource == {"seeds", "search", "packs"}
MCOracleOf == "seeds" :> "manual" @@ "search" :> "search" @@ "packs" :> "packs"
MCLimitOf == "seeds" :> 1 @@ "search" :> 1 @@ "packs" :> PackLimit
MCHitsOf == "seeds" :> <<u1>> @@ "search" :> <<u2>> @@ "packs" :> <<g1, g2>>
MCSampleOf == g1 :> <<u1>> @@ g2 :> <<u2>>
MCListOf == g1 :> <<u1, u4, u2, u5>> @@ g2 :> <<u2, u6>>
=============================================================================
