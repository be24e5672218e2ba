--------------------------- MODULE MCRoadmapHold ---------------------------
(* Two processes: one with two writers and two migrations, one with a      *)
(* writer and a migration.                                                 *)
EXTENDS RoadmapHold, TLC
CONSTANTS gui, mcpd, w1, w2, w3, m1, m2, m3
MCHome == (w1 :> gui) @@ (w2 :> gui) @@ (w3 :> mcpd) @@ (m1 :> gui) @@ (m2 :> mcpd)
          @@ (m3 :> gui)
=============================================================================
