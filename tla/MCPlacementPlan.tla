--------------------------- MODULE MCPlacementPlan ---------------------------
(* Instances of PlacementPlan for TLC. *)
EXTENDS PlacementPlan

\* Memory of two, three and five layers, of less than one, and of one layer on
\* a Metal node whose two figures are the same pool.
MCReadings ==
    { [metal |-> FALSE, ram |-> 1, vram |-> 1],
      [metal |-> FALSE, ram |-> 2, vram |-> 4],
      [metal |-> FALSE, ram |-> 8, vram |-> 0],
      [metal |-> FALSE, ram |-> 4, vram |-> 8],
      [metal |-> TRUE, ram |-> 4, vram |-> 4] }

=============================================================================
