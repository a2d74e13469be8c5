------------------------- MODULE MCSqliteMigration --------------------------
(* Values for the constants of SqliteMigration: no routes; two or three    *)
(* with rows of their own; with a NULL in a route, or in a nearby.         *)
EXTENDS SqliteMigration, TLC

Row(n, null) == [of |-> n, null |-> null]
Contents(routes, nearby, images, details) ==
    [routes |-> routes, nearby |-> nearby, images |-> images, details |-> details]

SomeSources == {
    Contents({}, {}, {}, {}),
    Contents({Row(1, FALSE), Row(2, FALSE)}, {Row(1, FALSE), Row(2, FALSE)},
             {Row(2, FALSE)}, {Row(1, FALSE)}),
    Contents({Row(1, FALSE), Row(2, FALSE), Row(3, FALSE)}, {Row(1, TRUE), Row(2, FALSE)},
             {}, {Row(3, FALSE)}),
    Contents({Row(1, FALSE), Row(2, TRUE)}, {}, {Row(1, TRUE)}, {})}

Symmetry == Permutations(Runs)
=============================================================================
