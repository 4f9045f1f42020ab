--------------------------- MODULE MCTestPlatform ---------------------------
(* A small instance of TestPlatform for TLC. *)
EXTENDS TestPlatform, TLC

CONSTANTS f1, f2, c1, s1, p1, e1, i1, t1, t2, t3, v1, v2, r1, r2, k1, k2

Seeded(status, version, ref, rows) ==
    [status |-> status, version |-> version, ref |-> ref, rows |-> rows]

SeedRow(table) == [table |-> table, no |-> 1, by |-> Seed, of |-> None]

(* Two of the items name one case version.                                 *)
MCVersion == (t1 :> v1) @@ (t2 :> v1) @@ (t3 :> v2)

MCScopes == {<<t1>>, <<t1, t2, t3>>}

MCInitially ==
    (f1 :> {Seeded("active", 1, None, {})}) @@
    (f2 :> {Seeded("active", 1, None, {}), None}) @@
    (c1 :> {None, Seeded("active", 2, Seed, {SeedRow("versions")})}) @@
    (s1 :> {None, Seeded("draft", 1, None, {}),
            Seeded("design_review", 3, None, {SeedRow("analysis"), SeedRow("design")})}) @@
    (p1 :> {None, Seeded("draft", 1, None, {})}
           \cup {Seeded("ready", 2, items, Scope(items)) : items \in MCScopes}) @@
    (e1 :> {None, Seeded("draft", 1, p1, {})}) @@
    (i1 :> {None})

Symmetry == Permutations(Writers) \cup Permutations(Keys)

=============================================================================
