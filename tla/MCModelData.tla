--------------------------- MODULE MCModelData ----------------------------
\* A hash map and a name mapper, two refreshes and an archiver.
EXTENDS ModelData, TLC

CONSTANTS r1, r2, hash, names, a, b

MCRefreshers == {r1, r2}
MCSources    == {hash, names}
MCMappers    == {names}
MCLockOrder  == <<<<hash, "data">>, <<names, "data">>, <<names, "overlay">>>>
MCKeys       == {a, b}
MCUpstream   == {{a}, {a, b}}
Symmetric    == Permutations(MCRefreshers)
=============================================================================
