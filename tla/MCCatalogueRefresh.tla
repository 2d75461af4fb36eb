------------------------ MODULE MCCatalogueRefresh -------------------------
\* Two sources and two callers.
EXTENDS CatalogueRefresh, TLC

CONSTANTS upstream, politrees, c1, c2

MCSources == {upstream, politrees}
MCCallers == {c1, c2}
Symmetric == Permutations(MCCallers) \cup Permutations(MCSources)
=============================================================================
