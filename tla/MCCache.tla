------------------------------ MODULE MCCache ------------------------------
\* Instances of the buffer cache for TLC.
EXTENDS BufferCache, TLC

CONSTANTS a, b

\* Writes of whole sectors, and writes that may leave a part alone.
WholeSectors == {Parts}
AnyPart == SUBSET Parts \ {{}}

\* The sectors are alike.
Symmetry == Permutations(Sectors)
=============================================================================
