----------------------------- MODULE MCPipeline -----------------------------
EXTENDS Pipeline, TLC
MCM3Order == <<"SPEC", "SOLUTION">>
MCShortOrder == <<"SPEC">>
RequestSymmetry == Permutations(Requests)

=============================================================================
