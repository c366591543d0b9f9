------------------------ MODULE MCEnrichmentPipeline ------------------------
EXTENDS EnrichmentPipeline, TLC

Symmetry == Permutations(Workers) \cup Permutations(Requests) \cup Permutations(Cores)
=============================================================================
