------------------------- MODULE MCEmbeddingRebuild -------------------------
EXTENDS EmbeddingRebuild

MCRows == 1 .. 2
MCEntities == {1}
=============================================================================
