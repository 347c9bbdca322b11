---------------------------- MODULE MCEmbedPump ----------------------------
EXTENDS EmbedPump
=============================================================================
