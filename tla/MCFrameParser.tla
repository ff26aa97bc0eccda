--------------------------- MODULE MCFrameParser ---------------------------
EXTENDS FrameParser
=============================================================================
