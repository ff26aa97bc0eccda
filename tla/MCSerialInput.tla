--------------------------- MODULE MCSerialInput ---------------------------
\* SerialInput for a small queue; the sizes are in the configurations.
EXTENDS SerialInput
=============================================================================
