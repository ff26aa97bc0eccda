---------------------------- MODULE MCLcdLevels -----------------------------
\* LcdLevels with small ranges in the proportions of the code's.
EXTENDS LcdLevels
=============================================================================
