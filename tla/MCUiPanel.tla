----------------------------- MODULE MCUiPanel ------------------------------
EXTENDS UiPanel
=============================================================================
