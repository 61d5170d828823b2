------------------------------ MODULE MCAudio ------------------------------
EXTENDS Audio
=============================================================================
