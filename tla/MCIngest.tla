------------------------------ MODULE MCIngest ------------------------------
EXTENDS Ingest

CONSTANTS claude, xbel
=============================================================================
