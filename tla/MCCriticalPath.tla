--------------------------- MODULE MCCriticalPath ---------------------------
EXTENDS CriticalPath
=============================================================================
