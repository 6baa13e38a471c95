------------------------------ MODULE MCSweeps ------------------------------
EXTENDS Sweeps
=============================================================================
