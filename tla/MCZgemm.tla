------------------------------ MODULE MCZgemm ------------------------------
EXTENDS ZgemmRestrain
=============================================================================
