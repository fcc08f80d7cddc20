-------------------------- MODULE MCEgroupScaling --------------------------
EXTENDS EgroupScaling

MCLoops == [a |-> 6, b |-> 3, c |-> 2]
=============================================================================
