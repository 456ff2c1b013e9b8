------------------------------ MODULE MCWaits ------------------------------
EXTENDS Waits

MCPackets == {<<1>>, <<2, 3>>}
=============================================================================
