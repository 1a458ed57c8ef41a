---------------------------- MODULE MCInetBridge ---------------------------
EXTENDS InetBridge

MCThing == {<<4, "h1", "p1">>, <<4, "h1", "p2">>, <<6, "h1", "p1">>}
MCPatient == {<<4, "h1", "p1">>}
=============================================================================
