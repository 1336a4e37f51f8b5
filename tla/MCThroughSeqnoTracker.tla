------------------------ MODULE MCThroughSeqnoTracker ------------------------
EXTENDS ThroughSeqnoTracker
=============================================================================
