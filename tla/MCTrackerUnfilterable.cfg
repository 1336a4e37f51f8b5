SPECIFICATION FairSpec
CONSTANT MaxSeqno = 2
PROPERTY PassesUnfilterable
