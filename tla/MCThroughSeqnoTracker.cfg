SPECIFICATION Spec
CONSTANT MaxSeqno = 3
INVARIANTS TypeOK NothingSkipped  NoPanic NothingForgotten ListsShrink IInv
PROPERTIES ForwardOnly RefinesPromise
