------------------------ MODULE MCFeedbackDelivery ------------------------
EXTENDS FeedbackDelivery, TLC

CONSTANTS e1, e2, o1, o2

Symmetric == Permutations({o1, o2})
=============================================================================
