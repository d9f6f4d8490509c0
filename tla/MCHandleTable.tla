--------------------------- MODULE MCHandleTable ---------------------------
(* Two slots whose values tell three generations apart, so that a slot is  *)
(* reused beyond what its value can express within a few calls.            *)
EXTENDS HandleTable
CONSTANTS t1, t2
TwoThreads == {t1, t2}
=============================================================================
