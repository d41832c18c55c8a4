--------------------------- MODULE MCCheckService ---------------------------
EXTENDS CheckService
CONSTANTS p1, p2, c1, c2, t1
PaidList == <<p1, p2>>
=============================================================================
