----------------------------- MODULE MCRequests -----------------------------
EXTENDS Requests
CONSTANTS r1, r2, t1, t2
=============================================================================
