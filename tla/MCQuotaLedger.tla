--------------------------- MODULE MCQuotaLedger ----------------------------
EXTENDS QuotaLedger, TLC

CONSTANTS n1, n2
=============================================================================
