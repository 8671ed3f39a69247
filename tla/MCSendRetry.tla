---------------------------- MODULE MCSendRetry ----------------------------
EXTENDS SendRetry
=============================================================================
