------------------------- MODULE MCMetricsDelivery -------------------------
EXTENDS MetricsDelivery
=============================================================================
