----------------------------- MODULE MCSidecar -----------------------------
EXTENDS Sidecar

MCMarkets == {"w1", "w2"}
MCSlots == {"s1", "s2"}
MCIds == {"c1"}
=============================================================================
