--------------------------- MODULE TokenRefreshMC ---------------------------
EXTENDS TokenRefresh
OneTab == [f \in Fetch |-> 1]
=============================================================================
