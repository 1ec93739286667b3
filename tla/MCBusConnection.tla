--------------------------- MODULE MCBusConnection ---------------------------
EXTENDS BusConnection
=============================================================================
