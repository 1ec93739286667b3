--------------------------- MODULE MCHttpConnection ---------------------------
EXTENDS HttpConnection
=============================================================================
