--------------------------- MODULE MCStagingBuffer ---------------------------
EXTENDS StagingBuffer
=============================================================================
