---------------------------- MODULE MCSseReader ----------------------------
EXTENDS SseReader, StreamSets
=============================================================================
