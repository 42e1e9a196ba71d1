-------------------------- MODULE MCStreamDecoder --------------------------
EXTENDS StreamDecoder
=============================================================================
