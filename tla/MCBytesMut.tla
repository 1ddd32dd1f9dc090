----------------------------- MODULE MCBytesMut -----------------------------
EXTENDS BytesMut
==============================================================================
