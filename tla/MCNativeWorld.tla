--------------------------- MODULE MCNativeWorld ---------------------------
EXTENDS NativeWorld
============================================================================
