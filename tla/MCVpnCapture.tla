--------------------------- MODULE MCVpnCapture ---------------------------
\* VpnCapture on a small instance.
EXTENDS VpnCapture
=============================================================================
