---------------------------- MODULE MCIframeRpc ----------------------------
EXTENDS IframeRpc
=============================================================================
