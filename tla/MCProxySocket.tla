---------------------------- MODULE MCProxySocket ----------------------------
EXTENDS ProxySocket
==============================================================================
