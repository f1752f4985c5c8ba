------------------------------- MODULE MCWsWriter -------------------------------
EXTENDS WsWriter, TLC
================================================================================
