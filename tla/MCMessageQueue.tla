----------------------------- MODULE MCMessageQueue -----------------------------
EXTENDS MessageQueue, TLC
================================================================================
