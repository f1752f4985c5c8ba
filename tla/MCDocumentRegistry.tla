-------------------------- MODULE MCDocumentRegistry --------------------------
EXTENDS DocumentRegistry, TLC
================================================================================
