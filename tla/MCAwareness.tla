------------------------------ MODULE MCAwareness ------------------------------
EXTENDS Awareness, TLC

CONSTANTS alice, bob

\* alice comes back under the same id; bob only watches.
MCSockets == (alice :> 2) @@ (bob :> 1)
================================================================================
