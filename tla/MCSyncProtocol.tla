---------------------------- MODULE MCSyncProtocol ----------------------------
EXTENDS SyncProtocol, TLC

CONSTANTS ann, roy

\* ann connects twice; roy's connection may be read-only, and he edits
\* nevertheless.
MCModes == (ann :> {FALSE}) @@ (roy :> BOOLEAN)
MCEdits == (ann :> 2) @@ (roy :> 1)
MCSockets == (ann :> 2) @@ (roy :> 1)
MCDeletable == {<<ann, 1>>}

\* What tells two states apart: whether a connection is registered matters
\* only while frames reach it.
View == <<doc, Reached, up, told, asked, pc, tasks, clients, statuses>>
================================================================================
