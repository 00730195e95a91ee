---------------------------- MODULE MCSshSession ----------------------------
(* A session of two calls, each command printing at most two chunks of    *)
(* one kind and ending with one of two statuses, a signal, or nothing.          *)
EXTENDS SshSession

CONSTANTS c1, s0, s1, NoStatus

MCChunks == {c1}
MCExitCodes == {s0, s1}   \* two distinct exit statuses
=============================================================================
