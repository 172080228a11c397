---------------------------- MODULE MCSshClient ----------------------------
(* Two callers and a closer on a connection that is dialled at most twice: *)
(* both callers can fail on the first transport, one redials, the other    *)
(* reuses or is late.  Two sessions compete for a server that holds one.   *)
EXTENDS SshClient
=============================================================================
