----------------------------- MODULE MCRtspClient -----------------------------
(* The program's times; a server that announces a minute, more or less.      *)
EXTENDS RtspClient
===============================================================================
