----------------------------- MODULE MCPipeBuffer -----------------------------
(* A pipe of three bytes, requests of up to four: every wrap-around case.    *)
EXTENDS PipeBuffer
===============================================================================
