----------------------------- MODULE MCJSONLSink -----------------------------
(* Two goroutines and three records over up to three lives of the process.     *)
EXTENDS JSONLSink
CONSTANTS w1, w2, r1, r2, r3
==============================================================================
