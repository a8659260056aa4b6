-------------------------- MODULE MCStreamingThread --------------------------
(* More threads than slots, so that one may be refused.                    *)
EXTENDS StreamingThread
=============================================================================
