--------------------------- MODULE MCGracefulStop ---------------------------
(* A unit of time stands for 2.5 s: gracePeriod is 4, pollInterval 2.  The  *)
(* fallback timeout is shortened to two and a half grace periods, which a   *)
(* restless pod outlasts.                                                    *)
EXTENDS GracefulStop

CONSTANTS prompt, restless

MCPods == {prompt, restless}
=============================================================================
