----------------------------- MODULE MCSessions -----------------------------
(* Sessions on a small instance: three connections, c3 on WebTransport, the  *)
(* legacy ones with addresses of their own.                                  *)
EXTENDS Sessions, TLC

CONSTANTS c1, c2, c3, a1, a2

OwnAddr == (c1 :> a1) @@ (c2 :> a2)
=============================================================================
