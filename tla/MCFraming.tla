------------------------------ MODULE MCFraming -----------------------------
(* Values of the constants of Framing for the model checker: lengths whose *)
(* headers differ in more than one place.                                  *)
EXTENDS Framing

AHello == <<1>>
Payloads == {AHello, <<0, 1>>, <<1, 0, 0>>}
Refused == {<<0, 0>>}
=============================================================================
