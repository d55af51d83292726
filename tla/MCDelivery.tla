----------------------------- MODULE MCDelivery -----------------------------
(* Delivery on a screen for each size the encoder has parameter sets for, and one *)
(* it has none for.                                                               *)
EXTENDS Delivery

Screens == {<<1280, 720>>, <<640, 360>>, <<480, 270>>, <<1024, 768>>}
=============================================================================
