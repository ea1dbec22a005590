----------------------------- MODULE MCEmbedInto -----------------------------
(* Sources for TLC: whole, a part in another order, refused ones.            *)
EXTENDS EmbedInto

MCSources == {<<1, 2, 3, 4>>, <<3, 1>>, <<2, 2>>, << >>}
==============================================================================
