----------------------------- MODULE MCServing ------------------------------
(* Two rows: a vless one that is slower than a Hysteria one elsewhere.       *)
EXTENDS Serving

SchemeAt == [r1 |-> "vless", r2 |-> "hy2"]
PlaceAt == [r1 |-> "A", r2 |-> "B"]
RankAt == [r1 |-> 2, r2 |-> 1]
=============================================================================
