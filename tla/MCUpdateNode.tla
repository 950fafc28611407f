---------------------------- MODULE MCUpdateNode ----------------------------
(* One node under every request any host could send it in any order.        *)
EXTENDS UpdateNode

CONSTANTS self, other, v0, v1, v2, zero, a

\* Two runnable images that share their first byte, the same bytes with the
\* wrong target, and a manifest whose digest belongs to no image of its size.
MCManifests ==
    LET Img(n, last) == [i \in 0..(n - 1) |-> IF i = n - 1 THEN last ELSE a]
        M(t, v, n, d) == [target |-> t, version |-> v, image_size |-> n, digest |-> d]
    IN {M(self, v1, 2, Img(2, a)), M(self, v2, 3, Img(3, zero)),
        M(other, v2, 2, Img(2, a)), M(self, v2, 2, Img(3, a)),
        M(self, v1, 0, Img(0, a))}
=============================================================================
