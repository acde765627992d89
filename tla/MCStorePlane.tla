---------------------------- MODULE MCStorePlane ----------------------------
(* Two indexes and two releases; the first is published, the second comes. *)
EXTENDS StorePlane, TLC

CONSTANTS i1, i2, b1, b2, w1, w2

OneIsOut == i1 :> {b1} @@ i2 :> {}

(* The second release's manifest and its listing beside, or in the place
   of, the first. *)
Publishing == {<<<<"manifest", b2>>, {b2}>>, <<<<"index", i1>>, {b2}>>,
               <<<<"index", i2>>, {b2}>>, <<<<"latest", "latest">>, {b1}>>}

=============================================================================
