--------------------------- MODULE MCPatternSearch ---------------------------
(* Rings of 2, 4 and 8 slots, chunks longer than the ring, and patterns of up to
   4 bytes, so that with a short-pattern limit of 2 every scan is used on
   contiguous and on wrapped bytes.  The bytes 0 and 1 play the same part in the
   ring: the patterns that begin with 0 stand for the others. *)
EXTENDS PatternSearch

MCChunks   == {<<>>, <<0>>, <<1>>, <<1, 0>>, <<0, 1, 1, 0>>, <<1, 1, 0, 1, 0, 0, 1, 0, 1>>}
MCPatterns == {<<0>>, <<0, 0>>, <<0, 1>>, <<0, 0, 1>>, <<0, 1, 0>>, <<0, 0, 0, 1>>, <<0, 1, 0, 0>>}
MCPatternLists ==
    {<<<<1>>, <<1, 0>>>>, <<<<0, 0, 1>>, <<1, 1>>>>, <<<<1, 0, 1, 1>>, <<0, 1, 0>>, <<1, 1, 1>>>>}
=============================================================================
