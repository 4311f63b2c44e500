---------------------------- MODULE MCProductReader ----------------------------
(* Product shapefiles for TLC: one feature, two features in one chunk, one *)
(* feature in each of two chunks, no feature.                              *)
EXTENDS ProductReader, TLC

MCFeatures == {"a", "b", "c", "d", "e"}
MCFiles == {<<<<"a">>>>, <<<<"b">>>>, <<<<"c", "d">>>>, <<<<"d">>, <<"e">>>>, <<>>}
=============================================================================
