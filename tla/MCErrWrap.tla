----------------------------- MODULE MCErrWrap -----------------------------
(* ErrWrap on two sentinels, one cause and the format shapes of errx's     *)
(* doc comment and tests: "", "plain", "plain %s", ": %w", ": extra %s: %w", "%w".     *)
EXTENDS ErrIs

CONSTANTS s1, s2, c1

MCSentinels == {s1, s2}
MCCauses == {c1}
MCFormats == {<<>>, <<"t">>, <<"t", "v">>, <<"t", "w">>, <<"t", "v", "t", "w">>, <<"w">>}
============================================================================
