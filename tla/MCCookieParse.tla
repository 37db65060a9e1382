--------------------------- MODULE MCCookieParse ---------------------------
(* CookieParse for TLC: names and values of zero to two characters, the     *)
(* separator of browsers, and the same without a blank and with two; and    *)
(* every header of up to six characters.                                    *)
EXTENDS CookieParse

MCChars      == {"n", "m", "v", "w"}
MCNames      == {<<"n">>, <<"n", "m">>}
MCValues     == {<<>>, <<"v">>, <<"v", "w">>}
MCSeparators == {<<";">>, <<";", " ">>, <<";", " ", " ">>}
MCHeaders    == UNION {[1 .. k -> {"n", Equal, Semicolon, Blank}] : k \in 0 .. 6}

=============================================================================
