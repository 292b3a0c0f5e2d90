------------------------------ MODULE MCFeatCtx ------------------------------
(* Small instances of FeatRegistration for TLC. *)
EXTENDS FeatRegistration

\* dflt sorts first; "DEU " before "DFLT" before "TRK " before "latn".
MCTagRank == [t \in Scripts \cup Langs |->
                CASE t = "dflt" -> 0 [] t = "DEU" -> 1 [] t = "DFLT" -> 2
                  [] t = "TRK" -> 3 [] t = "latn" -> 4 [] OTHER -> 5]

OneKind == {<<"GSUB", "Single">>}
TwoKinds == {<<"GSUB", "Single">>, <<"GSUB", "Ligature">>}
TwoTables == {<<"GSUB", "Single">>, <<"GPOS", "Single">>}

\* Files are followed only as long as they have no error, and (DefaultFirst) only if the
\* default language system of some script sorts first among theirs, as DFLT dflt does.
NoError == ~hadError
=============================================================================
