------------------------------ MODULE MCOtlTable ------------------------------
(* Small instances of OtlTable for TLC. *)
EXTENDS OtlTable

\* A script with one language and one with two, and a second feature in one of these
Registrations == {<<"DFLT", "dflt", "kern">>, <<"latn", "dflt", "kern">>,
                  <<"latn", "TRK", "kern">>, <<"latn", "TRK", "aalt">>}
OneRegistration == {<<"latn", "dflt", "kern">>}

\* TAG_STAND_ALONE is 0x01010101 and dflt four spaces; TAG_UNDEF is the largest number.
MCTagRank == [t \in Tags |->
                CASE t = "STAND_ALONE" -> 0 [] t = "dflt" -> 1 [] t = "DFLT" -> 2
                  [] t = "TRK" -> 3 [] t = "aalt" -> 4 [] t = "kern" -> 5 [] t = "latn" -> 6
                  [] t = "UNDEF" -> 9 [] OTHER -> 8]
=============================================================================
