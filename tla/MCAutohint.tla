----------------------------- MODULE MCAutohint -----------------------------
(* Small instances of Autohint for TLC. *)
EXTENDS Autohint

\* Bound: the outlines of one glyph, if any, are left alone.
CONSTANT Settled
SettledOutline == CHOOSE o \in Outlines : TRUE

SettledIsDrawn ==
    \A f \in Fonts : \A g \in Settled :
        default[f][g] # None => default[f][g].of = SettledOutline
=============================================================================
