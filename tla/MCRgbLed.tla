------------------------------- MODULE MCRgbLed -------------------------------
(* A small instance of the LED: two colours that differ in both fields.      *)
EXTENDS RgbLed

Colour(r, g) == [c \in {"red", "green"} |-> IF c = "red" THEN r ELSE g]
MCColours    == {Colour(1, 0), Colour(0, 1)}
===============================================================================
