---------------------------- MODULE MCHidDrivers ----------------------------
(* Small inputs for HidDrivers: scrolls of one and a half steps back, half *)
(* a step on (residuals of both signs) and two and a half on (beyond the   *)
(* clamp of two steps), the lowest raw axis value and a positive one, a    *)
(* bitmap with a diagonal dpad.                                            *)
EXTENDS HidDrivers

MCScrolls == {-3, 0, 1, 5}
MCRaw     == {-2, 1}
MCButtons == { {}, {"south", "up", "left"} }
=============================================================================
