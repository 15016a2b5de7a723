---------------------------- MODULE MCHidClient ----------------------------
(***************************************************************************)
(* HidClient for TLC: one clone that makes checked gestures and calls the  *)
(* session refuses; and one that sends a barrier, flushes, types, closes   *)
(* or presses for long meanwhile.                                          *)
(***************************************************************************)
EXTENDS HidClient

MCUses(p) ==
  IF p = "worker"
  THEN {"tap", "send_button"}
  ELSE {"flush_wait", "long_press", "close_wait", "flush", "set_screen_size",
        "type_text_strict"}

MCCalls(p) == IF p = "worker" THEN 2 ELSE 1
=============================================================================
