---------------------------- MODULE MCPanelFrame ----------------------------
(* Presentations for PanelFrame: a view without leading zeroes, a dark view
   with a number too large for LP-001 and more LEDs than there are, and a
   blinking code. *)
EXTENDS PanelFrame

View(n, zeroes, brightness, blinks, leds) ==
  [number |-> n, zeroes |-> zeroes, brightness |-> brightness,
   blink |-> blinks, leds |-> leds]

MCPresentations ==
  {View(25, FALSE, 100, FALSE, <<TRUE>>),
   View(1234, TRUE, 0, FALSE, <<FALSE, TRUE>>),
   View(404, TRUE, 50, TRUE, <<>>)}
=============================================================================
