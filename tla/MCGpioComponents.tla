-------------------------- MODULE MCGpioComponents --------------------------
(***************************************************************************)
(* Instances of GpioComponents for TLC.                                    *)
(***************************************************************************)
EXTENDS GpioComponents

CONSTANTS a, b, c, p1, p2

Comp(id, kind, pin) == [id |-> id, kind |-> kind, pin |-> pin]

\* Inputs and outputs, whose pins another configuration swaps; two users of the
\* shared pin; and files that are refused half way.
MCConfigs == {
  <<Comp(a, "gpioin", p1), Comp(b, "gpioout", p2)>>,
  <<Comp(b, "gpioin", p2), Comp(a, "gpioout", p1)>>,
  <<Comp(a, "rcswitch", p1), Comp(b, "rcswitch", BadPin), Comp(c, "gpioout", p2)>>,
  <<Comp(a, "gpioout", p1), Comp(b, "gpioin", p1)>>,
  <<Comp(a, "gpioout", p1), Comp(a, "gpioin", p2)>>,
  <<Comp(a, "gpioout", p1), Comp(b, "rcswitch", BadPin)>> }
=============================================================================
