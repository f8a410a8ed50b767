----------------------------- MODULE MCAccessories -----------------------------
(* A small instance of Accessories: two devices, one of which changes its service, is
   renamed, loses and gains commands, and a clock that wraps within reach. *)
EXTENDS Accessories, TLC

CONSTANTS a2, a3, x, y, c1, c2, ir, rf

MCBandOf == c1 :> ir @@ c2 :> rf

Sends(c, n, d) == [code |-> c, count |-> n, delay |-> d]
Dev(t, l, cmds) == [type |-> t, name |-> l, cmds |-> cmds]

Lamp == Dev("Switch", x, "on" :> Sends(c1, 3, 2) @@ "toggle" :> Sends(c2, 1, 0))
Tv   == Dev("Television", x, "toggle" :> Sends(c1, 2, 1))
TvKeys ==
  Dev("Television", y, "key_up" :> Sends(c2, 2, 0) @@ "volume_up" :> Sends(c1, 1, 0)
                       @@ "toggle" :> Sends(c1, 2, 2))
TvLamp == Dev("Switch", x, "toggle" :> Sends(c1, 2, 1))
Blind  == Dev("WindowCovering", y, "up" :> Sends(c2, 2, 1) @@ "stop" :> Sends(Unlearned, 1, 0))
Odd    == Dev("Unknown", y, "on" :> Sends(c1, 1, 0))

MCConfigs == {a2 :> Lamp @@ a3 :> Tv, a2 :> Lamp @@ a3 :> TvKeys,
              a2 :> Blind @@ a3 :> TvLamp, a2 :> Odd @@ a3 :> TvKeys, a3 :> TvLamp}
===============================================================================
