------------------------------ MODULE MCTeleop ------------------------------
(* One axis and one button at a time, and the combinations where one makes  *)
(* a difference to the other.                                               *)
EXTENDS Teleop

At(d, s, t, b) == [deadman |-> d, stick |-> s, trigger |-> t, buttons |-> b]

MCPad == {
    At("none",  0, 1, {}),        At("world", 0, 0, {}),
    At("world", 0, 1, {}),        At("world", 1, 1, {}),
    At("world", -1, 1, {}),       At("local", 1, 1, {}),
    At("none",  1, 1, {"open"}),  At("none",  0, 1, {"open", "close"}),
    At("world", 1, 1, {"close"}), At("none",  0, 1, {"home"}),
    At("world", 1, 1, {"home"})}
=============================================================================
