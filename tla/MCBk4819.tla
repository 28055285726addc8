------------------------------- MODULE MCBk4819 -------------------------------
(* A chip of seven registers of two bits, one station, a poll in four that   *)
(* announces, and the writes with which the firmware tunes on and off the    *)
(* station, sleeps, wakes and soft-resets the chip.                          *)
EXTENDS Bk4819

OneStation == {[centre |-> 1, peak |-> 6]}

SomeWrites ==
    {<<REG_REVISION, 2>>, <<REG_RX_ENABLE, 1>>, <<REG_RX_ENABLE, 0>>,
     <<REG_INT_ENABLE, 1>>, <<REG_FREQ, 1>>, <<REG_FREQ, 3>>, <<REG_RSSI_THRESH, 2>>}
=============================================================================
