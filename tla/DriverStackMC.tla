---------------------------- MODULE DriverStackMC ----------------------------
(* Setups of DriverStack: builds with both networks or one, on a PS2 or a    *)
(* PSX, with the keyboard driver and its map on different devices.           *)
EXTENDS DriverStack

Setup == [paths |-> {}, boots |-> {"mass"}, networks |-> {"udpfs"}, psx |-> FALSE,
          kbdUsed |-> FALSE, kbdFile |-> "none", kbdMap |-> "none", flaky |-> {}]

(* A build with both networks, with the keyboard driver on the hard disk.    *)
TwoNetworks ==
    [Setup EXCEPT !.paths = {"mc1", "mmce", "mx4sio", "hdd", "host", "udpfs"},
                  !.boots = {"mass", "host"}, !.networks = {"eth", "udpfs"},
                  !.kbdUsed = TRUE, !.kbdFile = "hdd"]

(* The keyboard driver on the slot that MX4SIO takes, its map on the disk.   *)
KeyboardOnMc1 ==
    [Setup EXCEPT !.paths = {"mc1", "mmce", "mx4sio", "hdd"},
                  !.boots = {"mx4sio", "mass", "hdd"},
                  !.kbdUsed = TRUE, !.kbdFile = "mc1", !.kbdMap = "hdd"]

(* A PSX whose drivers and whose reboot for the signer may fail.             *)
FaultyPsx ==
    [Setup EXCEPT !.paths = {"hdd", "dvr"}, !.boots = {"hdd"},
                  !.networks = {}, !.psx = TRUE, !.flaky = {"dev9", "ps2hdd", "signer"}]

AllSetups == {TwoNetworks, KeyboardOnMc1, FaultyPsx}
=============================================================================
