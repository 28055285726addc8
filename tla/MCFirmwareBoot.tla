---------------------------- MODULE MCFirmwareBoot ----------------------------
(* A log that is full after three lines.  The files sit on the edges the shape  *)
(* is read from: the first and the last handler of a bootloader, the first of *)
(* an application, one past the end of the file, stack pointers on and past   *)
(* both ends of the SRAM, and an ELF with symbols.                            *)
EXTENDS FirmwareBoot

File(elf, sp, reset, version, layout) ==
    [elf |-> elf, sp |-> sp, reset |-> reset, size |-> 6,
     version |-> version, layout |-> layout, symbols |-> elf]

MCFiles == {File(FALSE, 101, 12, "a", 1), File(FALSE, 104, 13, "b", 2),
            File(FALSE, 104, 16, "c", 3), File(FALSE, 100, 10, "d", 4),
            File(TRUE, 105, 9, "e", 5)}
=============================================================================
