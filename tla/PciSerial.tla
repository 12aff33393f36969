----------------------------- MODULE PciSerial -----------------------------
(***************************************************************************)
(* Serial boards (struct Serial_board) and the drivers that find their     *)
(* ports in the BARs of a PCI function: class Pci_com_drv and its          *)
(* subclasses of x86_pc-base.h.                                            *)
(*                                                                         *)
(* One board is filled in for all functions looked at, so that every       *)
(* driver starts from what the one before it has left there.               *)
(***************************************************************************)
EXTENDS Integers, FiniteSetsExt

CONSTANT NumBars    \* NUM_BARS

\* A BAR with its flags: 4 for 64 bits, 8 for prefetchable.  Memory BARs are
\* not smaller than 16 bytes.
BarType == {"none", "io", "mem"}
Bar == { b \in [type : BarType, base : Nat, len : Nat, flags : {0, 4, 8, 12}] :
           b.flags # 0 => b.type = "mem" /\ b.len >= 16 }
NoBar == [type |-> "none", base |-> 0, len |-> 0, flags |-> 0]

\* The driver the table _devs names for the function's vendor and device
Drivers == {"default", "oxsemi", "exar", "moschip", "agestar", "wch", "none"}

\* Serial_board
NewBoard == [bars |-> [i \in 0..(NumBars - 1) |-> NoBar], ports |-> 0, baseBar |-> 0,
             offset |-> 0, portOffset |-> 0]

\* The flags stay in the base, and the lowest one is taken for the size.
Decoded(b) ==
  [b EXCEPT !.base = @ + b.flags,
            !.len = CASE b.flags \in {4, 12} -> 4 [] b.flags = 8 -> 8 [] OTHER -> @]

\* read_bars(): a BAR the function does not use is left alone.
ReadBars(board, d) ==
  [board EXCEPT !.bars = [i \in DOMAIN @ |-> IF d.bars[i].type = "none" THEN @[i] ELSE Decoded(d.bars[i])]]

IoBars(board) == { i \in DOMAIN board.bars : board.bars[i].type = "io" }

FirstIoBar(board) == IF IoBars(board) = {} THEN -1 ELSE Min(IoBars(board))

\* bars[-1] is not part of the board: no BAR type is recognised there.
BarOf(board) == IF board.baseBar \in DOMAIN board.bars THEN board.bars[board.baseBar] ELSE NoBar

\* get_base(); no driver sets F_bar_per_port.
GetBase(board, port) ==
  BarOf(board).base + board.offset + board.portOffset * (IF port >= board.ports THEN 0 ELSE port)

\* The number of ports of a board that has one behind the other in its BAR
PortsInBar(board) == BarOf(board).len \div 8

Accept(board, enable) == [ok |-> TRUE, board |-> board, enable |-> enable]
Reject(board) == [ok |-> FALSE, board |-> board, enable |-> "none"]

\* Pci_com_drv_default::setup(): exactly one I/O BAR
SetupDefault(board, d) ==
  LET b == ReadBars(board, d)
      c == [b EXCEPT !.portOffset = 8, !.baseBar = FirstIoBar(b)]
  IN IF Cardinality(IoBars(b)) # 1 THEN Reject(b)
     ELSE Accept([c EXCEPT !.ports = PortsInBar(c)], "io")

\* Pci_com_drv_fallback::setup(): class 7, subclass 0x80
SetupFallback(board, d) == IF d.class = "serial" THEN SetupDefault(board, d) ELSE Reject(board)

\* Pci_com_moschip::setup(): the serial port has subclass 0.
SetupMoschip(board, d) ==
  LET b == ReadBars(board, d)
      c == [b EXCEPT !.portOffset = 8, !.baseBar = FirstIoBar(b)]
  IN IF d.subclass # 0 THEN Reject(board)
     ELSE Accept([c EXCEPT !.ports = PortsInBar(c)], "io")

\* Pci_com_agestar::setup()
SetupAgestar(board, d) ==
  LET b == ReadBars(board, d)
  IN Accept([b EXCEPT !.portOffset = 8, !.baseBar = FirstIoBar(b), !.ports = 2], "io")

\* Pci_com_wch_chip::setup()
SetupWch(board, d) ==
  LET b == ReadBars(board, d)
  IN Accept([b EXCEPT !.portOffset = 8, !.baseBar = FirstIoBar(b), !.offset = 192,
                      !.ports = d.ports], "io")

\* Pci_com_drv_oxsemi::setup(), Pci_com_drv_exar::setup(): the ports are in BAR 0.
SetupOxsemi(board, d) ==
  Accept([ReadBars(board, d) EXCEPT !.ports = 2, !.portOffset = 512, !.baseBar = 0, !.offset = 4096], "mem")
SetupExar(board, d) ==
  Accept([ReadBars(board, d) EXCEPT !.ports = 2, !.portOffset = 1024, !.baseBar = 0, !.offset = 0], "mem")

SetupBy(driver, board, d) ==
  CASE driver = "default" -> SetupDefault(board, d)
    [] driver = "oxsemi" -> SetupOxsemi(board, d)
    [] driver = "exar" -> SetupExar(board, d)
    [] driver = "moschip" -> SetupMoschip(board, d)
    [] driver = "agestar" -> SetupAgestar(board, d)
    [] driver = "wch" -> SetupWch(board, d)
    [] OTHER -> Reject(board)

\* The entries of _devs that match: the one for the device, and the last one,
\* which matches any device.
TryDrivers(driver, board, d) ==
  LET s == SetupBy(driver, board, d) IN IF s.ok THEN s ELSE SetupFallback(s.board, d)

\* legacy_uart(): the port of a PC
LegacyBase(port) ==
  CASE port = 1 -> 1016 [] port = 2 -> 760 [] port = 3 -> 1000 [] port = 4 -> 744 [] OTHER -> port

Legacy(board, port) ==
  [board EXCEPT !.bars[0] = [@ EXCEPT !.type = "io", !.base = LegacyBase(port)], !.ports = 1,
                !.baseBar = 0, !.offset = 0, !.portOffset = 8]

=============================================================================
