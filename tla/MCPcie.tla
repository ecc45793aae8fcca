------------------------------- MODULE MCPcie -------------------------------
(* Hierarchies of three or four devices for TLC. *)
EXTENDS Pcie

Dev(slot, up, class, port, has) ==
  [slot |-> slot, up |-> up, class |-> class, port |-> port, has |-> has,
   bar0 |-> 0, pasids |-> 0, vectors |-> <<>>]
Msi(hwirq, msix, is_64) ==
  [hwirq |-> hwirq, msix |-> msix, is_64 |-> is_64, lower |-> 1, upper |-> 2, control |-> 1]
Prt(pin, source, index) == [pin |-> pin, source |-> source, source_index |-> index]

Port == Dev(<<0, 0, 1, 0>>, 0, "BRIDGE", ROOT_PORT, {"bridge", "bus", "pcie", "driver"})
Usb == [Dev(<<0, 1, 0, 0>>, 1, "USB", 0, {"pcie", "msix", "driver", "mask64", "multifunction"})
        EXCEPT !.vectors = <<Msi(8, TRUE, TRUE), Msi(9, TRUE, TRUE), Msi(10, TRUE, TRUE)>>, !.bar0 = 4]
Sata == [Dev(<<0, 1, 0, 1>>, 1, "SATA", 0, {"pcie", "msi", "dma", "iommu_group", "coherent"})
         EXCEPT !.vectors = <<Msi(11, FALSE, FALSE)>>, !.pasids = -22]

MCSystems ==
  { \* a root port with a USB and a SATA controller
    [dev |-> <<Port, Usb, Sata>>,
     prt |-> <<Prt(0, 0, 40), Prt(1, 0, 41), Prt(0, 0, 42)>>],
    \* two USB controllers, one on the root bus of segment 1; too many interrupts for a pin
    [dev |-> <<Port, Usb, [Usb EXCEPT !.slot = <<1, 0, 2, 0>>, !.up = 0, !.port = 9]>>,
     prt |-> <<Prt(0, 0, 40), Prt(0, 0, 41), Prt(0, 0, 42)>>],
    \* a host bridge at BDF 0, a bridge that is no root port, an I/O BAR; a bad pin
    [dev |-> <<Dev(<<0, 0, 0, 0>>, 0, "HOST", 0, {}),
               Dev(<<0, 0, 3, 0>>, 0, "BRIDGE", 7, {"bridge"}),
               [Dev(<<0, 2, 0, 0>>, 2, "OTHER", 0, {"no_snoop", "ext_cap"}) EXCEPT !.bar0 = 5]>>,
     prt |-> <<Prt(3, 0, 40), Prt(4, 0, 41)>>],
    \* a controller of segment 256 in the slot of one of segment 0; a link device
    [dev |-> <<Port, Usb, [Usb EXCEPT !.slot = <<2, 1, 0, 0>>, !.up = 0, !.vectors = <<>>]>>,
     prt |-> <<Prt(2, 0, 40), Prt(2, 1, 0)>>] }
=============================================================================
