------------------------------ MODULE Devices ------------------------------
(***************************************************************************)
(* The device registers that the ACPI interpreter LAI reads and writes     *)
(* through acpi/laihost.c: PCI configuration space (acpi/pci.c), behind    *)
(* the address port 0xCF8 and the data ports from 0xCFC, and I/O ports     *)
(* (ports.c).  A register is its bytes; one PCI function is modelled,      *)
(* since pciaddr keeps bus, slot and function in bits of their own.        *)
(***************************************************************************)
EXTENDS Integers

CONSTANTS
  CFGBYTES,   \* bytes of configuration space that an uint8_t can name, 256
  IOBYTES,    \* bytes of I/O space
  Offsets,    \* the offsets LAI passes, as uint16_t
  Tags        \* what a byte may hold

ASSUME DevicesAssumption ==
  /\ CFGBYTES \in Nat /\ CFGBYTES % 4 = 0 /\ IOBYTES \in Nat
  /\ Offsets \subseteq Nat /\ 0 \in Tags

VARIABLES
  dev,        \* the bytes of the devices
  asked,      \* the bytes as they would be had every write done what it says
  exact       \* no access so far was unaligned, beyond CFGBYTES or an outw

devVars == <<dev, asked, exact>>

Bytes == ({"pci"} \X (0..(CFGBYTES - 1))) \cup ({"io"} \X (0..(IOBYTES - 1)))
Span(space, from, size) == {space} \X (from..(from + size - 1))
Written(f, span, tag) == [b \in Bytes |-> IF b \in span THEN tag ELSE f[b]]

DevInit == dev = [b \in Bytes |-> 0] /\ asked = dev /\ exact = TRUE

(* Mutant: the data port is not moved within the double word. *)
PciFirstWhole(off, size) == 4 * ((off % CFGBYTES) \div 4)

(* The first byte of an access.  pci_read and pci_write take an uint8_t, pciaddr
   names the double word it is in, and the data port is moved by offset & 3
   for a byte and by offset & 2 for a word. *)
PciFirst(off, size) ==
  LET o == off % CFGBYTES
  IN 4 * (o \div 4) + (IF size = 4 THEN 0 ELSE size * ((o % 4) \div size))

(* laihost_pci_readb, readw, readd: pci_read returns an uint8_t, the low byte. *)
pci_read(off, size) == dev[<<"pci", PciFirst(off, size)>>]

(* laihost_pci_writeb, writew, writed. *)
pci_write(off, size, tag) ==
  /\ dev' = Written(dev, Span("pci", PciFirst(off, size), size), tag)
  /\ asked' = Written(asked, Span("pci", off, size), tag)
  /\ exact' = (exact /\ off % size = 0 /\ off + size <= CFGBYTES)

(* laihost_outb, outw, outd: laihost_outw calls port_outb. *)
OutSize(size) == IF size = 2 THEN 1 ELSE size
PortOut(port, size, tag) ==
  /\ dev' = Written(dev, Span("io", port, OutSize(size)), tag)
  /\ asked' = Written(asked, Span("io", port, size), tag)
  /\ exact' = (exact /\ size # 2)

DevNext ==
  \E size \in {1, 2, 4}, tag \in Tags :
    \/ \E off \in Offsets : pci_write(off, size, tag)
    \/ \E port \in 0..(IOBYTES - 4) : PortOut(port, size, tag)

(* PCI accesses of every width reach the bytes they name, and byte reads return
   them, as long as offsets are aligned and fit the uint8_t of pci_write; wider
   reads return the low byte.  Ports hold what was written unless a word was. *)
DevicesExact ==
  exact => /\ dev = asked
           /\ \A off \in 0..(CFGBYTES - 1), size \in {1, 2, 4} :
                off % size = 0 => pci_read(off, size) = asked[<<"pci", off>>]
=============================================================================
