----------------------------- MODULE UsbStorage -----------------------------
(***************************************************************************)
(* The two parts of the USB storage stack that keep state between calls:   *)
(* the heap its drivers allocate from, and the card with its requests.     *)
(***************************************************************************)
EXTENDS UsbMemory, UsbDisk

\* usb_memalign, usb_free, disk_read and disk_write: blocks tile the heap, what
\* is handed out overlaps nothing, and nothing is refused that fits; a request
\* that succeeds has moved each of its sectors once, on a medium that has them.
StorageSound == HeapInv /\ DiskInv
=============================================================================
