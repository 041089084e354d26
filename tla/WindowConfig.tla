---------------------------- MODULE WindowConfig ----------------------------
(***************************************************************************)
(* The 32-bit window configuration word that software writes to CSR 0x801, *)
(* the hart keeps in CSR 0x800, and the port keeps in word 31 of a task's  *)
(* stack frame:  [31:16] = size,  [15:0] = base.                           *)
(***************************************************************************)
EXTENDS Integers

\* The weight of one half-word of a configuration word.
Half == 65536

\* ( ulSize << 16 ) | ( ulBase & 0xFFFF ), in 32 bits.
ulWindowConfig(base, size) == (size % Half) * Half + (base % Half)

window_base(cfg) == cfg % Half

window_size(cfg) == (cfg \div Half) % Half

\* A configuration word taken apart, as the register file uses it.
Window(cfg) == [base |-> window_base(cfg), size |-> window_size(cfg)]
=============================================================================
