---------------------------- MODULE CVA6Pipeline ----------------------------
(***************************************************************************)
(* The CVA6 pipeline around the windowed register file: instructions read  *)
(* their operand when they issue, from the scoreboard or through the       *)
(* window in force, and write the register file in order when they commit. *)
(* CVA6Window executes one instruction at a time; this module is about how *)
(* far the pipeline looks like that. One source operand stands for all:    *)
(* the read ports are alike.                                               *)
(***************************************************************************)
EXTENDS CVA6Window, Sequences

CONSTANTS
  NR_SB_ENTRIES,  \* scoreboard entries (8 in cv32a6_imac_sv32)
  Shapes          \* source and destination registers of the program's instructions

ASSUME PipelineAssumption ==
  /\ NR_SB_ENTRIES \in Nat \ {0}
  /\ Data \subseteq Configs
  /\ Shapes \subseteq Regs \X Regs

VARIABLE sb     \* the scoreboard: issued and not yet committed, oldest first

pipeVars == <<vars, sb>>

win == Window(window_config_q)

\* Functional units. ALU stands for every fixed-latency unit but the CSR buffer,
\* LOAD for the load-store unit: a store is a LOAD with destination x0, and an
\* instruction that issues with an exception (an ecall, an interrupt) counts as
\* one that faults. "csr" is any CSR instruction that writes no window CSR.
CsrOps == {"csrw800", "csrw801", "csr", "mret"}
Ops == {"ALU", "LOAD"} \cup CsrOps

\* What a register or a window CSR can hold: what software puts there, and the
\* word of the kernel's window.
Word == Configs \cup {0, DEFAULT_WINDOW_CONFIG}

\* A scoreboard entry. opa is the operand that went to the functional unit;
\* result is set at write back. racing (history): a csrw 0x800 was in the
\* scoreboard when this instruction read its operand.
Entries == [op : Ops, rs : Regs, opa : Word, rd : Regs, result : Word,
            valid : BOOLEAN, ex : BOOLEAN, racing : BOOLEAN]

-----------------------------------------------------------------------------
\* Seeded fault: the oldest matching entry is forwarded.
FirstWriter(s, r) ==
  CHOOSE j \in DOMAIN s : s[j].rd = r /\ \A k \in 1 .. j - 1 : s[k].rd # r

\* raw_checker: the youngest instruction in s that writes r.
LastWriter(s, r) ==
  CHOOSE j \in DOMAIN s : s[j].rd = r /\ \A k \in j + 1 .. Len(s) : s[k].rd # r

HasRaw(s, r) == r # 0 /\ \E j \in DOMAIN s : s[j].rd = r

\* A result is forwarded once it is there, unless it is a CSR's: that one is
\* only known at commit.
Forwardable(e) == e.valid /\ ~e.ex /\ e.op \notin CsrOps

\* stall_raw
OperandReady(r) == HasRaw(sb, r) => Forwardable(sb[LastWriter(sb, r)])

\* forwarding_operand_select: the register numbers decide, not the registers.
Operand(r) == IF HasRaw(sb, r) THEN sb[LastWriter(sb, r)].result
                               ELSE Read(mem, win, r)

\* The one-entry CSR buffer is occupied: nothing else issues to a fixed-latency
\* unit until the CSR instruction commits.
CsrPending == \E j \in DOMAIN sb : sb[j].op \in CsrOps

\* Seeded fault: the CSR buffer does not hold back the ALU.
UnitFreeAlways(op, csr_commit) == op \notin CsrOps \/ ~CsrPending \/ csr_commit

\* structural_hazards, csr_ready_o, flu_ready_o
UnitFree(op, csr_commit) == op = "LOAD" \/ ~CsrPending \/ csr_commit

\* The new entry. The result of a fixed-latency unit is on its write-back port in
\* the next cycle, the first in which anything can use it; a CSR instruction's is
\* its operand.
Issued(op, rs, rd, v) ==
  [op |-> op, rs |-> rs, opa |-> Operand(rs), rd |-> rd,
   result |-> IF op \in CsrOps THEN Operand(rs) ELSE v,
   valid |-> op # "LOAD", ex |-> FALSE,
   racing |-> \E j \in DOMAIN sb : sb[j].op = "csrw800"]

\* csrw and mret have no destination, mret no source; where there is no result, or
\* none yet, the value is 0.
Instructions ==
  {i \in [op : Ops, rs : Regs, rd : Regs, v : Data] :
     /\ i.op \in {"ALU", "LOAD", "csr"} => <<i.rs, i.rd>> \in Shapes
     /\ i.op \in {"csrw800", "csrw801", "mret"} => i.rd = 0
     /\ i.op = "mret" => i.rs = 0
     /\ i.op # "ALU" \/ i.rd = 0 => i.v = 0}

\* Seeded fault: the scoreboard takes an instruction when it is full.
IssueWhenFull(csr_commit) ==
  {<<>>} \cup
  {<<Issued(i.op, i.rs, i.rd, i.v)>> :
     i \in {i \in Instructions : UnitFree(i.op, csr_commit) /\ OperandReady(i.rs)}}

\* What the issue stage adds in a cycle: nothing, or one instruction whose unit
\* is free and whose operand is available.
Issue(csr_commit) ==
  {<<>>} \cup
  {<<Issued(i.op, i.rs, i.rd, i.v)>> :
     i \in {i \in Instructions :
              /\ Len(sb) < NR_SB_ENTRIES
              /\ UnitFree(i.op, csr_commit)
              /\ OperandReady(i.rs)}}

-----------------------------------------------------------------------------
PipeInit == Init /\ sb = <<>>

\* The load-store unit finishes with any value, or with a fault.
Writeback(i, v, ex) ==
  /\ ~sb[i].valid
  /\ ex \/ sb[i].rd = 0 => v = 0
  /\ sb' = [sb EXCEPT ![i] = [@ EXCEPT !.valid = TRUE, !.result = v, !.ex = ex]]
  /\ UNCHANGED vars

Retirable(e) == e.valid /\ ~e.ex

\* n instructions leave the scoreboard, and in the same cycle the issue stage may
\* add one that saw the old one.
Advance(n, csr_commit) ==
  \E new \in Issue(csr_commit) : sb' = SubSeq(sb, n + 1, Len(sb)) \o new

\* A cycle without a commit.
IssueOnly ==
  /\ Advance(0, FALSE)
  /\ UNCHANGED vars

\* Commit port 1: everything but CSR instructions.
CommitOne ==
  /\ sb # <<>> /\ Retirable(sb[1]) /\ sb[1].op \notin CsrOps
  /\ mem' = Write(mem, win, sb[1].rd, sb[1].result)
  /\ UNCHANGED <<window_config_q, prev_window_config_q>>
  /\ Advance(1, FALSE)

\* Both ports. The second takes no CSR instruction, and its write wins when
\* both name one register.
CommitTwo ==
  /\ Len(sb) >= 2
  /\ Retirable(sb[1]) /\ sb[1].op \notin CsrOps
  /\ Retirable(sb[2]) /\ sb[2].op \notin CsrOps
  /\ mem' = Write(Write(mem, win, sb[1].rd, sb[1].result), win, sb[2].rd, sb[2].result)
  /\ UNCHANGED <<window_config_q, prev_window_config_q>>
  /\ Advance(2, FALSE)

\* csrw 0x800: no flush. The old word goes to x0, through the old window.
CommitCsrw800 ==
  /\ sb # <<>> /\ Retirable(sb[1]) /\ sb[1].op = "csrw800"
  /\ mem' = Write(mem, win, sb[1].rd, window_config_q)
  /\ window_config_q' = sb[1].result
  /\ UNCHANGED prev_window_config_q
  /\ Advance(1, TRUE)

CommitCsrw801 ==
  /\ sb # <<>> /\ Retirable(sb[1]) /\ sb[1].op = "csrw801"
  /\ mem' = Write(mem, win, sb[1].rd, prev_window_config_q)
  /\ prev_window_config_q' = sb[1].result
  /\ UNCHANGED window_config_q
  /\ Advance(1, TRUE)

\* Any other CSR instruction: reads v, and some flush the pipeline.
CommitCsr(v) ==
  /\ sb # <<>> /\ Retirable(sb[1]) /\ sb[1].op = "csr"
  /\ mem' = Write(mem, win, sb[1].rd, v)
  /\ UNCHANGED <<window_config_q, prev_window_config_q>>
  /\ Advance(1, TRUE) \/ sb' = <<>>

\* Seeded fault: the return from the trap does not flush.
CommitMretNoFlush ==
  /\ sb # <<>> /\ Retirable(sb[1]) /\ sb[1].op = "mret"
  /\ mem' = Write(mem, win, 0, 0)
  /\ window_config_q' = prev_window_config_q
  /\ UNCHANGED prev_window_config_q
  /\ Advance(1, TRUE)

\* mret is a CSR instruction that reads no CSR: 0 goes to x0.
CommitMret ==
  /\ sb # <<>> /\ Retirable(sb[1]) /\ sb[1].op = "mret"
  /\ mem' = Write(mem, win, 0, 0)
  /\ window_config_q' = prev_window_config_q
  /\ UNCHANGED prev_window_config_q
  /\ sb' = <<>>

\* The oldest instruction has an exception, or a CSR access turns out illegal.
TakeException ==
  /\ sb # <<>> /\ sb[1].valid
  /\ sb[1].ex \/ sb[1].op = "csr"
  /\ Trap
  /\ sb' = <<>>

PipeReset == Reset /\ sb' = <<>>

PipeNext ==
  \/ PipeReset
  \/ \E i \in DOMAIN sb, v \in Data, ex \in BOOLEAN : Writeback(i, v, ex)
  \/ IssueOnly \/ CommitOne \/ CommitTwo
  \/ CommitCsrw800 \/ CommitCsrw801
  \/ \E v \in Data : CommitCsr(v)
  \/ CommitMret
  \/ TakeException

PipeSpec == PipeInit /\ [][PipeNext]_pipeVars

-----------------------------------------------------------------------------
\* Every variable keeps its type.
PipeTypeOK ==
  /\ mem \in [Phys -> Word]
  /\ window_config_q \in Word
  /\ prev_window_config_q \in Word
  /\ sb \in Seq(Entries) /\ Len(sb) <= NR_SB_ENTRIES

\* An instruction commits with the operand that executing the program one
\* instruction at a time would give it: what its source register reads, through
\* the window in force, when every older instruction has written. The two
\* exceptions are the two ways the window escapes the scoreboard: a source
\* outside the window (forwarding compares register numbers and does not know
\* the window), and an instruction that issued behind a csrw 0x800 (the write
\* does not flush). Trap entry and mret are not exceptions.
RetiresArchitecturally ==
  sb # <<>> /\ Retirable(sb[1]) /\ ~sb[1].racing /\ InWindow(win, sb[1].rs) =>
    sb[1].opa = Read(mem, win, sb[1].rs)

\* Only loads and stores can be in flight behind a CSR instruction, so a
\* csrw 0x800 races with them and with the one instruction that issues while it
\* commits; csrw 0x801 and the mret that uses it are never in flight together.
CsrSerialises ==
  \A i, j \in DOMAIN sb :
    i < j /\ sb[i].op \in CsrOps => sb[j].op = "LOAD"

\* The window changes under no instruction that has issued, other than those that
\* race with a csrw 0x800: trap entry and mret empty the scoreboard, so that an
\* instruction of a task never writes through the kernel's window, nor the
\* reverse.
MappingChangesAlone ==
  [][window_config_q' # window_config_q => \A i \in DOMAIN sb' : sb'[i].racing]_pipeVars
=============================================================================
