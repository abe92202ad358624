# TLA+ models of the ECE391 kernel (mp3_group_29)

This directory holds TLA+ models of the x86 teaching kernel in
`src/mp3_group_29/student-distrib`, the TLC configurations that check them and
TLAPS proofs about the components. File names below without a path are in
`student-distrib`.

## The system

One CPU, three text terminals, six process slots. A PIT interrupt hands the CPU
from terminal to terminal; the keyboard interrupt edits the input line of the
visible terminal; the RTC interrupt counts for the terminal that has the CPU.
Programs make ten system calls (`systemcall_wrap.S`). All gates of the IDT are
interrupt gates (`idt.c`), so handlers and system calls run with interrupts off,
except where the code sets IF itself: `write` (`systemcall_handler.c:567`),
`RTC_read` (`rtc.c:207`) and the end of `RTC_handler` (`rtc.c:135`).

The repository lacks `pit.c`, `term_switch.c`, `terminal.c` and `cursor.c`; what
they must do is inferred from the variables and functions the present files share
with them, and those definitions are marked external in `PROJECT.json`.

### Components

| component | state | operations | interacts with |
|---|---|---|---|
| processes (`systemcall_handler.c`) | `id_array`, the pcbs, `pcb_arr`, `current_id`, `current_pcb_ptr`, TSS, `pid_vidmap_flag`, kernel stacks | `execute_handler`, `init_shell`, `halt_handler`, `vidmap_handler`, `getargs_handler` | paging, scheduler (`term_pid_array`, `termN`), file system |
| system calls and descriptors (`systemcall_wrap.S`, `systemcall_handler.c`) | `fd_array` of each pcb | dispatch of the call number, `open`, `read`, `write`, `close`, the tables of operations | file system, RTC, terminal through the tables |
| paging (`paging.c`) | directory entries 32 and 34, entry of 0xB8000, vidmap table | `paging_init`, `set_page`, `set_video_mem`, `undo_vidmap`, `switch_term_vim` | called by processes, keyboard, scheduler |
| scheduler, terminal switch (missing) | `cur_execute_term`, `cur_vis_term`, `term_pid_array`, saved contexts | PIT handler, `term_switch` | processes, paging |
| exceptions (`exception_handler.c`) | `global_flag_exception` | `exception_handler` | `halt_handler` reads the flag |
| RTC (`rtc.c`) | an interrupt counter and a rate per terminal | `RTC_handler`, `RTC_open/read/write/close` | descriptors, scheduler |
| keyboard (`keyboard.c`) | `SCAC`, `CAPSLOCK_HOLDON`, `CAPS_state`, per terminal `key_buf`, `curr_idx`, `line_buf`, `read_flag` | `keyboard_handler`, `convert_to_ascii` | terminal reads, paging, console |
| console (`lib.c`) | cursors, video pages, `video_mem_t` | `putc`, `putct`, `printf`, `clear`, `reset_screen` | paging, keyboard, `write` |
| file system (`filesystem.c`) | `last_dentry`, `last_read`, `dir_open_file_idx`, positions in pcbs | `dir_read`, `file_read`, `read_data`, `execute_read`, ... | descriptors, execute |
| interrupt controller (`i8259.c`) | mask, request and in-service bits of two chips | `i8259_init`, `enable_irq`, `send_eoi` | all drivers |
| IDT and stubs (`idt.c`, `*_wrap.S`) | the gates, IF | `idt_init`, entry and `iret` | every handler |
| boot (`kernel.c`) | - | the order of the initialisations, `sti` | controllers, drivers |
| user programs (`syscalls/`) | - | the shell's loop, `cat`, the tests of `syserr` | system calls |
| kernel tests, host tools | - | - | - |

### What is hard here

- **Interrupt points.** `execute`, `halt`, `open`, `close`, `vidmap` and both
  interrupt handlers are atomic with respect to each other because IF stays
  clear. `RTC_read` and the `write` call set IF, so the RTC, keyboard and PIT
  handlers come between any two of their accesses.
- **State kept twice.** Who runs is recorded in `current_id`,
  `current_pcb_ptr`, the TSS, directory entry 32, the processor's stack and the
  scheduler's per-terminal copies; who called `vidmap` in the pcb and in
  `pid_vidmap_flag`; where the cursor is in `screen_x/y` and in
  `screen_x1`..`screen_y3`; how far a file was read in `last_read` and in the
  descriptor.
- **Half-finished handlers.** The scheduler switches inside the timer interrupt,
  so every process that waits has handlers on its kernel stack, each with an end
  of interrupt that must not be missing when another handler comes.
- **Shared singletons.** One vidmap table, one mapping of 0xB8000, one
  `last_read`, one `dir_open_file_idx`, one pair of RTC ports for three
  terminals and nested programs.
- **Limits.** Six slots for three terminals, eight descriptors, 128 characters of
  input, 25 x 80 cells, 4096-byte blocks.
- **Long legal sequences.** Nested `execute`, `halt` of first shells, re-used
  slots, terminals that lose the CPU in the middle of all that.

The full list, each entry at its line, is `hazards` in `PROJECT.json`.

## Modules

| module | models | proofs |
|---|---|---|
| `Paging` | the page tables as a record and `paging.c` as operators on it | - |
| `Kernel` | processes, descriptors' flags, scheduler, terminal switch, exceptions; uses `Paging` | `KernelProofs` |
| `JobControl` | abstract: a stack of jobs per terminal | - |
| `KernelRefinesJobControl` | the refinement mapping from `Kernel` to `JobControl` | `KernelProofs` |
| `Descriptors` | the system call gate, checks, operation tables and drivers as seen from a descriptor | `DescriptorsProofs` |
| `SysErr` | the test program `ece391syserr.c` on `Descriptors` | `DescriptorsProofs` |
| `Commands` | command line, name lookup, arguments, shell and `cat` (`MCCommands`: a directory for TLC) | `CommandsProofs` |
| `Rtc` | `rtc.c`, one access to a counter or port a step | `RtcProofs` |
| `FileData` | `file_open`, `file_read`, `execute_read`, the block copy loops | `FileDataProofs` |
| `Keyboard` | modifiers, tables and line buffers of `keyboard.c` | `KeyboardProofs` |
| `LineEditor` | abstract: what the keyboard promises to a reader of lines | `KeyboardProofs` |
| `Console` | `putct` access by access, `putc`, `reset_screen`, pages and cursors; uses `Paging` (`MCConsole`: a bound for TLC) | `ConsoleProofs` |
| `Interrupts` | both controllers, gates, boot order, handlers up to their end of interrupt | `InterruptsProofs` |

An operator named `X_Suffix` before `X` is a seeded fault: a version of `X` with
a plausible bug. `PROJECT.json` (`mutants`) lists, for every property, one that
makes the property fail; the specifications never use them.

### Kernel and Paging

A process is its slot. The pcb at `8MB - 8KB * (p + 1)` is `pcb[p]`; a pcb pointer
is the slot it points to; `NULL` is both -1 and the null pointer. A kernel stack
is named by its slot too: `cpu` is the stack the processor is on, `tss_esp0` the
one the next trap uses, `esp_when_execute` the one on which the frame of a pending
`execute` lies. `pcb[p].term` is a history field. Page tables are a record: the
program behind 128MB (`user`), the frame behind 0xB8000 (`vim`), and frame and
present bits of the vidmap page.

| action | code |
|---|---|
| `Execute`, `ExecuteRejects`, `ExecuteFails` | `execute_handler`: success; missing or non-ELF file; null command or no slot |
| `Halt`, `HaltBaseShell` | `halt_handler` with and without a parent |
| `Open`, `Close`, `Vidmap` | the calls; `Vidmap` only with a pointer that passes the checks |
| `StartTerminal` | a tick to a terminal without a shell: `init_shell` (external caller) |
| `Resume` | a tick to another terminal (external: `pit.c`) |
| `KeyboardEcho` | the two `switch_term_vim` around `putc` |
| `TermSwitch` | Alt+F1..F3 (external: `term_switch.c`) |
| `Fault`, `Spin` | `exception_handler` and its endless loop |

Left out: the bytes of commands, arguments and programs, attribute bits of page
table entries, failing `open`/`close`/`vidmap` calls (they change nothing).
What lies before `pid_vidmap_flag[0]` is a free choice (`VidmapFlagRead`).

Properties: `CpuCoherent`, `SlotsAccounted`, `CallersWait`,
`TerminalsKeepAProcess`, `VideoFrames`, `VidmapFlagsAgree`, `ConsoleOpen` and the
action properties `TerminalsIndependent` and `ExecuteReturnsToCaller`.
`ImplementsJobControl` says the whole of it abstractly: the chain of parents
below the process in front of a terminal is a stack, pushed by `execute`, popped
by `halt`, renewed when its last job ends, and no step touches two stacks.

### Descriptors and SysErr

Each terminal runs one program below its first shell. A call is one step, because
interrupts are off, or on only where nothing of this state is touched any more.
`system_call` is the check of `eax` and the jump table of `systemcall_wrap.S`;
`open`, `close`, `read` and `write` have the checks of `systemcall_handler.c` in
their order; `Operation` is the five tables. As in the code, descriptor 0 of a
new program gets the table named `stdout` and descriptor 1 the one named
`stdin`; their contents are exchanged too, so 0 reads and 1 writes. Every
driver's effect on the descriptor and on `dir_open_file_idx` is there; bytes are
left to `FileData`, mappings to `Kernel`. `file` and `listing` are history: which
entry was opened at a descriptor, and what it got of the directory and whether
another read of the directory came in between. `UndisturbedListings` is as much
as the code can promise with one index for all.

`SysErr` runs the eight tests of `ece391syserr.c`, call by call with the results
they expect, while another terminal
makes any call. `TestsPass` says the program never prints FAIL.

### Commands

A terminal's stack of programs, each with the command line it was started with.
`Program` and `Argument` are the loops of `execute_handler`, `read_dentry_by_name`
the lookup with `strncmp` on at most `NameLen` bytes, `getargs_handler` the copy
with its loop that runs to `nbytes - 1`. Slots keep the bytes of `execute_arg`
when they are freed, and a first shell has what was on the stack in it
(`Garbage`). A shell reads a line without its newline, `cat` calls `getargs`,
`open` and ends, any other program makes the three calls as it likes, with a
newline inside the command too. The properties compare with what the line says
(`UpToNewline`, `HasWord`, `HasRest`), which is defined without the loops. The
word `exit` is one character, since only its equality matters. Lines are shorter
than the arrays they are split into; a typed line is.

### Rtc

`RTC_open` is one step; `RTC_write` is counter, port 0x70, port 0x71; `RTC_read` is
entry, clear, spin, clear. `RTC_handler` and `Switch` may come in between. `cmos`
is the chip: selected register, rate, enable bit. Data written while C or D is
selected is lost, while B is selected it clears the enable bit, which is what
`ChipKeepsRate` is about: it holds because the handler selects C, never B, and
because a rate once set by `open` is never changed. `since`, a history
variable, counts the interrupts during a read for `ReadsWait`. `Doubled` and
`Halvings` are the loops of `RTC_vir_rate` and `check_power`.

### FileData

A byte is its offset, so a buffer is a sequence of offsets and block `i` holds the
offsets from `i * DATA_SIZE`. `Copied` is the loop of `read_data`, `CopyBlock` its body for one
block, with the arithmetic of the code, the wrong count at a block boundary
included.
`got` collects what a descriptor delivered: `ReadsFollowEachOther` says it is the
file without gap or repetition, although all descriptors go through the one
global `last_read`.

### Keyboard and LineEditor

`SCAC` is a set of modifier bits. A character is a pair of key and table, so that
`scancode_l`, `_u`, `_C` and `_Cu` differ exactly where the properties can tell.
`held` is the history of the modifier keys that are down. The buffers keep what
the code keeps: an erased character stays in `key_buf` behind the index and is
copied to `line_buf`. `ImplementsLineEditor` shows that none of it is visible:
the handler implements `LineEditor`, where a line is a sequence edited at its
end. The reader (`terminal_read`) is external, from the flags it shares with the
handler: it sets `terminal_enabled` and takes a line when `read_flag` is set.

### Console

`write` sets IF before it calls `terminal_write` (`systemcall_handler.c:567`), and
nothing in the repository clears it again before the last character, so a key, a
switch of terminals or a tick may come between any two accesses of `putct`; after a
tick several terminals are inside it. One call is therefore these steps of the
terminal that runs, with the locals in `call`:

| step | code (`lib.c`) |
|---|---|
| `putct` | 267, the first test for the visible terminal |
| `CopyX`, `CopyY`, `SetVideoMemT` | 268-285, cursor to locals, address to `video_mem_t` |
| `Draw` | 288-362, the character, scroll included |
| `Retest` | 363, the second test |
| `ShowX`, `ShowY` | 364-366, locals to the cursor of the display |
| `SaveX`, `SaveY` | 368-379, locals to the cursor of the terminal |

`video_mem_t` is one variable for all terminals, read again for every cell. If it
holds 0xB8000, a switch of terminals in the middle of drawing does no harm, because
that address is mapped to the page of the terminal that runs (`Drawn`). If it holds a
backing page, or another `putct` changes it, the rest of the character goes somewhere
else; this is what lets all writes of `Draw` be one step: such an event before `Draw`
marks the same terminals as one between its writes would.

The handlers and the `printf` of a system call run with IF clear, in one step: every
gate of `idt.c` is an interrupt gate and only `write` and `RTC_read` set IF in a call,
neither of which prints a message afterwards. `Put` is what `putc` and `putct` (the
same text twice in the code) do to one page and one cursor, `EchoFrame` the frame the
keyboard handler maps, `Message` a `printf` inside a system call, mapped by whatever
terminal runs.

Each terminal has a `tape`, its text without rows and columns, and
`TerminalsShowTheirText` compares page and cursor with it between two characters. Some
output goes wrong in the code; a terminal it has hit is marked in `strayed` and no
longer compared. These are all the causes, and none makes a terminal wrong that it
does not mark:

- `corner`: a backspace in the last cell;
- `message`: a message of a terminal in the background (marks it and the visible one);
- `reset`: Ctrl+L while another terminal runs (marks both);
- `race`, echo or Ctrl+L on the visible terminal after its `putct` copied the cursor:
  `putct` writes the old one back;
- `race`, two terminals in `putct` at once, one of which sets `video_mem_t` to its
  backing page before the other has drawn (marks both);
- `race`, a switch of terminals inside a `putct` (`Torn`): of the terminal that goes
  while it copies the cursor of the display, of the one that comes while it draws on
  its backing page or writes back, of any that comes while another is about to write
  the cursor of the display.

### Interrupts

`imr`, `irr` and `isr` are the registers of the two chips, `Wins` their priority
rule, `Chosen` the cascade over line 2. `mode[First]` is the place in the boot
sequence of `kernel.c`; devices may ask at each of them after `i8259_init`. A handler is the order of
its three acts that others can notice: it takes the data of its device, sends its
end of interrupt, sets IF or switches the process (`RTC_handler`,
`keyboard_handler`, `PIT_handler`). `kstack[p]` holds the handlers on the kernel
stack of `p`, with the place each has come to. `Deliver` pushes one on the stack of the
running process, `SwitchProcess` leaves a stack where it is and goes on with
another. `untaken` are devices that raise no new edge before they are read. The chips,
the devices and `PIT_handler` are external.

What a device asks before `i8259_init` is outside what is shown. ICW1 clears it, and
`keyboard_init` does not read port 0x60, so a key whose byte lies there by then would
never be taken and the keyboard would stay silent; the loader is taken to leave none.

## Runs

Checked with `tlc -config <cfg> <module>`; times are for two workers.

| run | instance | shows |
|---|---|---|
| `processes` | 3 terminals, 5 slots | slots, parents and terminals stay consistent through nested programs, restarted shells and full slots; no step touches another terminal; a child returns to its caller |
| `memory` | 2 terminals, 4 slots, 3 descriptors, vidmap, exceptions | TSS, page tables, flags and console descriptors always belong to the process that runs; `Kernel` implements `JobControl` |
| `system_calls` | 2 terminals, 4 descriptors, 3 entries | descriptors follow opens and closes; failed calls change nothing; undisturbed listings are complete; the repository's error tests pass |
| `commands` | 3 slots, 4 entries, lines of 4 characters | the program a line names runs, with its own arguments; `cat` opens the file it was given |
| `rtc` | 2 terminals, rates up to 8 | the chip keeps its rate; reads wait their full count and return; each terminal keeps the rate it asked for, a power of two |
| `file_reads` | blocks of 2 bytes, 2 files up to 4 bytes, 2 descriptors | reads deliver the file in order and to its end; `execute` loads whole programs |
| `keyboard` | 2 terminals, buffer of 2, one letter, four modifier keys | lines end in the buffer; modifiers follow the keys; Caps Lock changes once a press, else only at a switch; refinement of `LineEditor` |
| `screens` | 2 terminals, 2 x 2 cells, one glyph, 3 characters, `putct` in steps | terminals show their text but for the causes listed; cursors stay on the screen |
| `interrupts` | 2 processes, 3 drivers, one stray line | no end of interrupt is lost or given to another line; no device is stuck; every request is served |

Runs that end in a counterexample, each against a statement of the sources, with
the line in `findings`:

| run | what the code does |
|---|---|
| `halt_files` | `halt` closes the descriptors of the parent, not those of the program that ends |
| `halt_vidmap` | the halt of a child unmaps the vidmap page of its parent |
| `file_buffer` | a read that reaches a block boundary writes more bytes than asked for |

The models also contain, without a run of their own, places where code and
comment part, or where the code does something a reader may not expect:

- at 1024 Hz `Counter` is 0, so `RTC_read` does not wait ("blocks until next
  inerrupt", `rtc.c:199`);
- Alt and a key types a character (`Table`; "disabled", `keyboard.c:494`);
- a backspace in the last cell of the screen prints and scrolls (`Corner`;
  `lib.c:202` against 221);
- a `printf` in a system call of a terminal in the background takes and moves the
  cursor of the display (`Message`);
- a key echoed, a switch of terminals or another terminal's output inside a `putct`
  can leave an old cursor, or text on another page (the causes `race` of `Console`;
  `lib.c:267` to 379);
- Ctrl+L clears the page of the terminal that has the CPU, which need not be the
  visible one (`reset_screen`; `keyboard.c:489`, `lib.c:684`);
- an exception ends in an endless loop (`Spin`; `exception_handler.c:59`), so the
  branch that makes `halt` return 256 (`systemcall_handler.c:732`) is never taken;
- a listing that begins after another one was left off, or while another one is
  under way, misses entries (`DirEntry`; `filesystem.c:273`), and a `read` of no
  bytes from the directory passes an entry over;
- `getargs` with 0 bytes writes one (`Copied` of `Commands`);
- `execute_arg` of a first shell is not initialised (`Init` of `Commands`);
- both Shift keys share a bit (`Keyboard`), so releasing one releases both;
- `RTC_handler` sets IF before it returns (`rtc.c:135`), so nothing bounds how
  many of them lie on a stack (`Interrupts` bounds it with `MaxNested`).

### Bounds and why they are enough

- Slots and terminals: with 3 terminals and 5 slots the third shell, a full
  table, two levels of nesting on one terminal and a renewed shell in another slot
  all occur. The sixth slot adds depth only. Vidmap and files are in a run with 2
  terminals because the video pages depend on "visible or not" only.
- `NumFd = 3`: one descriptor beyond the console shows every effect of `halt` on
  descriptors. `NumFd = 2` where descriptors do not matter.
- Rates up to `2^MaxPower` with `MaxPower` 3: counters 0, 1 and 3; counts stop at
  `MaxCount`, which no rate waits beyond, so nothing is lost by saturation.
- Files: blocks of 2 and lengths up to 4 give reads that start and end before, at
  and after a boundary, in one or two blocks, at every position; `file_buffer`
  goes to length 5 and three blocks.
- Keyboard: a buffer of 2 can be empty, partly full and full with the newline; one
  letter is enough because the editor treats all alike and the tables are told
  apart by the pair (key, table). `KeyboardProofs` covers every size.
- Descriptors: two descriptors beyond the console give a lowest free one that is
  not the first, an array that is full, and re-use; three entries are one of each
  type; a second terminal is what can disturb. `Select` takes the numbers 0..9:
  each test, all of them, and one that is unknown.
- Commands: typed lines of four characters hold two words and spaces before, between
  and after; the three of a command that a program passes hold a newline with something
  on both sides or two words; one name is the start of another and two have the full length; the buffer is
  the shortest that is longer than a name with its NUL, as in `cat` (1024 bytes); three
  slots are nesting, re-use and a full table.
- Interrupts: two processes, so that a stack waits while another runs. Two bounds
  stand for the speed of the devices: none asks twice while another line waits
  (`recent`), none while `MaxNested` = 2 of its handlers are on a stack. Line 9
  stands for all lines without a driver; the proofs allow any.
- Console: 2 x 2 cells has a first, a last and no middle row; scroll, wrap, last
  cell and both margins meet there. `MCConsole` allows `MaxPrinted` = 3 characters,
  messages and resets in a behaviour, with any number of switches and ticks: two
  characters reach the second row, a third the scroll, the last cell or a margin, and
  three `putct`, echo or resets can be under way or come between. `ConsoleProofs` covers
  every number and every size. The state constraint `SomeRight` follows a
  behaviour only while some terminal is unmarked, since no property says
  anything afterwards.
- Deadlock is checked in every run.

### Fairness

- `Interrupts!Spec`: weak fairness of the boot sequence, of the steps of the running
  handler and of the return from a system call: the processor goes on. Strong
  fairness of `Deliver` for each line: a request that the controllers choose
  again and again is taken between two instructions, even if calls clear IF.
- `Rtc!Spec`: strong fairness, per terminal, of the program's own steps, of
  getting the CPU, and of an interrupt while it has it. The chip ticks at 1024 Hz
  and a time slice is many milliseconds, so every slice sees interrupts; the PIT
  goes round the terminals.
- `FileData!FairSpec` (run `file_reads`): weak fairness of a non-empty read on an open descriptor, the
  behaviour of a program such as `cat`.

## Proofs

All are checked by `tlapm` for every value of the constants allowed by the named
assumptions (`KernelAssumption`, `CommandsAssumption` and the like, one in each
module), which state that sizes are positive, values distinct and tables filled, and
what is true of the sizes in the code (at most three terminals, a buffer of `cat` that
is longer than a name).

**KernelProofs** (`TypeCorrect`, `Coherence`, `ParentsWait`, `SlotAccounting`,
`TerminalsKept`). None of the invariants is inductive alone: `halt` follows parent
links, so its result is a living process only if callers wait; callers wait only
if nobody else freed their slot, which needs the current process to be unique;
and a saved terminal is sound only if its process is not touched meanwhile. `IInv`
joins `TypeOK`, `CpuCoherent` and `CallersWait` with

- `Links`: `pcb_arr` points exactly to the pcbs in use, a free pcb is blank;
- `Fronts`: the process in front of a terminal is alive and started there;
- `Parked`: a terminal without the CPU was saved as one process, stack and pcb;
- `BootState`: before the first tick nothing was started;
- `Held`: a slot in use is in front of a terminal or waits for a child;
- `FrontsFree`: a process in front waits for no child;
- `OneChild`: a process waits for at most one child.

`IInv` is preserved action by action; `execute`, `halt` and the ticks have lemmas
of their own for what they leave of the links. `SlotsAccounted` and
`TerminalsKeepAProcess` follow from it.

`PcbInv` (`FlagsAgree`, `ConsoleStaysOpen`): the two copies of the vidmap flag agree
because a first shell never called `vidmap` (`ShellsNoVidmap`), so its restart,
which leaves the flag of the slot, leaves 0. `VideoInv` (`VideoGoesToOwnTerminal`)
needs that the vidmap page is off before the first shell (`BootVideo`), where
`pid_vidmap_flag[-1]` is read. The action properties `ReturnsToCaller` and
`TerminalsDoNotDisturb` follow step by step from `IInv`.

The refinement of `JobControl` (`RefinesJobControl`, also in `KernelProofs`) rests on
`StackInv`: some sequence of processes is the stack of the terminal (`StackAt`), each
alive, there once, and the child of the one below. No slot can be on it
twice (`StackFits`, by the pigeonhole principle), so following the links for
`MaxProc` steps finds all of it (`ChainIsStack`, by induction over the place in the
stack) and `JobsOf` is that sequence. `KeepStack`, `PushStack`, `PopStack` and
`NewStack` say what a step does to a stack from what it leaves of the links;
`ExecuteLinks` to `QuietLinks` say what each action leaves; together every action is
the step of `JobControl` of its name, or changes no stack and not the terminal that
runs.

**DescriptorsProofs** (`TypeCorrect`, `DescriptorsRight`, `ListingsRight`,
`ErrorsHarmless`, `TestsRight`, `TestsUseTheCalls`). Every call is one of five kinds of step: it only returns, it sets
one descriptor, moves a position, hands out a directory entry, or ends the
program. That `open` finds a lowest free descriptor is the well-foundedness of the
numbers. The listing invariant is inductive as it stands.
`TestsRight` proves that the test program `syserr` passes. `TInv` says how far the test
under way has come: in seven of them every call so far has failed and nothing but
the console is open (`AllFailed`); `err_open_lots` fills the table from the lowest
descriptor and empties it in that order (`OpenLots`). Each call of a test is then
one whose result the invariant decides, and each test starts with nothing open.
`TestsUseTheCalls`: the program makes calls of `Descriptors` only.

**FileDataProofs** (`TypeCorrect`, `PositionsBounded`, `ReadDataDelivers`,
`ReadsInSequence`, `ProgramsLoaded`). `CopiedStep` shows that the loop exists as a
function of the blocks done (`Iterate`). Its invariant `LoopInv` says that
before the last block the bytes copied end where the loop stands, and that the
count, which goes down by one byte too few in every block, is at least what is
left; so all blocks but the last are copied to their ends and the last one far
enough. `ReadDataDelivers` is the result for every block size, position and count;
the state invariants follow with it. Positions never pass the length because the
count is cut by what is left.

**RtcProofs** (`CheckPowerExact`, `TypeCorrect`, `ChipRight`, `ReadsNotShort`,
`RatesRight`). The two loops are recursive functions; `CheckPowerExact` shows by
induction that `check_power` returns k > 0 exactly for the k-th power of two, for
every integer. The state invariant adds that register B is never selected
after `RTC_init`, what each program under way has still to do, and that a counter
has gone down by no more than the interrupts since.

**InterruptsProofs** (`TypeCorrect`, `InServiceRight`, `WaitingRight`, `DevicesHeard`).
The invariant: while a handler has work left it is on top of the running stack
with IF clear, so no other comes before it is done; hence each controller has at
most one line in service, and a non-specific end of interrupt ends that one.

**KeyboardProofs** (`TypeCorrect`, `ModifiersRight`, `CapsRight`, `LinesEnd`, `Refines`). `MInv` says
that `CAPSLOCK_HOLDON` is "the key is down", which makes `CapsTogglesOncePerPress`
provable step by step. `FunctionKey` sets Caps Lock to whatever `term_switch` leaves in
`CAPS_state`, so a switch may change it, and nothing else but its own key does. `BInv` says newlines stand only in entered lines and the
index is inside the buffer; then Enter finds its own newline first, and storing,
erasing and entering map to `Append`, dropping the last element, and handing over
the sequence. `Refines` is the full refinement of `LineEditor`.

**ConsoleProofs** (`CursorsOnScreen`, `ScreensRight`): `Put` maps pages to pages and
cursors to cursors whatever the size of the screen, so no character is written outside
a page. For the text, `Matches` puts cell (y, x) at place y * NUM_COLS + x
(`Places`: one place per cell, and the row below is NUM_COLS further on);
`PutMatches` shows that a character keeps page and text alike in each case of `putc`
(scroll, wrap, erase across a margin) but the backspace in the last cell.
`CInv` joins `TypeOK` with `Truth`, whose part `Right(t)` says of an unmarked terminal
where its page and cursor stand at each point of its `putct`: `Drawing` while the
character is still to come (the copies agree with the cursor they were taken from, the
address drawn at is the terminal's page), `Drew` after it (the locals hold the cursor
the tape asks for, the cells written so far agree with them). `Apart` says that two
unmarked terminals never write the same place. One lemma per kind of step
(`ReadingRight`, `PageRight`, `DrawRight`, `WritingRight`, `VisibleRight`, `MessageRight`,
`ResetRight`, `SwitchRight`) shows that the causes marked are enough.

**CommandsProofs** (`NamesAreFollowed`, `ArgumentsStayOwn`, `CatOpensItsFile`). The
properties say what a line means without a loop (`HasWord`, `HasRest`); the code cuts
it with three loops. `Parsed` shows that these end at places u, m and v with
`Cut(c, u, m, v)`: a word up to u, spaces up to m, the rest up to v. Hence the word and
the rest are unique and are what `execute_handler` takes (`WordIs`, `RestIs`).
`strncmp` over 32 bytes is equality because a name that is longer was turned down
before (`Compares`, `Lookup`), and the bytes that `getargs` leaves read as the argument
or its start (`TextIs`). `CInv` then follows the argument: each pcb above the first
shell holds in `execute_arg` the argument of its own command in all its bytes, because
`execute_handler` writes the field to its end, and its slot is no other's
(`StackInv`); `GetargsInv` carries this to the buffer, `OpenInv` to the entry that
`cat` opens. An argument that is cut to the buffer of `cat` is too long for a name, and
so is what is left of it: this is where the proof needs the buffer to be longer than a
name and names to be in the directory once.

`NatInd` (induction over sets of numbers, from the well-foundedness of the numbers) and
`Iterate` (a recursive function exists) are stated in each of `RtcProofs`,
`FileDataProofs` and `KernelProofs`, where the functions are.

Every invariant, action property and refinement that a run checks is stated by a
theorem. Only model-checked: the liveness properties (`ReadsReturn`, `ReadsToTheEnd`,
`Served`), which are out of the prover's reach.

## Not modelled

- `pit.c`, `term_switch.c`, `terminal.c`, `cursor.c` are missing; only their
  effect on shared variables is modelled (external entries of `map`). Properties
  that depend on them hold under that reading.
- Boot: the multiboot report and the segment descriptors run once before interrupts;
  the steps that touch interrupts are in `Interrupts`, the result of the others is
  `Init`.
- `lib.c`: the conversions of `printf`, `itoa`, and the string and memory functions
  other than `strncmp`. Outside `lib.c` only `memcpy` is called, to copy a pcb and a
  name, which the models take as the copy it is.
- `disable_irq`, `read_dentry_by_index` and the `_cp2` variants in `filesystem.c` have
  no caller in the kernel.
- `terminal_write` is missing: `Console` takes it to call `putct` for each character
  and to leave IF as `write` set it. The single cells that `putct` writes for one
  character are one step (`Draw`), for the reason given under Console.
- The body of `term_switch` is missing: its effect on Caps Lock is left open
  (`Keyboard`), on pages and cursors it is taken from the variables it shares (`Console`).
- The user programs other than the shell, `cat` and `syserr` make system calls in
  some order; `Kernel`, `Descriptors` and `Commands` allow every order.
- `tests.c` (compiled out) and the host tools `createfs`, `elfconvert` and `fish`,
  which are not part of the kernel.

## Plan

Done, in this order: `Paging`, `Kernel`, `JobControl` with its refinement,
`KernelProofs`, `Rtc`, `FileData`, `Keyboard` with `LineEditor`, `Console`, their
proofs; then `Descriptors` with `SysErr`, `Interrupts`, `Commands`, and the proofs of
the video pages, descriptors, clock, interrupts, the copy loop and the screens; then
the refinement of `JobControl`, the test program and `Commands` as theorems.

`Console` was then split into the single accesses of `putct`, and `term_switch` left
free to change Caps Lock.

Left: nothing of the repository's kernel that a model could show; `pit.c`,
`term_switch.c` and `terminal.c` would come next if they were added to it.
