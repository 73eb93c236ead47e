# NaES: a verification development

NaES is a Nintendo Entertainment System on a MAX10 FPGA: a 6502 core (T65), a
picture processing unit that draws VGA, sprite DMA, and a Nios II softcore whose
C program drives a USB keyboard and hands its key codes to the controller port.
This directory holds TLA+ models of the project's own logic, the TLC runs that
check them on small instances, and proofs checked by TLAPS that hold for every
value of the constants.

## Inventory of the system

| Part | Source | State | Operations | Hard part |
|---|---|---|---|---|
| Sprite DMA | `dma.sv`, `nes.sv:99-102` | FSM, byte counter, source page | trigger on a write to `$4014`, read, write, finish | takes the bus from a running CPU; the CPU stops two cycles after the write |
| Data bus | `databus.sv` | none | address decode, data multiplexer, write enables | also decodes the DMA's address; the frozen CPU's write line still counts |
| PPU registers | `ppu.sv:89-221` | control, mask, status, scroll, VRAM address and its latch, OAM address, pipelined increments, palette | CPU accesses to `$2000-$2007` | two clock domains, a latch shared by two registers, increments one cycle late, side effects of reads |
| Vertical blank and NMI | `ppu.sv:116-127,234`, T65 `NMI_n` | status bit 7 | set on line 480, cleared on line 524 and by a read of `$2002` | a read racing the set; a DMA that hides the edge from the CPU |
| Sprite scan | `ppu.sv:444-573` | FSM, scan address, fetched bytes, counts, sprite-0 bits | one scan per line, hand-over on odd lines | OAM changes while it scans; must end before the hand-over |
| Background fetch | `ppu.sv:264-442` | tile, attribute and pattern latches | one fetch of four bytes per 16 pixels | phases against pixel column, scroll and the end of a line |
| Pixel output | `ppu.sv:575-707` | sprite-0 hit, scroll for the frame | multiplexing background and sprites | priority, sprite-0 hit |
| VGA controller | `VGA_controller.sv` | two counters, registered syncs | one step per pixel | off-by-ones of registered outputs |
| Controller adapter | `control_adapter.sv` | shift register, strobe edge | strobe, serial read | three key codes that change one at a time |
| USB host task | `software/usb_kb/usb_kb/transfer.c:229-442`, `MAX3421E.c`, `main.c` | task state, device table, timers | settle, reset, enumerate, configure, poll | attach and detach at any time, interrupts that change the task state, failed transfers, timer wrap |
| USB transfers | `transfer.c:77-227` | retry and NAK counts, data toggles | control and IN transfers | lost acknowledgements, time-outs, stale interrupts, retries |
| HID driver | `HID.c`, `main.c:26-60` | which probe runs, what the device has been told | probe, configure, poll | orders whose answer gets lost, a device that goes in between |
| ROM converter | `utils/nes-hex.py` | none | iNES image to `.mif` files | pure |
| CPU | `t65/` | vendored 6502 core | | modelled only as far as its bus cycles and its NMI input go |
| Vendored or generated | `nios/`, `software/*_bsp`, PLL, RAM and ROM wrappers, `MIF_FILES` | | | not modelled |

How they interact: CPU, DMA and PPU registers share one clock (`cpu_clk`, 1.79 MHz)
and one data bus. The PPU's drawing logic runs on `vga_clk` (25 MHz) and shares the
RAMs' second port, the line and column counters and the status bits with it. The
Nios program talks to the MAX3421E over SPI, to the keyboard over USB, and writes
up to three key codes into parallel ports that the controller adapter reads.

## Modules

| Module | Models | Extends or instantiates | Run |
|---|---|---|---|
| `OamDma` | sprite DMA, the bus, OAM's write port, the CPU's bus cycles | `PageCopy` (refinement) | `oam_dma` |
| `PageCopy` | the promise of sprite DMA: an atomic copy of a page | | |
| `OamDmaProofs` | theorems about `OamDma` | `OamDma`, TLAPS | |
| `VgaTiming` | the VGA controller | | `bg_fetch`, `vga_vsync` |
| `BgFetch` | fetching, latching and showing the background's tiles | `VgaTiming` | `bg_fetch` |
| `BgFetchProofs` | theorems about `VgaTiming` and `BgFetch` | `BgFetch`, TLAPS | |
| `VblankNmi` | the vertical-blank flag, the NMI line and the CPU that samples it | | `vblank_nmi` |
| `VblankNmiProofs` | theorems about `VblankNmi` | `VblankNmi`, TLAPS | |
| `SpriteScan` | the scan of OAM and the hand-over to the pixel logic | | `sprite_scan` |
| `SpritePixels` | which sprite a pixel shows, and the sprite-0 flag | `SpriteScan` | `sprite_scan` |
| `SpriteProofs` | theorems about `SpriteScan` and `SpritePixels` | `SpritePixels`, TLAPS | |
| `PpuRegs` | the registers `$2000-$2007` and what lies behind them | `VramPort` (refinement) | `ppu_regs` |
| `VramPort` | the promise of the registers: a memory behind an address | | |
| `PpuRegsProofs` | theorems about `PpuRegs` | `PpuRegs`, TLAPS | |
| `KbController` | key code ports, controller adapter, reads of `$4016` | | `kb_controller` |
| `KbControllerProofs` | theorems about `KbController` | `KbController`, TLAPS | |
| `UsbHost` | main loop, interrupt handler and USB task of the Nios program | | `usb_host`, `usb_missed`, `usb_detach` |
| `UsbHostProofs` | theorems about `UsbHost` | `UsbHost`, TLAPS | |
| `UsbTransfer` | one USB transfer, packet by packet, over a bus that loses packets | | `hid_session` |
| `HidSession` | the probes, the configuration and the polls, call by call | `UsbTransfer`, `ReportStream` (refinement) | `hid_session`, `hid_nak` |
| `ReportStream` | the promise of polling: each report is read once, in order | | |
| `HidSessionProofs` | theorems about `HidSession` | `HidSession`, TLAPS | |

An `MC` module gives a specification the small instance TLC checks it on; the
`.cfg` of the same name says which constants and properties. Inside a module,
definitions introduced with `Mutant:` are plausible slips in the code
(a dropped guard, a missing reset, an off-by-one); no specification uses them, but
putting one in the place of the definition after it makes a property of the module's
run fail. They show that the properties say something about the code.

The models meet at their edges rather than in one product. `VblankNmi` takes from
`OamDma` that a transfer stops the CPU two clocks after the store and for a fixed time;
`OamDma`, `PpuRegs` and `SpriteScan` share OAM, and each lets the others do to it
what they may (a cleared `OAMADDR` at any clock, writes to OAM at any clock);
`UsbHost` takes a transfer as one step with any outcome and says when a device is polled, `HidSession` takes a
transfer packet by packet and says what a poll brings, `KbController` what a keyboard's report does. Two compositions are
checked as one: `SpritePixels` is `SpriteScan` with the pixel logic that reads its slots, `BgFetch` is `VgaTiming` with the
fetches its counters drive.

## OamDma

`Tick` is one positive edge of `cpu_clk`. It performs one transition of the dma
state machine together with everything else clocked by that edge: the write
ports of RAM and OAM, the OAM address register, and the CPU's next bus cycle when
it is enabled (`nes.sv:100`, `Enable = ~DMA`). `dstate`, `ctr` and `prefix` are the
registers of `dma.sv`; `Stay`, `Start`, `Begin`, `Read`, `Advance` and `Finish` are its
transitions; `INT_ADDR`, `BUS_OUT` and `SYSRAM_EN` are the signals of
`databus.sv`. `Press` and `Release` are the reset button, which the dma module
does not know of. The CPU is reduced to the order of its reads and writes
(`NextCycle`): after the last write of an instruction come two reads, a
read-modify-write writes twice to one address, and several writes in a row
(the stack) only reach RAM.

The design leans on exactly that order. `dma.sv` waits one state (`DLY`) before it stops the
CPU; the bus multiplexer still looks at the write line of the stopped CPU, so the CPU had better
be stopped in a read. `FrozenInRead` says so; without `DLY` an `INC $4014` would break it.
`CopiedSoFar` and `TransferIsExact` say what is in OAM during and after a
transfer, `RequestIsServed` that the CPU is given the bus back, and `ImplementsPageCopy` that no
store of the program ever falls between two bytes of one transfer. An `INC $4014`
copies the page that is read first, since only the first of its two writes is latched.

*Bounds.* Pages of two bytes suffice for a first, a last and a next byte; four pages give
RAM, a mirror of it, I/O and ROM. The program may read and write any of the addresses
that mean something different: a mirror of RAM, `$4014` and `$2004`.
*Fairness.* Weak fairness of `Tick`: the clock runs. Pressing the button is never required.
*Proved* (`OamDmaProofs`, for any sizes, memory map and set of addresses the program uses):
`TypeOK`, `FrozenInRead`, `CopiedSoFar`, `TransferIsExact` and `ImplementsPageCopy`.
The inductive invariant adds `Discipline` to the first three: in `DLY`
the CPU is in the second write of a read-modify-write on `$4014` or in the
first of the two reads that follow, and a write to a register is an instruction's last or last but
one. `FrozenInRead` alone is not inductive, as it says nothing of the state before
the CPU is stopped. `RequestIsServed` stays with TLC.

## VgaTiming and BgFetch

`VgaTiming` has the two counters and the two registered sync outputs, one step per pixel, with the
asynchronous reset. `HsyncAligned` says that the horizontal pulse lies on the pixels the comment names, despite the register's
delay, and `SyncsAreBlanked` that no pixel of the picture is shown within a pulse, the first ones after the ends of
line and frame included. Both are proved for any raster whose sizes are in the order `SizesAssumption` names (`HsyncPlace`,
`PictureIsWhole`). The pixel of the reset itself is excepted: both outputs are low there (`Fresh`; and a
step of `Reset` is not one of `Clock`). The vertical pulse lies on lines 489 and 490, not on 490 and 491
as the comment at `VGA_controller.sv:90` has it: comparing the next line starts a line early, where comparing the next
pixel is right. The run `vga_vsync` checks the comment's lines (`VsyncAtLines`) on a raster of 12 by 15 and finds them
missed; `VsyncPlace` proves where the pulse is, for any raster.

`BgFetch` adds what `ppu.sv:264-442` does at each pixel: `Ask` gives the memories an address, `LatchNext` takes
what they were asked for a clock ago, `ShowNext` shows the tile when the one before is over, and `TakeScroll`
takes the vertical scroll over once a frame. `Column` and `Row` are the tile to fetch, with the
code's folding over the four name tables (`ovr_x`, `ovr_y`, `Chip`). Bytes are symbolic: a byte is the address it was
read at, so that a tile on the screen tells which name table, row, column, plane and pattern table it came from. The
program writes scroll and control while the picture is drawn (`WriteScrollX`, `WriteScrollY`, `WriteControl`).

`TilesAreRight` compares the tile shown at every pixel with `WantedTile`, which is
worked out from the scroll registers alone. `steady` and `frameY` say which writes may be seen: a vertical scroll waits
for the next frame, a horizontal one is right again from the next line on. So is a vertical one that comes in the last
32 pixels before the picture, while the first tile is fetched. `Fetchable`
names the tiles the code has no way of getting right, each of which TLC shows wrong without it:

- with a fine horizontal scroll the second tile of a line repeats the first, as both are fetched at the end of
  the line above, in the time of one and a half;
- with a vertical scroll the first tile of each line but line 0 comes from row `(dry + 1) >> (1 + scroll)`:
  `+` binds closer than `>>` (`ppu.sv:294`);
- the tile that is only begun at the right edge is right only if the fine scroll is 4 or more.

Vertical scrolls of `Height` dots and more (240 to 255) at the top of a frame are left out too (`frameY < Height`): the
code folds them into the table below on every line but the first, whose first tile it takes from beyond the table's rows.

*Bounds.* Eight by five tiles of two dots, two pixels to the dot, in a raster of 176 by 25 that keeps
`SizesFit`: the phase at the end of a line is that of the code's 800 pixels. Scrolls
with fine part 0, 3, 4 and 5, with and without crossing the table's edge, a vertical one
that wraps and one that is too large; writes at a pixel within a line, at one between two and at one within the
fetch at the end of a line.
*Proved* (`BgFetchProofs`): the pulses, and `TilesAreRight` for pictures and tiles of any size that keeps `SizesFit`, any
scrolls and any pixels to write them at. `Done` says which bytes the eight phases of a fetch have got
so far. The inductive invariant applies it twice: along a line to the tile after the one shown (`LineInv`), and
at the end of a line to the first tile of the next one, which is fetched whole in the places 16 to 31 counted from where
a tile would begin there (`EdgeInv`). `inTime` is the condition under which a line has time for the next tile, and it is
from there that `Fetchable` gets its odd cases. The lemmas at the beginning show that the
code's wrapped sums of pixel and scroll name the same table, column and phase as plain division does.

## VblankNmi

`Clock` is one clock of `cpu_clk`; the raster is a counter `pos` of CPU clocks that
starts with line 480. `StepVbl` is `status[7]` with the code's order of
priorities: a read of `$2002` wins over the setting on line 480 and over the
clearing on line 524 (`ppu.sv:120-125`). The CPU runs instructions of all
lengths that end with an access to the bus, samples NMI as the T65 does (not in the second clock of
a branch, which has two to four, not while it is stopped) and takes it between instructions. The history variables
`armed`, `quiet`, `polls`, `seen`, `got` and `taken` say what happened in this frame.

`FrameHasNmi`: a program that leaves `control[7]` set gets an NMI in every
frame, whatever it reads and whenever it starts a DMA. This holds because the flag is
set on every clock of line 480: a read that clears it in the very clock of the setting
loses nothing. The price is that a read on line 480 raises the NMI
a second time; `QuietFrameHasOneNmi` says that nothing else does. `PollGetsFlag` is the
promise to programs that poll, and `FrameStartsClean` that nothing is left over. A read brings the `bus_out` of
before, so that a program that reads `$2002` once in a frame does not get the flag of that frame; `PollGetsFlag` says
that of two reads while the flag stands to be seen the second, at the latest, brings the 1 that a read of this frame
latched. It speaks of programs that do not use `bus_out` for another register in between (reads of `$2004`,
accesses to `$2007`), which the model leaves out.

*Bounds.* The lines are scaled down (8, 16, 3 and 26 clocks; DMA 10; NMI sequence 4), with
the relations kept that the assumptions name. The set line outlasts every
instruction, and a transfer hides either line whole. A transfer, the NMI sequence and two instructions fit
between the setting and the clearing (`DmaFitsInVblank`); from the clearing on there is time for an
instruction, the sequence and two transfers before the next setting (`DmaFitsInDrawing`).
In the code the lines are 57, 2446, 57 and 27300 clocks, a transfer 512 and the sequence 7.
*Proved* (`VblankNmiProofs`), for all lengths in these relations: all five properties. What a frame
owes its program depends on clocks, so the inductive invariant counts them. `Wait` is the time to the end of
the instruction, with the transfer in it; `Blind` the time until the NMI line is sampled. `EdgeInv` says that, until the NMI
is taken, either the edge is pending and the instruction ends within the frame, or the line was sampled high, is
low now and is sampled again within a transfer and two clocks. That the line was high at all when the frame began is
`StartInv`, which rests on `LateInv` for the frame before. `OnceInv` is what makes it only one. `FlagInv` has what
polling needs: a flag that stood was seen, and what was seen is still latched or has been brought.

## SpriteScan and SpritePixels

`Clock` is one positive edge of `vga_clk`. `Begin`, `Stay`, `MainRead`, `Hit`, `Miss`,
`Latch` and `IncrRead` are the transitions of the state machine (`ppu.sv:444-555`),
`HandRows` and `HandPattern` the hand-over on odd lines (`ppu.sv:557-573`); OAM and pattern
ROM answer a clock late. `Write` is the CPU's or the DMA's port of OAM, at any clock, and a read of
the byte being written gives anything. `Reset` resets all but the scan's state, as the
code does.

The reference is stated straight from OAM: `Sprites`, `Hits`, `Shown`, `Rank` and `TileLine`
say which sprites a line crosses, which eight of them it shows, in which slot
and with which line of the tile. `SlotsAreShown` compares the slots with it, provided OAM was not
written since the scan began (`stable`); `SlotZeroIsSpriteZero` does so for the sprite-0
bit. Whatever is written to OAM: `ScanEndsInTime`, `SpriteZeroIsDrawn` (the bit never stands for an empty line)
and `NoneInBlank`.

`SpritePixels` adds the pixel logic (`ppu.sv:609-644`) and the sprite-0 flag. `opaque` and
`shown` are the loop over the slots, `bitAt` the mirroring; whether the background is opaque is an input
(`bg_en`, any value at any clock). The reference, `foremost`, again looks at OAM alone: the first sprite of the line,
among those there was room for, that has an opaque pixel at this column. `FirstSpriteIsShown` says that the
pixel shows it, `HitIsSpriteZero` that the flag is raised just where sprite 0 is the one to be seen and the background
is opaque. Beyond the right edge (columns are compared up to 399, and the slots
change at `HandAt`) the flag may be raised although nothing is drawn, but only by a sprite 0 that reaches
over the edge. The left margin hides nine columns of sprites, 0 to 8, not eight (`(drx>>1) > 8`, `ppu.sv:613`).

*Bounds.* Three sprites of which a line shows two, tiles of two lines and six columns, patterns
that differ in line, plane and half, one sprite upside down and two mirrored, overlapping, the first one
over the right edge; a picture of eight screen lines and a blank one. `TimeAssumption` is the
condition under which the scan fits into its part of a line; with the
code's sizes it reads 256 + 14*8 + 24 <= 2*512, and the instance is tight, 12 + 28 + 24 = 64.
*Proved* (`SpriteProofs`), for every size, pattern and content of OAM: everything the run checks. The inductive
invariant has one part for each thing that could go wrong:

- `InTime` bounds twice the column by the address, the sprites kept and the bytes latched; `InPlace` keeps
  the address within OAM and the count within the slots. The two need each other, and give `ScanEndsInTime`.
- `RestInv`, `CountInv`, `LastInv` and `BlankInv` hold whatever is written to OAM: the scan rests when a line
  begins, counts at least the sprite 0 it has found, and finds nothing for the last line.
- `ScanInv` is for a scan that is undisturbed: the slots hold the sprites below the address, each in the slot of its rank.
  The rank is a cardinality, and the lemmas on `Below` say how it grows.
- `HandInv` is the hand-over: what has been asked for, what has arrived, and for which slot.
- `DrawnInv` takes the slots through the two screen lines they are drawn on (`SlotsStand`).

`FirstSpriteIsShown` then compares two minima, over the slots and over OAM, by the
rank that maps one onto the other. `SpritePixels` only adds variables (`PixelsAddOnly`), so the invariant of the scan
holds of it as well.

## PpuRegs

One step is one clock of `cpu_clk`: `ReadRegister`, `WriteRegister`, `NoAccess` or `Reset`. Each
register is a function of the access (`StepAddr`, `StepLatch`, `StepScroll`, `StepOamAddr`,
`StepControl`, `StepBusOut`), and `WriteMem` has the write ports. The
decode of nametables and palette (`tableA`, `nmtAddr`, `palette_addr`) is the
code's. `ImplementsVramPort` says that this is the port of `VramPort`: a single
address that moves on at once, and a cell for each address by the map of the original machine
(`CellAt`). The refinement mapping adds the increment that is still due to the address.

Two things a reader should know. `bus_out` is registered at the same edge at which the
CPU samples the bus, so a read brings what the register read *before* it fetched. For `$2007` the
original machine does the same; here it is so for all registers, and with it for `$2002`.
And the code has no case for a write of `$2003`: OAM is filled by DMA.
`mayAccess` is an assumption about programs: two accesses in successive clocks go to the same
register and not to `$2004` or `$2007` (no program in practice does read-modify-write
there; the address would not move on in between). The mask register is plain storage
and left out, and of the control register only the stride is kept.

*Bounds.* Eight addresses of pattern ROM, two bytes to a nametable with all four ranges and
their mirrors, eight of palette (one entry of them answers at two addresses), eight that mean nothing; `MaxStores`
bounds the stores of a behaviour to one, as each cell's content is independent of the others'.
*Proved* (`PpuRegsProofs`), for all sizes that `SizesAssumption` relates and without a bound on the stores:
`TypeOK` and `ImplementsVramPort`. The inductive invariant adds `DueInv`, that an increment is due only in the clock
after the access that caused it; with `mayAccess` no two fall together. Most of the proof is about addresses: that the
code's decoding and the map of the original machine name the same cell for each address, mirrors included
(`CellOfTable`, `CellOfPalette`), so that a store changes the one cell it should and no other (`StoresCell`).

## KbController

`Poll` brings a report of the keyboard, `SetKeycode` writes one port of three; `RamTick` is
a tick of the adapter's clock and `NextCycle` the CPU's next bus cycle, which comes
after one or more ticks. `SerialBits` says that each read brings its button of the moment the strobe
ended. `NoPhantom` and `HeldIsSeen` say what a strobe can see in the middle of
the copying: no button that neither report holds down, and every button
both hold down in the same entry. A key that moves to another entry can be missed for a moment.

*Bounds.* Five reports press, release and reorder A, right and up. There is no bound on the ticks
in a cycle; reads are counted up to nine (eight buttons, then 1s).
*Proved* (`KbControllerProofs`): all four properties, for all reports. The inductive invariant
says what the shift register holds after `n` shifts (`ShiftInv`), what the edge
detector remembers (`EdgeInv`) and how far the ports hold the new report (`PortInv`).

Not modelled: that the bits of one port may settle at different times between the two
clocks; and that nothing clears the ports when a keyboard is unplugged with a key held down.

## UsbHost

`pc` is the place in the main loop: `MAX3421E_Task` with its handler in two
steps (look at the bus, acknowledge), `USB_Task`, and the rest of `main`. Every state of
`USB_Task` is an action. The chip is `CONDETIRQ`, `BUSEVENTIRQ`, `BUSRST` and `LOWSPEED`;
`epinfo`, `devclass` and `hid_addr` are what the program keeps of the device table. The world
plugs and unplugs devices of any kind (`Plug`, `Unplug`), ends resets (`ResetDone`) and moves the clock (`Tick`). The
end of a reset may raise the connection interrupt (`ResetRaises`), as `MAX3421E.c:142-145` says it does; since the
repository does not say when, or whether always, the runs leave it open. A transfer is one step, which may fail even
if it reached the device, and can only succeed if the device that answers to
the address is there and has the speed the chip is set to.

States have the numbers of the code since the handler increments them: 2 and 5 are
`INITIALIZE` and `ILLEGAL` after a leftover bus event, two states nobody named. The sample of the
bus is taken to be current, as the write that starts it is commented out (`MAX3421E.c:135`).
A bus reset leaves the sample as it is. The first-SOF test
always succeeds, and `SOFKAENAB` is left out. `ERROR` (0xff) is outside
the values `USB_Task` switches on and reaches its default. `device` of `main` has no initial
value in C; no action reads it before `FirstPass` sets it.

`TracksBus`: as long as no change was missed (`seen`), the task is detached just when there is no usable
device, and the chip has the speed of the one there is. `EntriesAreThere`: the
entries that are polled point to endpoints, and are those of the
device that was configured, with its class. `EachIsReported`: each device that gets to
`RUNNING` has its class asked for anew; it rests on `main` noticing that nothing runs
before the task gets that far again. `LedIsRunning`, proved only: between passes the LED tells whether a device runs.
`SettleEnds` and `ComesToRest` are the liveness properties, and each has a proviso, without which TLC finds it violated:

- The millisecond clock goes back to 0 every 71.6 minutes (`transfer.c:277-281`). A settle timer set in the last
  200 ms before that is never exceeded, and the device hangs in `SETTLE` until it is unplugged. `SettleEnds` is about the timers
  that are not `timerTooLate`, and `ComesToRest` allows a rest in `SETTLE` only with one that is.
- A reset that ends between `MAX3421E_Task` and `USB_Task` (`EndsUnseen`) is over for the task before its interrupt
  is handled. The handler then finds the task in `WAIT_SOF`, not in `WAIT_RESET_COMPLETE`, takes the interrupt for a
  connection and starts the task over, with another reset. Nothing in the code ends this, and fairness does not
  exclude that every reset ends there; so `ComesToRest` speaks of the behaviours in which, from some time on, none does
  and nobody touches the plug.

*Bounds.* `usb_host` has two usable kinds of device, of different speed and class, two addresses and a clock of three
values, on which the settle timer can be set both safely and too close to the end. Two addresses are enough to run out
of them. A device that holds both lines high (`SE1`, the state `ILLEGAL`) is not among the kinds of the run, since TLC
needs too long with it; the theorems are about all kinds. In `usb_host` a reset may raise the
connection interrupt or not (`ResetRaises = {TRUE, FALSE}`); in `usb_missed` and `usb_detach` it never does, so
that what they show does not depend on it.
*Fairness.* The loop goes on (its waits have time-outs, but for the one for the
chip's oscillator, `MAX3421E.c:115`, which is taken to start), the clock runs, a reset ends.
`LoopMs` bounds the time of a pass while the timer is waited for.
*Proved* (`UsbHostProofs`): `TypeOK`, `TracksBus`, `EntriesAreThere`, `LedIsRunning` and
`EachIsReported`, for any number of addresses, devices and clock values. The inductive invariant adds
what `main` remembers of a device (`FlagInv`), that the chip and the table are
initialised before any pass (`BootInv`), and that entries are taken in order, so that the
entry polled is the last (`TableInv`), which `GetDriverandReport` relies on.

## UsbTransfer and HidSession

`UsbTransfer` is `transfer.c:77-227`: a call goes through the stages `setup`, `data` and `status`, or for a poll
`data` alone. A step is one pass of the loop in `XferDispatchPkt`: a packet is sent and its result looked at.
`Nak` and `NoAnswer` count and retry, `OtherError` ends the call (it stands for the five-second time-out,
too), `Data` is a packet from the device. `Data(FALSE)` is the case protocols are made for: the host
has the packet, and its acknowledgement is lost; `LostStatus` is the other one: the device has done what it
was told, and the host does not hear of it. The device keeps its own toggle and place for each endpoint (`tog`, `pos`),
the host its toggle per endpoint (`rcvToggle`) and the chip the one in use (`RCVTOG`). A packet with the wrong toggle is
taken for a repetition, and the call returns `TOGERR`, as in the code.

`HidSession` is what runs the calls: the probe for mice, then the one for keyboards (`HID.c:16-206`), the two
questions of `main.c` and the polls. What a call returned decides which is next
(`GotHead` to `Polled`, one action for each). `Enumerate` is a device that has got its address from `UsbHost`; it comes
between two passes of the loop, while `Leave` may strike at any packet. Descriptors are
symbols in the order they are received; a device that is not told of, whose interface is another one, or whose configuration
does not fit into `bigbuf`, is among those checked. The interrupt endpoint is number 1 in
every device, as the code takes it to be.

`ControlIsExact`: a control transfer that has got to its status stage has received what was asked for, in order and
once, or all there is of it. `PolledIsConfigured`: what is polled has
taken both orders and has the interface it is polled for, although the answers to the orders may have been lost; or
it is gone. `ReadsEachReportOnce` is the refinement of `ReportStream`: the device makes reports one after the
other, and each is read exactly once before the next is made. The mapping says that a report is open until it has been
read, not until the device has heard so: between the two, toggles differ and the repeated
packet is dropped. It relies on `HID_init` taking `rcvToggle` back for every new device, and on
`WellSized` devices. `CallEnds` and `ReportArrives` are the liveness properties.

*Bounds.* Four devices (a keyboard with several packets to a descriptor, a mouse with one, one of another class, and one with
too long a configuration), limits of three NAKs and three time-outs, three reports, so that a
toggle comes round. Lengths are units of which a poll asks for two and a configuration's head has three.
*Fairness.* Weak fairness of `Host` and `Program`: the loop runs. Strong fairness of `Heard` for `ReportArrives`
only: a poll that is repeated for ever while a report waits gets through some time. Nothing is assumed of the device
or of the loss of any single packet.
*Proved* (`HidSessionProofs`), for all limits, packet sizes, lengths, devices and numbers of reports: `TypeOK`,
`ControlIsExact`, `PolledIsConfigured` and, for well-sized devices, `ReadsEachReportOnce`. The first three come from
one inductive invariant: which stages a request has (`StageInv`), that while the toggles agree the buffer is
the part of the answer the device has sent (`ControlInv`; when they do not, the next packet ends the
call), and what the device has been told by the time a request is made (`DriverInv`). The refinement has one of its own,
`PollInv`: the saved toggle equals the device's exactly when no report is open that has been read. The
liveness properties stay with TLC.

## What the runs found

- `usb_missed`: a device plugged in or out between the look at the bus and the acknowledgement
  of the interrupt is not noticed (`MAX3421E.c:247-251`).
- `usb_detach`: a bus event left over from the last reset makes `INITIALIZE` state 2, and the device
  table of the unplugged device is not cleared (`MAX3421E.c:247`). The same event takes
  `ATTACHED` to `SETTLE`, past the setting of the timer.
- `vga_vsync`: the vertical pulse lies on lines 489 and 490; the comment at `VGA_controller.sv:90` says 490 and 491.
- `hid_nak`: `main.c:164` and `182` take NAK to mean that there is no new data. A report that fills a
  packet and is shorter than the eight bytes a poll asks for is read and acknowledged; the transfer goes on asking,
  returns NAK after 200 of them, and the report is thrown away (`transfer.c:165-217`). `rcvToggle` is not saved
  either, so that the next report is taken for a repetition. `WellSized` excludes such devices from the other run.

What is stated in the sections above and has no run of its own, since no document contradicts it or it is a property's
proviso: the tiles outside `Fetchable`, the width of the left margin, the sprite-0 flag beyond the right edge,
the settle timer at the wrap of the clock, and the reset that ends unseen.

## What is not modelled, and why

- A late answer: after the time-out of `XferDispatchPkt` (`transfer.c:153-163`) the chip may still finish the transfer, and its
  interrupt is then taken for that of the next. `OtherError` ends the call as the code does, but the chip's later
  interrupt is not modelled, as the repository does not say what the chip does with a transfer that is
  overtaken by another.
- The endpoint number of a device, and addresses other than the first in `GetIdle` and `GetProto`: fixed in the code (`HID.c:173`,
  `main.c:42-60`).
- The colour tables and the multiplexer behind the choice of the pixel: no state, and no statement of the
  repository to compare them with.
- The rendering part of `$2001`, but for the sprites' margin: plain storage.
- The ROM converter (`utils/nes-hex.py`): a script that is run once per cartridge and copies two slices of a file.
- What a mouse report prints.
- The CPU beyond its bus cycles and its NMI input: vendored.
- `ppu_bus.sv` is instantiated nowhere; `HexDriver.sv` has no state; the PLLs, the
  RAM and ROM wrappers, the Nios system and its board support are generated (they are most of the
  repository's lines), and `software/NES_KB_Adapter` is an older copy of the USB program.
- Metastability between `cpu_clk`, `vga_clk`, `ram_clk` and the Nios clock. Where two clocks share
  data the models interleave their edges, and a memory that is read while written gives any byte.

Liveness and everything with `ENABLED` is checked by TLC only.

## What is left

Every module of the table above is written, and every invariant, action property and refinement the passing runs check
has a theorem. What remains:

1. Liveness stays with TLC: `RequestIsServed`, `SettleEnds`, `ComesToRest`, `CallEnds` and `ReportArrives`.
2. Theorems on what the provisos exclude: that the first tile of a line is shown from the row `(dry + 1) >> (1 + scroll)` of
   the code, and that only a sprite 0 over the right edge raises its flag there.
