# LBW, modelled in TLA+

LBW runs unmodified Linux ix86 programs on Interix, the Unix subsystem of
Windows. The program runs natively; its `int 0x80` raises an access violation,
LBW's exception handler redirects it to a dispatcher, and one C++ function per
system call does the work with Interix calls. This directory holds TLA+ models
of the parts of that code which keep state of their own, TLC configurations
that check them, and proofs for TLAPS. Paths are relative to the root of the
repository's tree (`src/src/...`).

## 1. Inventory

| Component | State | Operations | Hard behaviour |
|---|---|---|---|
| Block store, `syscalls/mmap.cc` | `_blocks[]`, one Block per 64kB, 16 bits per FragmentedBlock; the process's memory | mmap, munmap, msync, MakeWriteable | 4kB pages shared by unrelated mappings of one block; calls that fail half way; conversion of mapped to fragmented blocks |
| Exception handler, `ehandler.cc`, `syscalls/thread.cc` | one static trampoline, code fragments, patched instructions, the TLS base | int 0x80, `%gs` instructions, code patching | a signal handler entered between building the trampoline and running it; patched code outliving the TLS base it was made for |
| File descriptors, `filesystem/FD.cc`, `syscalls/fd.cc` | the map from numbers to FD objects, beside Interix's own table | open, close, dup, dup2, pipe, fcntl | the two tables drifting apart: dup2, failed close, signal handlers, exec |
| Directory listing, `filesystem/FD.cc`, `InterixVFSNode.cc` | in each FD object a copy of the directory's names and a position in it | getdents, getdents64 | names that come and go between the copy and the lookup of each; the working directory as a scratch variable; handlers in the middle of a call |
| VFS, `filesystem/*VFSNode.cc`, `filesystem/VFS.cc`, `syscalls/file.cc` | root, cwd, a tree of nodes, Interix's working directory used as a scratch variable | path resolution and one call per file operation | symbolic links, `..`, chroot, paths relative to descriptors |
| exec, `exec/exec.cc`, `main.cc` | Options, and the environment that carries them to the next process | execve, process start | options lost or changed, and directories resolved anew, from one generation to the next |
| ELF loader and start-up, `exec/ElfLoader.cc`, `user.cc` | segments, load address, the executable's descriptor | Open, Load, RunElf | order of the mappings of segments that share pages; a descriptor nobody closes |
| Signals, `syscalls/signals.cc` | masks, actions and pending signals in Interix's terms | sigprocmask, sigaction, kill, tgkill | two numberings, converted in both directions; delivery inside the emulator |
| brk, `syscalls/memory.cc` | buffer and position | brk | limits, reuse |
| Processes, `syscalls/clone.cc`, `process.cc`, `user.cc` | the process lock, faked ids | fork, vfork, clone as fork, exit, wait, set*id | fork in a handler, in the middle of calls that hold the lock; the status a parent gets |
| Dispatch, errnos, time, poll, sockets, terminals, stat | none, or the kernel's | conversions around one Interix call | wrong conversions; an unknown errno ends the process |
| `Thread.cc`, `pm`, `tools`, `extras`, `website` | - | - | unused, or not part of the emulator |

How they interact: the dispatcher calls one handler per system call; the
handlers share the descriptor table, the VFS and the block store; the exception
handler calls the block store (`MakeWriteable`) before it patches code; the ELF
loader opens files through the VFS and maps them through the block store; exec
hands the options and the working directory to a new LBW process through
environment variables and file descriptors through Interix. There is one
process-wide recursive lock (`RAIILock`). `clone` supports only fork, so a
process has one thread; what interleaves is the program's signal handlers,
which run in the middle of emulated system calls, on the same thread, past that
lock.

What makes each part correct:

* block store: the program sees the memory Linux would show it; the bits of a
  block say exactly which pages are in use; memory in use is never freed, unused
  memory always is; the emulator survives any failed call;
* exception handler: every system call returns to the instruction after it and
  every `%gs` access goes to the current thread area, whatever signals arrive;
* descriptors: the object of a number describes what the number refers to;
* directory listing: every name that stays is told once, none that never was, and the
  listing ends;
* VFS: a path names what Linux would resolve it to, inside the chroot;
* exec: a program and its children run under the same options;
* signals and processes: a signal is the same one for its sender, in masks and in
  actions; what is sent is taken; no call waits for ever for a lock.

`PROJECT.json` lists the hazards line by line, with the properties that cover
them or the reason why none does yet.

## 2. Plan

Done (sections 3 to 6):

1. `LinuxMemory`, `BlockStore`, `BlockStoreProofs`, `BlockStoreMapProofs`: the memory calls, and the page
   table of Linux that they implement.
2. `FdTable`, `FdTableProofs`: Interix's descriptors beside LBW's FD objects, with
   signal handlers inside every call.
3. `ExceptionHandler`, `ExceptionHandlerProofs`: the trampoline, fragments and the TLS
   base under nested signal handlers.
4. `FileTree`, `FileTreeProofs`, `Vfs`: path resolution over a small tree with links, `..`, chroot,
   descriptors and the scratch working directory; the reference is resolution by
   Linux's rules.
5. `Exec`, `MCExec`, `ExecProofs`: generations of processes, and what the environment carries from
   one to the next. It extends `Vfs`, whose nodes it turns into paths and back.
6. `PosixSignals`, `Signals`, `MCSignals`, `SignalsProofs`: signals and processes. The
   abstract module says what POSIX says for one numbering of signals; it is used
   with Interix's numbers as the system below LBW and with Linux's as the promise above.
7. `Listing`, `MCListing`, `ListingProofs`: getdents.

Left, in this order:

1. `/dev` in `Vfs`: RootVFSNode and the fake nodes below it, whose `..` and whose
   directories are not Interix's.
2. The order in which the ELF loader maps segments that share pages, as a user of the
   block store's promise.
3. Signal handlers inside the memory calls, whose lock does not keep them out.

To be proved next, along the lines of `FileTreeProofs` (section 5): that the VFS's
resolution by nodes and the reference's walk by inodes agree from a fresh node, first
for one element of a path, then for the loops over elements and links. `ExecArrives`,
`PlacesAsLinux` and `CallsAsLinux` rest on it.

## 3. Modules

### LinuxMemory

The abstract specification: a table of 4kB pages (`view`) and whether the last
call succeeded (`ret`). Actions `MapAnonymous`, `MapFile`, `Unmap`, `Store`, `Sync`
(which leaves open whether Linux would have answered ENOMEM), and `Fail`, which may have done anything inside the span it named and nothing
outside it. It stands for the promise of the comment at
`src/src/syscalls/mmap.cc:22`.

### BlockStore

| Model | Code |
|---|---|
| `block[b]` | `_blocks[b]`: NULL, a FragmentedBlock with its set bits, or a MappedBlock with the pages within its length |
| `mem[p]` | the process's memory, one value per page: zeros, page k of the file, stored to by the program, or nothing mapped |
| `status` | running, or how the emulator ended: `abort()` in an assertion, a NULL pointer (`badsync` if an msync of pages the program never mapped met it, otherwise `crashed`), or a table that holds a deleted Block |
| `failures`, `ret` | a counter that bounds the failing calls; did the program's last call succeed |
| `vma` | history: what Linux's table would hold; "leaked" marks pages a failed call left in use |
| `FragmentedBlocks`, `FragmentedMem` | GetPageMap and UsePage over a span: create, or convert from mapped with the contents copied |
| `UnusedBlocks`, `UnusedMem` | UnusePage over a span, after whole blocks went through Unmap |
| `MappedBlocks`, `MappedMem` | Map: every block of the mapping replaced |
| `MmapAnonymous`, `MmapLoad`, `MmapMap` and their `...Fails` | do_mmap, its three ways and the points where Interix or the address range makes each fail |
| `MmapReadFails`, `MmapRefused` | pread fails; no area without MAP_FIXED |
| `Munmap`, `MunmapFails` | do_munmap: whole blocks, then loose pages |
| `Msync`, `MsyncFails`, `MsyncNull` | sys_msync of any span: every block is there; the range ends or Interix refuses; a block is not there and the NULL pointer is followed |
| `MakeWriteable`, `MakeWriteableFails` | MakeWriteable as copy_or_jump calls it, for every place of a 5-byte jump relative to a block boundary |
| `Store` | a store instruction of the program |

A call is one action: nothing runs between its steps but signal handlers that
themselves map memory, which are left out (a hazard at `mmap.cc:457`). Each `...Fails` action takes the block in which the call
fails as a parameter and does everything the code does before that point.

Operators named `...Uncopied`, `...FreeEarly`, `...KeepBit` and so on, marked
"Fault variant", are plausible mistakes in the operator that follows them.
No action uses them: they are there to show that each property would catch such
a mistake.

Three flags select what the program does. `ForceLoad` is `--forceload`. With
`TailSharing = FALSE` the program maps a file only over blocks in which it uses no
other page outside the span; with `PastEof = FALSE` it maps nothing beyond the end
of the file. Both default situations, sharing and mapping past the end, are
exercised where files are loaded; where they are mapped, the code is known to
fail (run `tail`, and msync through a NULL block), and the flags separate that
from everything else.

msync of pages the program never mapped is a bug of its own (`mmap.cc:549`): where Linux
answers ENOMEM, LBW looks up the Block of each 64kB without asking whether there is one,
and follows a NULL pointer, with `--forceload` and without, and without any failure. The
model lets the program make that call. It ends in the status `badsync`, and `StaysDefined`,
`DefinedUnlessFailed` and the theorems about them say that nothing else of the kind
happens. If the block exists for other pages' sake, msync of an unmapped page succeeds
where Linux would refuse; `Sync` promises nothing else.

### FdTable

| Model | Code |
|---|---|
| `kern[k]` | Interix's table: what number k is open on, a file or which directory |
| `fds[k]`, `obj[o]` | the map of FD.cc and the FD objects in it, with `_fd` and `_node` |
| `frame`, `level` | the system calls in progress: the program's, then one per signal handler inside the one before; each with the step it takes next and the object its `Ref` holds |
| `given` | the program's view: which numbers it was handed, and whether by opening a directory |
| `overlaid`, `interrupted` | history, used by the properties only |
| `Settle` | reference counts: an object that neither the map nor a `Ref` holds is deleted |
| `Get`, `NewFdo`, `SetFdo` | FD::Get and create_new_fdo, whose object is entered by the constructor and once more |
| `CloseKernel`, `CloseUnset`, `CloseRefused` | FD::Close: Interix's close, then the entry, then `_fd = -1` |
| `OpenKernel`, `OpenConstruct`, `OpenReturn` | open, openat and socket |
| `PipeKernel`, `PipeFirst`, `PipeSecond`, `PipeReturn` | pipe |
| `Dup` | dup, dup2, F_DUPFD |
| `ExecUnknown`, `ExecFails`, `ExecElf`, `Load`, `LoadFails` | execve with the descriptors it opens, the loader in the new process |

Every step of a call is an action and `Enter` may start a handler's call before any
of them: the program's handlers are installed with Interix itself, and the lock of
FD.cc is recursive. A handler names only numbers the program has been given; outside
handlers any number may be named, as programs that close every descriptor do. The
calls that do not change a table are one action, `Use`.

Two pairs of steps of the code are one step here, so that no handler runs between them:
FD::Set's insertion into the map and the first `Ref` on the new object (`FD.cc:51`, `103`,
`Construct` and `NewFdo`), where a handler's close would delete an object still in use; and
FD::Get's lookup and the copy of the `Ref` it found (`FD.cc:62`, `65`).

### ExceptionHandler

| Model | Code |
|---|---|
| `tramp` | handler_cb's static trampoline |
| `patch[l]` | the fragment instruction l now jumps to |
| `area` | the base kept under `linear_key` |
| `ctx`, `level` | where the program and each signal handler inside it is: in the program, between the exception and handler_cb, in the trampoline, patching, in a fragment, in Linux_MCE |
| `torn` | instructions of whose jump only the opcode is written |
| `Raise`, `HandleSysCall`, `HandleGs`, `HandleGsLoad`, `HandleExit` | the exception, and handler_cb's cases |
| `CopyLong`, `WriteTarget`, `CopyLongFails`, `JumpShort` | copy_or_jump; the jump is written in two stores |
| `Stray` | a signal handler runs an instruction between those two stores |
| `Push`, `RunTrampoline`, `RunFragment` | the code it wrote: push the return address, then the rest |
| `Kernel` | Linux_MCE and the system call, which may be set_thread_area |
| `Signal`, `SignalReturn` | a signal handler of the program, which starts anywhere and returns to where it interrupted |
| `access`, `overtaken` | history |

The program is abstract: which of its instructions trap, and how. `overtaken` records
that a signal handler trapped while another context was between its exception and
the end of its trampoline, or ran an instruction between the two stores of its jump.
The trampoline is shared, so nothing is promised after the first (the hazard at
`src/src/ehandler.cc:469`), and the second ends the process (`ehandler.cc:419`); the properties speak of
every other behaviour, in which signal handlers trap inside system calls, fragments,
a patch in progress and the program, patch the instruction another context is about
to run, and set the thread area.

### Listing

| Model | Code |
|---|---|
| `present[d]` | the names in Interix's directory d; `Fixed` directories do not change |
| `cwd` | Interix's working directory |
| `node[f]` | the directory of descriptor f's FD object |
| `dirdata[f]`, `contents[f]`, `pos[f]` | `_dirdata`: whether there is one, the names copied into it, how many were handed out or passed over |
| `calls` | the getdents calls in progress, the innermost handler's last: the descriptor, the next step, the room left in the buffer, whether anything was written, the name being looked up |
| `crashed` | a NULL directory was read, or memory beyond the end of the copy |
| `told`, `twice`, `stayed`, `known`, `ended`, `excused` | history |
| `Begin` | GetDents, GetDents64 up to the lock |
| `GetDirData` | get_dirdata: the empty copy is there before the directory is read |
| `Enumerate`, `EnumerateFails`, `OpenDirFails`, `ReadDir` | InterixVFSNode::Enumerate: chdir, which may fail; opendir, whose result is not looked at; readdir |
| `NothingLeft`, `Overrun` | the comparison of the position with the number of names |
| `Setup`, `SetupFails`, `Report`, `Skip`, `BufferFull` | the loop: StatFile's chdir and lstat, the entry, a name that has gone, a buffer that is full |
| `OpenDirectory`, `Close`, `PathCall` | the other calls that touch the object or the working directory |
| `Create`, `Remove` | other processes |

A handler's call may begin before any step of the calls it interrupts. Four things
excuse a descriptor from the promises, because the code fails after each: a handler
that reads the same descriptor in the middle of a call (`FD.cc:224`); one that moves
the working directory between a call's chdir and its use (`InterixVFSNode.cc:109`); a
chdir or opendir that Interix refuses (`FD.cc:188`); a buffer without room for one name,
which ends the listing. The theorem and the run speak of all other descriptors,
also while this happens to one of them.

### PosixSignals

For one numbering of signals: the life and parent of each process, the signal that
ended it, its mask, pending signals, actions and the handlers it is in. One action
per operation: `SetMask`, `SetAction`, `Send`, `Arrive`, `Fork`, `Exec`, `Exit`, `Wait`,
and delivery as `Discard`, `Terminate`, `Catch`, `Return`. It is Interix's part, external
to the code, and the abstract specification of LBW's. An action has a handler, a mask and
flags: SA_RESETHAND, SA_NODEFER (the signal is not blocked in its own handler), SA_SIGINFO
(the handler gets a siginfo_t, `info` of its frame) and SA_NOCLDWAIT (children do not become
zombies). exec clears the flags.

### Signals

| Model | Code |
|---|---|
| `life` ... `handlers` | Interix's, in Interix's numbers: `Interix == INSTANCE PosixSignals` |
| `calls[p]` | for the program and each handler it is in: no call that takes the lock, waiting for it, or holding it |
| `lock[p]` | the process's recursive mutex of `user.cc` |
| `savedSet[p]`, `savedAct[p]` | the mask and the action the program was last told, which it may put back |
| `made`, `arrived` | counters that bound the behaviours |
| `due`, `reported` | history: signals sent and not acted upon; statuses handed to parents |
| `convert_...` | the conversions of `signals.cc`. `convert_sigset_i2l` clears its source before it reads it (line 115) and so adds nothing to its destination |
| `Begin`, `Lock`, `Unlock` | a call that keeps the lock while it works |
| `sys32_rt_sigprocmask`, `sys32_rt_sigaction`, `sys32_kill`, `sys_tgkill` | the calls of these names |
| `RestoreMask`, `RestoreAction` | the same calls, with what the program was told before |
| `stub32_fork`, `sys_exit`, `sys32_waitpid`, `sys32_execve` | fork, vfork and clone; InitProcess makes the lock anew in the child; exit, wait, exec |
| `Deliver`, `Arrive`, `Return` | Interix: wherever the process is, also in the middle of a call |

Every call passes handler_cb, which takes the lock and releases it (`Enters`).
The program may ask for any flags; `Converted` keeps SA_RESETHAND and drops the others
without a word, as the code does (`signals.cc:212-220`, where the warnings are compiled
out).

`Linux == INSTANCE PosixSignals` has the signals of Linux that Interix has too, and maps
each variable by giving Interix's signals their Linux names. `ActsAsLinux` is more than
that refinement: `Obeyed` adds that a call does what the program named, so that a
conversion that consistently exchanged two signals would not pass.

What `ActsAsLinux` does not say, because the code does not do it. LBW departs from Linux for a
program that asks for one of the flags in `Lost` (SA_NODEFER, SA_SIGINFO, SA_NOCLDWAIT):
`Obeyed` compares each sigaction with one that did not ask for them (`Kept`), so from then on
"Linux" is Linux for such a program: the signal is blocked in its handler, no handler gets
a siginfo_t, children stay to be waited for. `website/broken.html:41-43` calls the
signal handling a broken mess, and says that Interix has no SA_SIGINFO. And a handler is called with Interix's number
(`signals.cc:222`): `NamedFrame` compares the signal that was caught, not the number the
handler is given.

SA_RESTART, SA_NOCLDSTOP and SA_ONSTACK are in no module: they are about interrupted calls,
stopped children and alternative stacks. `convert_sigset_l2i` has a list of signals of its
own (`signals.cc:79-107`) beside that of `convert_signal_l2i` (`154-182`); the two agree, and
the model has one numbering for both.

### FileTree

What Interix's kernel provides to the VFS, external to the code: directories, files
and links in a tree; `Walk`, POSIX's resolution by inodes; and mkdir, rmdir, unlink,
rename and link. `Walk` from the program's root is also what Linux would do, the
reference for `Vfs`.

### Vfs

| Model | Code |
|---|---|
| `tree`, `wd` | Interix's directories, and its working directory |
| `root`, `cwd`, `dirfd` | the nodes of VFS.cc, and of the directory opened last; a node is `[root, names]`, the real path of the root it was made under and the names below it |
| `frames` | the calls in progress, the program's and those of its signal handlers: resolved, ready (after `setup()`), checked (OpenFile's GetFileType), or failed |
| `got` | the object the last call reached |
| `options` | `Options` |
| `linux` | history: the directories Linux would have as root, working and open directory |
| `GetRealPath`, `Traverse`, `GetFileType`, `Opens`, `Touch` | the methods of InterixVFSNode and VFSNode; `Touch` is what `chdir(_path)` does to `wd` |
| `Visit`, `Descend`, `Visited` | VFSNode::Resolve: one element, entering what it led to, the loop over elements |
| `ReadLink`, `Nested` | the nested calls of Resolve for the paths of links; deeper than `MaxLinks` they count as a loop |
| `Resolve`, `ResolveFrom` | VFSNode::Resolve, VFS::Resolve: node, leaf, and the `wd` they leave |
| `Begin` | a system call up to the end of its resolution |
| `Refuse`, `Setup`, `Check` | `setup(name, e)`, `setup()`, OpenFile's check for a directory |
| `EnterPlace`, `OpenAgain` | chdir, fchdir, chroot, open with O_DIRECTORY; do_open after EISDIR |
| `Act` | the call itself, on a name relative to `wd` or an absolute second path |

One name stands for several calls where they differ in nothing modelled: `access` for
chmod, `stat` for fstatat, `unlink` for unlinkat. A handler's call starts between any two
steps and ends before the interrupted call goes on; inside a resolution no handler runs.

What Linux does is computed from `linux` and `tree` by `Walk`, never through nodes.
`CallsAsLinux` and `PlacesAsLinux` compare the two at the end of every call that
satisfies three conditions:

* the nodes it started from are fresh (`IsFresh`): their paths still lead, without links,
  to the directories Linux would hold by inode. A node is a path, so a rename above it
  or a removed directory breaks that (`InterixVFSNode.cc:36`);
* it was not `disturbed`: no handler made a call in the middle of it
  (`InterixVFSNode.cc:109`). The handlers' own calls are compared;
* it is none of the cases in `Differs`, where LBW departs from Linux whatever came before:
  `/` beside a descriptor, rmdir of `.`, O_CREAT on a directory, and, inside a chroot,
  a last name that Interix resolves by itself.

### Exec

| Model | Code |
|---|---|
| `phase` | the program runs, or a new LBW is about to set the root, the working directory, or to load |
| `env` | the `LBW_...` variables |
| `given`, `exe` | history: the options of the family's first process; the file Linux would run |
| `Program` | a step of `Vfs` |
| `Exec(path)` | Exec, probe_executable and linux_exec; eight variables leave no room for the end of the array (`Unterminated`), and the execve may then fail |
| `StartRoot`, `StartCWD`, `Load` | main of the new process, in the order in which it reads the variables, and ElfLoader::Open |

## 4. Runs

| Run | Configuration | Shows |
|---|---|---|
| `load` | `BlockStoreLoad.cfg` | with `--forceload`: types, `StaysDefined`, `BitsExact`, `MemoryInBlocks`, `EmptiedIsFreed`, and the refinement `ImplementsLinux`, with one call failing anywhere and msync of any span |
| `map` | `BlockStoreMap.cfg` | with files mapped: `LinuxUnlessDangling` and `DefinedUnlessFailed` |
| `tail` | `BlockStoreTail.cfg` | violation of `ProgramMemoryPresent`: mapping a file over the first page of a block takes the block's other page from the program |
| `cleanup` | `BlockStoreCleanup.cfg` | violation of `AssertionsHold`: Map's clean-up after a failure trips Unmap's assertion on the length |
| `fds` | `FdTable.cfg` | `NodeNeverWrong` with handlers inside calls, `MapExact` without, across exec |
| `traps` | `ExceptionHandler.cfg` | `EmulatorGoesOn`, `AccessesThreadArea`, `ReturnsToNext` with two signal handlers inside each other |
| `paths` | `Exec.cfg` | `CallsAsLinux`, `PlacesAsLinux`, `ExecArrives`, `FakeRootKept`: eighteen calls on two disks, with handlers' calls inside them, and execs between them |
| `forceload` | `ExecForceLoad.cfg` | violation of `ForceLoadKept`: one exec loses `--forceload` |
| `skipped` | `ExceptionHandlerFail.cfg` | violation of `NothingSkipped`: an instruction whose fragment cannot be made is not executed |
| `listing` | `Listing.cfg` | `ListsExactly`, `PositionInRange`, `CallsReturn`, `ListingEnds`, with names that come and go and a handler's calls inside a getdents |
| `signals` | `Signals.cfg` | the refinement and obedience `ActsAsLinux` (but for the flags in `Lost`), `LockBalanced`, `SentIsTaken`, `CallsEnd` with two processes |
| `status` | `SignalsStatus.cfg` | violation of `StatusesCompatible`: the parent of a child that SIGUSR2 ended is told SIGCHLD |

### Bounds of the block store

Two blocks of two pages: the smallest store in which a block has a used
and an unused page, a span covers a whole block and part of another, a span runs
past `RANGE_TOP`, and a failure can strike in the first or in a later block. A
file of three pages ends in the middle of a block. Lengths 1 and 3 give spans
inside a block and across the boundary, with whole and loose parts; offsets give
aligned and unaligned requests, and one that reaches past the end of the file.
One failing call per behaviour, at any point, with any sequence of calls before
and after it. `MaxFailures`, `Length`, `Offset` are the only bounds; nothing limits
the number of calls.

The run `map` has bounds of its own: a file of four pages, so that its blocks end where
the mapping does; lengths 1, 3 and 4, so that the mapping of two whole blocks can fail
in the second, which is the failure the emulator survives; offsets 0 and 2.

The emulator may stop, in `load` in an msync of pages that were never mapped, in `map` also
after a failure that leaves it aborted or with a dangling Block, so deadlock is not
checked.

### Bounds of the descriptor table

Two numbers (`FdCount`): one to close and one to reuse, a pipe that fills the table, a
dup2 onto an open number, and opens refused at the limit. Two directories, so that a
node can be that of another directory. Two calls in progress (`MaxDepth`): a handler
inside any step of a call. Any number of calls. The executable's own descriptor
occupies one of the numbers until the program closes it. The exclusions in
the properties are needed: without `overlaid`, dup2 over a directory's number leaves
the old node (`FD.cc:138`); without `interrupted`, a handler's close between the two
entries of create_new_fdo leaves an object whose number is -1 (`FD.cc:52`), and a
handler's open inside close loses its node (`FD.cc:126`). Exec may end the process, so
deadlock is not checked.

### Bounds of the exception handler

Seven instructions: two system calls, two long and one short `%gs` instruction, a load
of `%gs`, and one that does not trap, where signal handlers may return; the last
jumps to the first, so every instruction runs again after it was patched. Two signal
handlers inside each other, starting at any instruction. `MaxAreas = 1`:
set_thread_area takes effect once, in any context. With 2, `AccessesThreadArea`
fails, because patched instructions keep the base they were made with
(`ehandler.cc:231`). The emulator ends the process in `HandleExit`, so deadlock is
not checked.

### Bounds of paths and exec

Two disks of four directories, two files and two links, one relative through `..` and one
absolute, three levels deep; one of the directories and one file are spare, for mkdir and
mknod. The root is that of the disk or a directory below it (`--chroot`). Paths have up to
three names and contain `/`, `.`, `..` first and in the middle, and links first, in the
middle and last; pairs of paths, of rename and link, are taken from three of them.
`MaxCalls = 3` lets a chdir, chroot, opendir, rename or exec come before a call and after
another; `MaxDepth = 2` lets one handler make an open, an unlink or a chdir inside a
call. `MaxLinks`
bounds links within links; 5 is more than the links on either disk, so only a loop reaches it. All
options are set, so that each can be lost. `MaxCalls` ends every behaviour and
deadlock is not checked. The run `forceload` needs a single call.

### Bounds of the listing

Two names, the fewest for which a listing can tell one, stop, and lose, repeat or pass
over the other; both orders of the copy are taken. Buffers of one and of two, so that a
call ends because the buffer is full or because nothing is left; b takes two, so
that a buffer of one has no room for it. Two directories, one of which changes, so that
a lookup can go to a wrong one. One descriptor: another descriptor's listing touches
this one only through the working directory, which `PathCall` moves as well, and
the theorems hold for any number. `MaxDepth = 2`: a handler inside any step of a call.
Nothing bounds the number of calls or of changes. There is always a step, and
deadlock is checked.

### Bounds of signals

Four signals: SIGKILL, two whose numbers cross (Interix's SIGUSR2 is Linux's SIGCHLD),
and one that Interix does not have. Two processes, so that one forks, sends to and waits
for the other. One mask with all the others in it; an action that asks for SA_RESETHAND,
SA_NODEFER and SA_NOCLDWAIT at once, and the default; a handler that asks for SA_SIGINFO
from the beginning. `MaxCalls = 3`: enough for a fork in a handler that interrupted a call (a
call, the fork, a call of the child), or for changing, being told and
putting back. One signal from outside, which may arrive in the middle of a call. The
program's actions are set at the beginning in two ways, so that these calls
need not be spent on them. The program may stop calling, so deadlock is not checked.

### Fairness

`Signals`: a call that waits for the lock takes it when it can and one that holds it
ends; Interix delivers a signal that it can deliver; handlers return. Each is weak
fairness of one action of one process. Weak is enough because
`MaxCalls` and `MaxArrivals` let only finitely many handlers interrupt a call; without
these bounds it would take what `Listing` assumes. No fairness makes the
program call anything. `SentIsTaken` and `CallsEnd` follow.

`Listing`: at each depth, the call on top takes its next step: strong fairness, because
handlers may interrupt it again and again, and each time they have returned it goes on.
A handler that never returns, and an endless sequence of signals between two
steps, are thereby excluded; longjmp out of a handler is not modelled. `CallsReturn`
follows. `ListingEnds` is conditional: for a program that calls getdents on the
descriptor for ever. Other processes may create and remove names for ever in both.

The other modules have no property about progress and assume no fairness: their calls
are made by the program when it likes and end after a fixed number of steps.

## 5. Proofs

### BlockStoreProofs

It proves for every number and size of blocks, every file length
and every set of lengths and offsets, under `ForceLoad`:

* `Invariance`: the inductive invariant `Inv`, which is `TypeOK`, `StaysDefined`,
  `BitsExact`, `MemoryInBlocks` and `OnlyFragments` (no MappedBlock exists). The
  last one is what makes it inductive: it removes conversion, the one way to lose
  contents in a failure, and with it `Held` is just the bits of the block.
* `NeverCrashes`, `BitsAreExact`, `MemoryIsHeld`: its parts, as properties of `Spec`.
  `NeverCrashes` excepts one thing, which the code does do: following the NULL pointer
  of an msync of pages the program has not mapped.
* `LoadImplementsLinux`: `Spec => Linux!Spec`, with `view` mapped to `View`.

The argument: any call, complete or cut short, is two operations on sets of
pages. `UseStep` shows that taking pages into use, and `UnuseStep` that giving
them up after deleting whole blocks, preserve `Inv` when `vma` follows; the
lemmas for each action only compute their sets, and `MunmapParts` does the
arithmetic of splitting a span at a block boundary. Refinement then needs only
that pages outside the span keep their contents (`FragmentedKeepsData`,
`UnusedKeepsData`) and that pages inside it have the new ones.

Assumed of the constants: `SizesAssumption`, `OptionsAssumption` and
`ContentsAssumption` (the marker for "nothing mapped" is not a page's contents).

### BlockStoreMapProofs

It proves without `ForceLoad`:

* in every configuration, whatever is mapped where and whatever fails: `TypeCorrect`;
* under `ForceLoad`: `EmptiedBlocksAreFreed` (`EmptiedIsFreed`): the call that takes from the
  program the last page Linux would have mapped in a block frees the block. It is false
  without: a converted block has bits for pages that were never mapped (`mmap.cc:266`), and stays. It rests on
  `BitsExact`;
* under `CopesWith`, which is `ForceLoad`, or files mapped over blocks of their own and not
  past their end: `MappingNeedsAFailure` (`DefinedUnlessFailed`) and
  `MappingImplementsLinux` (`LinuxUnlessDangling`).

The two hypotheses of `CopesWith` are not for the proof's convenience: the run `tail`
shows that without the first the property is false, and an msync of a mapping past the
file's end meets a NULL block (`mmap.cc:549`), as TLC finds in `map` with `PastEof = TRUE`.
As above, an msync of pages the program has not mapped is excepted.

`DefinedUnlessFailed` alone is not inductive. What a call does to the program's pages
depends on what a failed call left behind, so `MapInv` adds `Sound` (a block's bits
are pages of it, and a NULL block has none, also next to a deleted Block) and, until a deleted Block is left in
the table, `Kept`: the block of every page the program has knows the page, and its memory is there. Complete calls
and calls cut short are treated alike: each uses pages (`UsesPages`), gives them up
(`GivesUpPages`) or maps whole blocks (`MapsPages`), and one lemma for each form shows
that it keeps `MapInv` and what it leaves of the contents; an action only computes its
sets. The refinement lemmas are shared with `BlockStoreProofs`, which they need
only in the form of `Kept`.

### ExceptionHandlerProofs

It proves, for every program (any set of system calls and `%gs` instructions), every
depth of nested signal handlers and any number of thread areas:

* `TypeCorrect`, `GoesOn` (`EmulatorGoesOn`) and `TrapsReturn` (`ReturnsToNext`);
* `AccessesRight` (`AccessesThreadArea`), assuming `MaxAreas <= 1`.

`ReturnsToNext` is not inductive: that the address pushed is right depends on who wrote
the trampoline last. `Safe` adds that. A context between handler_cb and the end of the
trampoline owns it (`OwnsTrampoline`): it was filled for its instruction, no context
outside it is being emulated, and none inside it has reached handler_cb. A context
waiting for handler_cb is at an instruction without a patch, which is why handler_cb
never meets its own jump; a patch, finished or not, does the work of the instruction it replaces. `Inv`
claims `Safe` while nothing was overtaken. Every lemma about an action treats the
running context by itself and the outer ones by `OuterContexts`: they rely on the
trampoline only if the running context is not using it. `BaseInv` holds always: code
for `%gs` exists only after the thread area, with a base other than 0; with one
thread area that base is the right one.

Assumed of the constants: `ProgramAssumption` and `BoundsAssumption`.

### FdTableProofs

It proves, for every number of descriptors, every set of directories and every
nesting of handlers:

* `TypeCorrect`;
* `NodesRight` (`NodeNeverWrong`): with handlers inside every call;
* `MapIsExact` (`MapExact`): without.

`NodeNeverWrong` is not inductive, because a node is wrong for a while: between
Interix's close and the removal of the entry, and between Interix's open and the
constructor of the new object. `NodesOK` says that then some call in progress is
`Pending` on that number. That this call finds the number as it left it needs
`FlightOK`: what a call is opening is not known to the program yet, so the handlers above
it name other numbers. `FramesOK` says which object the `Ref` of a call holds, `MapOK` that
an entry's object names its number or has been closed, and `ExactOK` is the same without
handlers, where each entry is exact at every step. Assumed of the constants:
`BoundsAssumption` and `KindsAssumption`.

### SignalsProofs

It proves, for every set of processes, every numbering in which no two signals share
a number, every program's masks and actions and any number of calls:

* `TypeCorrect`;
* `BalancedLock` (`LockBalanced`), by adding that a running process has one context more
  than handlers and that a mutex without owner has no count;
* `Refines` (`ActsAsLinux`): every step is one of PosixSignals with Linux's numbers, and
  the one the program asked for, taken as though it had asked for no flag in `Lost`
  and without regard to the number its handlers are called with (section 3). It rests on `Names`: naming Interix's signals by
  Linux's is one to one, so that it commutes with union, difference and membership;
  then each action of Interix maps to the same action of Linux, and the conversion of a
  set is the inverse of the naming. It needs no invariant but types.

Assumed of the constants: `NumberAssumption` and `ProgramAssumption`.

### ListingProofs

It proves, for every set of directories, names and descriptors, every size of
entries and buffers and every nesting of calls:

* `TypeCorrect`;
* `ExactListing` (`ListsExactly`);
* `InRange` (`PositionInRange`).

The invariant relates three things for each descriptor that is not excused. The copy
holds no name twice and none unknown (`ReaderOK`); what was told is in the part of the
copy that has been passed; every name that stayed was told or is still to come. A call
between its chdir and its use is in the directory of its descriptor, and the name it
looks up is the one at the position (`CallsOK`). Only one call reads a descriptor
(`OneReader`), which is why a handler cannot move the position under it. Assumed of
the constants: `ListingAssumption`.

### FileTreeProofs

Lemmas about the kernel's tree: a walk along any path, through links within links, ends at
an object of the tree or at nothing (`WalkType`), and every call leaves a tree (`AddType`,
`RemoveType`, `MoveType`, `HardLinkType`).

A walk is a loop over names, and following links is a loop over their depth. Both are
recursive functions, and that such a function is defined at all needs an induction. The
library's theorems for it take an operator, which no prover here can instantiate; the
module gets the same from the well-foundedness of the natural numbers, stated with
sets: `Least` (a set of naturals has a least element), `Induct`, `LoopDefined` (a loop
whose steps map a set to itself is a function to that set) and `LoopStays` (what
each step preserves holds all along). Assumed of the constants: `ObjectsAssumption`
and `NamesAssumption`.

### ExecProofs

It proves, for every disk, every set of names, links and paths, every set of calls and every
depth of nested handlers:

* `ExecTypeCorrect` (`ExecTypeOK`): through resolutions that start anywhere, follow links
  and climb with `..`, nodes stay paths of real names, and Interix's working directory
  stays a directory;
* `FakeRootHandedOn` (`FakeRootKept`).

`ExecTypeOK` is not inductive: a call that was given a descriptor and finds a directory
is resolved again (`fd.cc:51`), and needs that node still to be there. `OpenBases` adds that, and
that only exec, which starts when no call is in progress, forgets the open directory. A new process relies on what is in
the environment being what was put there (`EnvSpace`). `FakeRootKept` says nothing between the
exec and the moment when the option is read; `FakeRootHanded` adds that the environment
carries it then. `At` is what a resolution maintains, `VisitType` does one element,
`VisitedType` the loop over them, `NestedType` the links. Assumed of the constants, besides those of
`FileTreeProofs`: `BoundsAssumption` (the initial root is a directory),
`CallsAssumption` and `ExecPathsAssumption` (a path names something).

### Only model-checked

`CallsAsLinux`, `PlacesAsLinux` and `ExecArrives`, which need the agreement of two
resolutions (section 2); the violation runs; and liveness, which is out of the proof
system's reach: `SentIsTaken`, `CallsEnd`, `CallsReturn`, `ListingEnds`.

## 6. Not modelled

Block store: page protections (`mprotect` does nothing, the flags of mmap are passed on);
write-back of shared mappings; a file that ends inside a page; offsets beyond the
end of the file, where `st_size - offset` wraps; hints without MAP_FIXED;
unaligned addresses, which munmap answers with an assertion; `UnmapAll`, which
nothing calls. `madvise`, `mlock` and `mremap` do not touch the store.

Descriptor table: file offsets and status flags, which Interix keeps; the close-on-exec flag, which is replaced by letting exec
close any set of numbers; results of calls; signals inside execve.

Exception handler: the decoding of the forms of `%gs` instructions, whose translation is
one step; the bytes of the trampoline after the return address, which a signal
handler could overwrite one by one; instructions handler_cb does not know, and
exceptions other than access violations, which end the process by design; the size
limit of fragment blocks, which only makes allocation fail. A signal handler that
leaves by longjmp is not modelled in either module.

Listing: lseek and rewinddir, which do not reach the copy; the directories of the VFS
itself, which hand out names kept in memory and need no working directory; a handler that
closes what a call reads, which is FdTable's matter; a fork, which copies the listing;
the entries' inode numbers and types.

Signals and processes: calls that LBW refuses (sigsuspend, sigpending, sigaltstack,
real-time signals); which numbers Interix's call refuses; a handler in the child
before InitProcess has run; that the number a handler is told is Interix's
(`signals.cc:222`), and the flags dropped from actions, are modelled and excepted from the
promise (section 3); SA_RESTART, SA_NOCLDSTOP, SA_ONSTACK; stopped and continued children and the options of wait for them;
process groups, ids and priorities; threads, which `clone` answers by ending the process.

brk: one buffer and one position that no other component reads. Its hazards are known
from the code: the result of its mmap is tested in the wrong variable
(`memory.cc:33`), and memory given back and taken again is not cleared.

VFS and exec: `/dev`, RootVFSNode's entry for it and the fake nodes; statfs; the Lstat that
sys_readlink makes after the link was read (`file.cc:68`), whose result nobody uses; the Stat
with which sys_utimensat fetches the times it is to leave alone (`file.cc:321`), which is a
`stat` of its own before the `utimes`; empty names and slashes at the end of a path; O_DIRECTORY together with
O_NOFOLLOW; permissions, and the ETXTBUSY that unlink ignores; the contents of files, so
that execve's test of the file's first bytes always says ELF; scripts and Interix's own
programs. ReadLink's buffer is neither initialised nor terminated
(`InterixVFSNode.cc:140-145`): the model assumes that the byte behind the link's path is
zero. `ArgumentParser` does not initialise ForceLoad (`main.cc:77`): without `--forceload`
the first process has it or not (`Vfs.Init`); the instance gives all three options, so that
every one of them is handed on. A handler inside a resolution, or inside exec, is not modelled. A loop of links ends
the process in the model, as the overflow of the stack does.

Of the rest of the emulator, the components marked "not_modelled" in
`PROJECT.json` give their reasons there.
