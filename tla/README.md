# Verification of the ARET runtime

ARET transpiles 32-bit Windows programs to C and links them with a "high-level
emulation" (HLE) of the Win32 API. The transpiler is a pipeline of pure passes;
the HLE is where state, ordering and concurrency live. This directory holds

- TLA+ modules that model the HLE: its cooperative threads and synchronisation
  objects, both exception runtimes, windows and messages, the object tables of
  USER32 and GDI, file handles, the registry, the string and drawing
  algorithms; and the object cache of the build driver;
- TLC configurations that check them exhaustively on small instances;
- TLAPS proofs of the core invariants for every size.

`win32` below is `src/runtime/aret_hle/aret_win32.c`, `hle` is
`src/runtime/aret_hle/aret_hle.c`, `crt` is `src/runtime/aret_hle/aret_crt.c`,
`reg` and `rtlstr` are `reg.c` and `rtlstr.c` of `src/runtime/wine_heavy`.
A bare line number is a line of `win32`. `PROJECT.json` maps every definition to
its lines.

## 1. Inventory of the system

| Part | State | Operations | What is hard about it | What makes it correct |
|---|---|---|---|---|
| Fiber scheduler and threads (2234–2275, 2503–2822) | `g_fiber[64]`, `g_nfiber`, `g_cur`, `g_rr`, `g_vclock`, one `ucontext` per fiber, `g_last_error` | CreateThread, `_beginthread(ex)`, ResumeThread, ExitThread, TerminateThread, Sleep, `u32_sched_loop` | hand-written context switches; one global last error swapped by hand; a virtual clock that moves only when nothing can run | one fiber runs; a parked fiber's wait fields are those of its loop; time-outs are neither early nor missed; DONE is final; last error is per fiber; no starvation |
| Handle waits (2362–2493, 2597–2628, 2883–2900, 3081–3207) | event, mutex, semaphore tables; socket ties | Create/Open/Set/Reset/Release, WaitForSingle/MultipleObjects, WSA event calls | one signal wakes many fibers, each must re-check; owners that die; wait-all takes several objects | one wait per auto-reset signal; mutual exclusion; units conserved and bounded |
| User-space locks (2277–2353, 2905–3036) | CS, SRW and CV tables keyed by address | Initialize, Enter, TryEnter, Leave, Delete; Acquire/Release; Sleep/Wake/WakeAll | release-sleep-reacquire; tables compacted under waiters; grants for sleepers that have not run yet | exclusion, depth, no lost and no leaked wake |
| Thread pool work (2356–2360, 2642–2664, 3039–3079) | heap block with `pending`, `cancelled` | Create, Submit, Wait (cancel), Close | count kept by the trampoline; free while pointed to | `pending` is exact; no freed item in use; Wait returns |
| SEH, VEH, unwinding, MSVC C++ exceptions (`hle`) | `fs:[0]` chain, try levels, VEH list, setjmp keys, fault depth | raise, dispatch, filters, unwind, rethrow, long jump | handlers run nested and raise again; frames' addresses are reused | each cleanup once, inner first, none skipped; a jump lands in its frame |
| GNU C++ exceptions (`hle`) | `g_gnu_eh`, one current exception, `caught_base`, `rethrown` | throw, rethrow, begin/end catch, resume | one snapshot for all handlers | the EH stack is the call stack; no handler runs on a freed object; all are reclaimed |
| USER32 windows, messages, timers, dialogs | window table, message ring, timers, focus, modal flag | Create/Destroy, Post/Send/Get/Peek/Dispatch, SetTimer, SetFocus, DialogBox | re-entrant window procedures; WM_QUIT and WM_PAINT made up on demand; a full ring | order of messages; focus told to one window; dialogs nest; GetMessage returns |
| Menus, list boxes, image lists, window data, atoms, COM blocks | fixed and growing arrays, open-addressing hash | insert, delete, find, enumerate | reused slots, full tables, failing allocations, callbacks during enumeration | a list is a list; what is stored reads back; an enumeration visits each child |
| GDI objects, DCs, regions, pixels | `g_gdi` slots, save stack, boxes | Create/Select/Delete, SaveDC/RestoreDC, regions, clips, drawing | stock objects, delete while selected, boxes for regions | each object has one owner; RestoreDC undoes; a box covers its region |
| Files, streams, NT files, mappings, LZ, find | host descriptors and five tables over them | open, read, seek, unget, close, delete-on-close, scan | descriptors move between layers, side tables keyed by a reused number | one owner per descriptor; a failure changes nothing; the marked file goes |
| Registry (`win32`, `reg`) | slot table of keys and values | Reg*, Nt*, RtlQueryRegistryValues | handle = slot; callbacks in mid-enumeration | the slots implement a tree; sizes suffice; a query ends |
| Strings and texts (`crt`, `hle`, `rtlstr`, shlwapi) | — | `_s` functions, printf, scanf, counted strings, paths, profile files, time stamps, LZ, command lines, collation, calendar dates | lengths in bytes and characters, terminators, limits | nothing past the buffer; inverses and reference definitions |
| Object cache (`src/src/builder/objcache.rs`) | files shared by concurrent builds | lookup, store, evict | kills between two writes | never wrong bytes; what was stored is found |
| CRT start and exit, signals, environment (`hle`, `win32`) | handler table, initializer lists, atexit list, variables | `signal`, `raise`, `_XcptFilter`, `_initterm(_e)`, `atexit`, `exit`, Get/SetEnvironmentVariable | a handler is reset before it runs and may set itself again; an initializer fails; lists at their limit | a signal is delivered once per setting; initializers run in order up to the first failure, atexit functions once in reverse |
| Resources and version information | read-only trees | Find/Enum/LoadString, VerQueryValue, VerifyVersionInfo | fallbacks of language and id | what is stored is found, an enumeration is the stored list |
| TLS, Winsock, fonts, x87 helpers | — | wrappers and floating point | — | not modelled |
| Transpiler (`src/src`): loader, unpacker, disassembly, IR, CFG, SSA, structuring, optimiser, types, emission | per-run data structures | pure passes | graph algorithms | not modelled |
| aret-memory (`src/aret-memory`), migration, benches, tests, tools | SQLite records, session files | scripts and a developer tool | — | not modelled |

How they interact: every API of the HLE is an ordinary C call made by the
program on the fiber that runs (`g_cur`). A call that must wait writes what it
waits for in the fiber's record, sets the state to BLOCKED and calls
`u32_to_sched`, which saves the last error and swaps to the scheduler; the
scheduler re-evaluates every blocked fiber's condition against the object
tables, picks the next READY fiber round robin, and swaps to it inside the wait
loop it left. Callbacks run the other way: the trampoline (2642), the window and
dialog procedures, the exception dispatchers, EnumChildWindows and
RtlQueryRegistryValues call lifted code, which may make any call before it
returns. The tables share nothing but handles, which are slot numbers.

## 2. Modules

```
SyncTables      the tables of synchronisation objects
  FiberSched    fiber table, u32_sched_loop, trampoline, Sleep, thread calls
    HandleWaits   u32_wait, events, mutexes, semaphores, socket events
    UserLocks     CRITICAL_SECTION, SRWLOCK, CONDITION_VARIABLE
    ThreadPool    PTP_WORK
      FiberRuntime  the composition: Init, Next, specifications, properties
        MCFibers                      programs and handle arrays for TLC
        FiberTypes, FiberProofs, FiberObjects   proofs

ExceptionChain  SEH, VEH, MSVC C++, RtlUnwind, setjmp keys, hardware faults
GnuExceptions   the g++ runtime over g_gnu_eh
  MCExceptions    both for TLC
  ExceptionProofs proofs about GnuExceptions

MessageSource   abstract: a FIFO with messages made up on demand
Windows         message ring, windows, timers, focus, painting
  Dialogs         templates, modal loop, navigation; refines MessageSource
    MCUser
    WindowProofs    proofs about both

RegistryTree    abstract: a tree of keys with values
Registry        the slot table and the Reg*/Nt* calls as operators
  RtlRegistry     programs over it, RtlQueryRegistryValues; refines RegistryTree
    MCRegistry

ItemLists       abstract: an ordered list
ListItems       menus, list boxes and buttons, image lists; refine ItemLists
Rects, GdiRegions, GdiObjects, WindowData     the other tables; the last has the atoms
                and the blocks of the COM allocator too
  MCTables        all of them for TLC
  TableProofs     proofs about GdiRegions, GdiObjects, WindowData
  ListProofs      proofs about ListItems

CTexts          texts, shared by the string modules
  RtlStrings, RtlText   counted strings and texts of ntdll
  CrtText               _s functions, printf, scanf, path split, radix; signals,
                        initializers, atexit
  ShellText             shlwapi paths and searches; command lines, collation
  FileRecords           paths, profile files, records, time stamps, LZ; environment,
                        resources, versions, dates, MulDiv, sizes asked for
  GdiPixels             mapping modes, lines, blits, DIBs, palettes
    MCTexts

HostFiles       external: the host's directory, inodes, descriptions, descriptors
  Files           descriptors, C streams with push-back, child processes
    NtFiles         Nt files, delete-on-close, scans, mappings, LZ handles
ObjCache        builds that share a cache directory and may be killed
    MCFiles         NtFiles and ObjCache for TLC
    FileProofs      proofs about both
```

The comment at the head of each module says how its state stands for the C
state; field and function names are the source's.

**Threads.** A C table searched by key is a function on its keys (`cs_owner[c]`
is `g_cs[u32_cs_slot(c)].owner`); `reg` is the set of addresses that have an
entry. The fields of `struct u32_fiber` are functions on `Fibers`; `fst` is
`state`, `wait_h` the sequence `wait_h[0..wait_n-1]`. The saved `ucontext` is
the label `pc[f]` at which the fiber will continue, plus the locals that are
live there (`cv_lock`, `cv_shared`, `tp_wait`). A handle is its kind and its
index; `"other"` is every handle these tables do not know, which the code takes
as always signaled. There is one host thread, so a step is what happens between
two `swapcontext` calls: a call that does not block is one action; a call that
blocks is one action up to the switch and one for each resumption, which takes
the object, gives up or blocks again. One iteration of `u32_sched_loop` is one
of `SchedDispatch`, `SchedAdvance`, `SchedPoll`, `SchedGiveUp`; the wake pass at
the top is part of the first.
The program is the most general client: any call of `Api` with any argument of
the small sets. With `Disciplined` it keeps the documented rules of Win32 (no
recursive SRW acquisition, no Leave without Enter, no Release of an SRW lock in a mode it
does not hold, no Delete of a section in use, no semaphore created above its
maximum); without it, it does not. `held_*`, `ev_tok`, `sem_out`, `cv_owed` and
`own_error` are ghosts: what the calls that returned entitle the program to
believe. No guard of the runtime reads them.
Simplifications, each of which leaves the control flow alone: a `PTP_WORK`
address is not reused after `free`; names are model values; the tail of
`u32_wait` reads the copy of the handle array; a socket that becomes ready
signals its event at once (nothing but the evaluation of the event reads it);
`wake_time` is unbounded (64 bits); `malloc` succeeds.

**Exceptions.** The dispatchers are C functions that call lifted code, so `ctl`
is the C stack of dispatchers and callbacks and a step is what happens between
two such calls. A frame is named by its stack address and addresses are reused.
A scope table is a function from try levels to enclosing levels; a hand-written
handler returns any disposition. For g++ a call action takes its call site: the
pad it has, the clauses tried, the handlers open there and those that stay open
around its try block. `SiteAssumption` says what the compiler guarantees: a call
made inside a handler has a pad, because the handler must be ended.

**Windows.** `calls` is the stack of window procedures running; a returning
action continues the C function below it. `told` is the ghost of FocusTold: the
windows whose last focus message was WM_SETFOCUS.

**Tables, files, registry, texts.** One record per slot with the fields that
decide anything. Contents are abstracted: a byte of a file is its place in the
file, a tile of an image list its identity, a pixel one bit per channel, an
object of the cache what it was compiled from. Pure functions are operators; a
run chooses an input and the invariant compares the answer with the reference
definition or the inverse.

**Files.** The three layers hand out host descriptors, so `held`, a history
variable, says which handle of the program owns each, with what it asked of it;
`told` is what the last call answered. `Clean` is the rule that a program closes
a handle through the layer that opened it: a descriptor the Nt layer has an
entry for is closed by `NtClose`, not by `_close`, `fclose` or `CloseHandle`. The code
has no such rule and keeps the entry, with its delete mark and its path, for
whoever gets the number next (`hle` 1237 refreshes it only when the Nt layer
itself registers the number again); section 5 says what follows.

**Signals, start and exit.** A handler is what it does when it is called (set
itself again, ignore, raise once more); an initializer succeeds or fails. The
command line is a list of arguments with quotes, blanks and backslashes as units
of their own, because the laws are about them.

**Refinement.** `Dialogs` implements `MessageSource` (`MessagesInOrder`, with
the ring read from head to tail as the FIFO), `RtlRegistry` implements
`RegistryTree` (`RefinesTree`, with the slots mapped to their paths), and menus,
list boxes and image lists each implement `ItemLists` (`ListsKept`).

## 3. Runs

Deadlock checking is on except in `texts`, whose cases end. Every bound is a
constant of the module that uses it. Every action and every disjunct of the
next-state relations fires in some run.

| Run | Bounds | Properties |
|---|---|---|
| `threads` | 3 fibers, delays 1 and 2, clock up to 2, joins, failing calls | `TypeOK`, `OneRunning`, `LastErrorIsolated`, `DeadlinesKept`, `NeverBack` |
| `handles` | 3 fibers; programs *events* (one event, single and mixed waits, a socket) and *objects* (a mutex of depth 2, a semaphore, wait-any and wait-all over both) | `SignalsConserved`, `MutexExclusion` |
| `locks` | 3 fibers; programs *condvars* (a section and a variable, Wake and WakeAll), *srw*, *srw_sleep* (two fibers) | `LockExclusion`, `NoGrantLeak`, `WaitFieldsMatch` |
| `wild` | 2 fibers, two sections in a table of one, timed sleeps, no discipline | `CsOwnedIffDeep` |
| `pool` | 4 fibers, one work item, cancel, callbacks that yield | `WorkCounted`, `NoStarvation`, `PoolWaitReturns` |
| `exceptions` | 2 addresses, 2 nested raises, 2 jump keys, 1 nested fault, both nestings of `__finally` and `__except`; 3 GNU frames, 2 objects, 8 call sites | `ChainSound`, `ObjectLifetime`, `CleanupInnerFirst` |
| `user32` | ring of 3, 3 windows, 2 timers, callbacks 3 deep | `FocusTold`, `WindowsSound`, `MessagesInOrder`, `GetMessageReturns` |
| `registry` | 1 hive, 4 keys, 2 values, names of up to 3, sizes around the caps | `RegistryAnswers`, `RefinesTree`, `QueryEnds` |
| `texts` | texts and buffers of a few units, 3 calls on one buffer | `TextLaws`, `PathLaws`, `PixelLaws`, `StringBuffers` |
| `files` | 2 names, 3 descriptors, 3 handles; 5 calls of one layer, or 3 of all layers (`all`), or any number (`scan`, `map`, `lz`, the builds); 2 builds | `HandlesOwned`, `CacheSound`, `DeleteExactly`, `CallsFaithful` |
| `tables` | 7 GDI slots, save stack of 2, 4 menus of 3 items, 3 windows, tables of 2 or 3 entries, hash of 2 that grows to 8 | `GdiOwnership`, `RegionSound`, `ControlsSound`, `TablesReadBack`, `ComTracked`, `RestoreIsSave`, `ListsKept`, `TreeWalks` |
| `cache_race` | 2 builds with headers of different dependencies | `NeverWrongBytes` (violated) |

Why the bounds are enough: three fibers are the least with which one signal
wakes two waiters of which one overtakes the other; four let two callbacks run
beside the waiter while a third is submitted; two suffice where the hazard is
between a sleeper and a waker. The ring of three holds two messages, so it is
full, wraps and is pumped into by two timers at once. Tables are one or two
entries larger than what must coexist, so that each is full, freed and reused;
buffers include the sizes one below, at and one above what fits. In `exceptions`
two frames with two levels each give every order of inner and outer cleanup; three
GNU frames allow a throw through a frame without pad out of a handler. Where
several programs or parts share no variable, a run explores them side by side
(`program`, `profile`, `part`) and not their product. The file layers do share
the host's descriptors, so the part `all` of `files` mixes every call of every
layer, to a depth of three; the theorems of `FileProofs` are about the mixture
without a bound. Of the builds, `cache` overlaps builds whose headers include
the same files, `serial` runs builds with any headers one at a time, and
`sources` edits the source between them.

What a run's program does not do is named by a constant and is one of the
hazards: `RaiseIn` (callbacks that raise again), `NestedCatch` (rethrow with two
handlers open), `FocusInKill`, `DestroyInCall` (handlers that move the focus or
destroy their own window), `SilentClick` (a click on a dialog's control while a window
that was told it has the focus has it), `Clean` (handles closed through another layer),
`Risky` (region calls whose boxes are wrong). Section 5 says what happens when
it does.

**Fairness.** `LiveSpec` assumes that the host thread is not stopped between two
steps (weak fairness of `Next`); there is one host thread, so nothing finer is
needed, and the round robin itself is in the model. `NoStarvation` is
conditional on the program switching again and again (a fiber that computes for
ever without a call keeps the processor), `PoolWaitReturns` on the callbacks
finishing. `GetMessageReturns` assumes that time passes and that the loop of
GetMessage goes round; `QueryEnds` that the C code of RtlQueryRegistryValues is
executed. No fairness is assumed of the program.

## 4. Proofs

Every theorem holds for all values of the constants that satisfy the named
ASSUMEs of the modules (table sizes are natural numbers, addresses are not NULL,
codes are numbers, …); TLC evaluates these in the runs. A hypothesis of a
theorem is written `ASSUME … PROVE` and is a rule the program must keep; the code
is wrong without it, as section 5 lists.

| Theorem | Module | States, for every size | Hypothesis |
|---|---|---|---|
| `Invariance` | FiberProofs | `Spec => []IInv` | |
| `TypeCorrect` | | `[]TypeOK` | |
| `RunningUnique` | | `[]OneRunning` | |
| `WaitFieldsSound` | | `[]WaitFieldsMatch` | |
| `LastErrorPerFiber` | | `[]LastErrorIsolated` | |
| `TimeoutsExact` | | `[]DeadlinesKept` | |
| `NothingBack` | | `NeverBack` | |
| `MutexSafe` | | `[]MutexExclusion` | |
| `SignalsCounted` | FiberObjects | `[]SignalsConserved` | `Disciplined`, `CountsFit` |
| `OwnedIffDeep` | | `[]CsOwnedIffDeep` | |
| `LocksSafe` | | `[]LockExclusion` | `Disciplined`, `SleepsUnnested` |
| `GrantsOwed` | | `[]NoGrantLeak` | `NoKill` |
| `PoolCounts` | | `[]WorkCounted` | `CallbacksReturn` |
| `StacksAgree` | ExceptionProofs | `GnuSpec => [](GnuTypeOK /\ EhStackIsCalls)` | |
| `ObjectsLive` | | `GnuSpec => []ObjectLifetime` | `~NestedCatch` |
| `QueueRefines` | WindowProofs | `DlgSpec => MessagesInOrder` | |
| `OneFocus` | | `DlgSpec => []FocusTold` | `~FocusInKill`, `~SilentClick` |
| `WindowsAreSound` | | `DlgSpec => []WindowsSound` | |
| `RegionsCovered` | TableProofs | `RegionSpec => []RegionSound` | `Risky = {}` |
| `NamesReadBack` | | `NamesSpec => []TablesReadBack` | |
| `EnumerationComplete` | | `TreeSpec => EnumReportsAll` | |
| `BlocksTracked` | | `ComSpec => []ComTracked` | |
| `GdiOwned` | | `GdiSpec => []GdiOwnership` | `Display` |
| `RestoresSaved` | | `GdiSpec => RestoreIsSave` | `Display` |
| `ControlsAreSound` | ListProofs | `ControlsSpec => []ControlsSound` | |
| `ListsAreKept` | | `ControlsSpec /\ ImlSpec => ListsKept` | `"string" \notin Oom` |
| `HandlesAreOwned` | FileProofs | `FilesSpec => []HandlesOwned` | `Clean` |
| `NtCloseDeletesExactly` | | `FilesSpec => DeleteExactly` | `Clean` |
| `CallsReportTruly` | | `FilesSpec => CallsFaithful` | `Clean` |
| `CacheIsSound` | | `CacheSpec(S, H, serial) => []CacheSound` | `HeadersFit(H, serial)` |

`CountsFit` says that a semaphore's maximum plus one release fits in an `int`
(3202 adds before it compares); `SleepsUnnested` that a program that sleeps on
condition variables enters no section twice (the sleep gives back every level
and takes one); `NoKill` that no thread is terminated; `CallbacksReturn` that a
callback ends by returning; `~FocusInKill` that a WM_KILLFOCUS handler neither
moves the focus nor dispatches; `~SilentClick` that no control of a dialog is clicked
while a window that got WM_SETFOCUS has the focus (a click while no such window has it
is in the run and in the theorem); `Display` that SDL opened a display (without one
every ShowWindow drops a slot); `"string" \notin Oom` that no list box runs out of
memory for the text of a new item, which the code finds out after it has moved the
later ones (8247; running out for the array is allowed); `Clean` is the rule above; `HeadersFit` that the
headers `H` the builds may see include only files of the directory and, unless
builds run one at a time (`serial`), all the same ones, which is what
`cache_race` breaks. The runs `handles`, `locks`, `pool`, `exceptions`, `user32`,
`tables` and `files` have these values, so each hypothesis is one that the
checked instances satisfy.

**Threads: the inductive invariant** is

    IInv == TypeOK /\ RunInv /\ WaitInv /\ ErrInv /\ TimeInv /\ MutexInv

- `TypeOK` is not inductive alone: `ResumeCs` indexes the section table by
  `wait_cs[g_cur]`, which is an address and not NULL only because of `WaitInv`.
- `RunInv` adds to `OneRunning` that slots past `g_nfiber` are FREE and new (a
  spawn must not disturb a fiber) and that a SUSPENDED fiber has not started.
- `WaitInv` ties the wait fields to the label for every fiber, running ones
  included: a wait that ends must clear its field before the program goes on.
- `ErrInv` adds that every fiber that is not executing has its own value saved,
  which is what the dispatch restores.
- `TimeInv` says of every armed deadline that it lies ahead until it fires and
  behind afterwards. It makes `g_vclock = earliest` monotone, and it holds
  because a deadline is disarmed on every way out of a wait.
- `MutexInv` adds to `MutexExclusion` that slots not handed out are unowned.

It needs neither `Disciplined` nor a bound on clock, recursion or tables. Every
kind of object then has an invariant of its own on top of `IInv`, a lemma naming
the steps that can disturb it, and one lemma per such step:

- `SemInv`: counts and what waits took add up, and no maximum exceeds `SemMax`.
  A wait-all takes several objects in one step; `TakenSignaled` shows that each
  was signaled for this fiber when it was taken.
- `CsInv`: `CsMatch` relates, for every live fiber and section, owner and depth
  to what the fiber has entered, with the exception of the section it is sleeping
  over; a fiber that waits to enter waits for an entry that exists, so a resumed
  Enter does not make one behind a Delete.
- `SrwInv`: the counts are those of the holders, a writer excludes readers, and
  a fiber that waits for the lock, or sleeps over it, does not hold it. That is
  what makes a re-acquisition after a sleep add exactly one holder; the count of
  readers is a cardinality, whose change by one is proved from FiniteSetTheorems.
- `NoGrantLeak` is inductive once it is known which steps end a fiber
  (`OthersLive`, `EndStep`): a sleeper leaves only by consuming a grant, or by a
  time-out that found none.
- `PoolInv`: adds that slots no fiber has used carry no work item, so that Submit
  adds exactly one callback.

**GNU exceptions.** `ShapeInv`: frames and activations are numbered by their
depth; while the program runs there is one frame per activation, every frame but
the top one has recorded a site that agrees with the handlers open in its
activation, and the selector of a running pad is one of its clauses.
`DispatchCuts` says what the dispatcher does to both stacks: it cuts them at the
innermost frame with a pad and leaves the handlers alone. Its search is a minimum over
frames, obtained from the well-foundedness of the naturals. `ObjInv` names the
only situations a program that rethrows with one handler open can be in: outside
of pads nothing is in flight (`Calm`), one exception is handled (`Handled`) or a
rethrown one is handled by two handlers (`Twice`); in a pad, an exception flies
with no handler open (`Flying`), out of the handler that rethrew it (`Rethrown`),
or replaces the one of the handler the pad is about to end (`Replaces`). In each
of them the heap is determined, which is why nothing is freed early, twice or
never.

**Windows.** The refinement needs only that the ring is a ring (`IsRing`: both
indices are slots). `RingLen` and `RingContents` turn the arithmetic modulo
`QSize` into a case distinction, `Pushed` and `Popped` say what the two
operations do to the contents, and `PumpedExtends` that pumping leaves the
messages in front and adds timer messages behind them. Every step is then one of
six kinds (`StepKinds`), each with its simulation; that a message taken from an
empty queue is not one of the made-up ones holds because it is a timer's.
`FocusInv`, for `OneFocus`, says that a window that was told is the one with the
focus, is live and has a procedure, and that the frame of a WM_KILLFOCUS handler
names the window with the focus and has above it only frames whose return does
not move it. A window losing its procedure or its slot would break the first
part, and so would `SilentClick`: the window the click leaves would still be told;
the second is what `FocusInKill` would break. That adding the controls of
a dialog (`ControlsKeep`) or creating a window leaves windows in use alone makes
it inductive, although slots are reused.
`WinInv`, for `WindowsAreSound`, needs no rule. `TimerInv`: a slot of the same window
and id is found before a free one is taken (`SetKeeps`), and expiry, pumping and the
clock keep both. `StackInv`: the modal loops on the call stack are the one `modal`
names (`OneLoop`), and, what makes it inductive, a DialogBox that still waits for its
CBT hook was entered with no loop below it (`FramesOK`), so it may start one when the
hook returns although other boxes may have come and gone meanwhile. `Walk` says that the
controls `u32_next_dlg_item` collects are those it may move to, in slot order and each
once; the two steps round the end (`RoundWalk`) then cancel (`TabsInvert`), in every
state of the table and not only in those that are reached.

**Tables.** `RegionInv`: every box, of a region, of the clip and of the window,
is ordered and covers its exact set; the lemma `CombineCovers` is one case per
mode of CombineRgn.
`EnumInv`: what the
enumeration still owes is a child of its parent and lies ahead of the cursor;
re-parenting, destruction and reuse of a slot take a window off what is owed.
`DataInv`: `TabInv`, for properties and classes, says that used entries and the
stored values correspond one to one, however entries were freed and reused;
`ClipInv` says it of the clipboard's sequence. `AtomInv`: every name with
references is linked to exactly one slot with that count.
`ComInv`: no block is twice in the COM allocator's hash, every entry on the probe
sequence of a block is in use up to the block (`Probed`), less than 70 % are, and the
entries are the live blocks and those in the ghost `lost`: `realloc(p, 0)` frees a block
and returns NULL, on which the code leaves its entry (3487). That such an entry stays, and
is the one that is rewritten when `malloc` hands the address out again (`TrackAgain`), is
part of the model, the run and the theorem. Growth re-enters every entry (`Copied`, by the least slot at
which it would fail). Removal breaks `Probed` and its loop (3464) restores it; what holds
between two rounds is `Gap`: a free slot that lies before an entry on its probe
sequence is among those the loop has passed, and the entry is not. It is kept by
each re-insertion (`MoveOne`), whatever order the wrap gives the slots (`Between`),
and at the next free slot it implies `Probed` (`GapEnds`). No step of the loop grows
the table, because the entry it re-enters was just counted off. Of the hash the proof
uses only that it yields a slot, so it does not depend on the multiplier; it needs a
first capacity of two or more (the code's is 1024), and allocation of the table to
succeed, as the model has it.
`GdiInv`: `OneOwner` says of every slot in use that it is the program's, a stock
object's or the window's framebuffer, and of exactly one of them; `Contexts` says
of every device context the program has that what it selects, and what each level
of its save stack would select again, is live and of the right kind
(`Selects`). The second part is not implied by the property: an object deleted
while it is only saved would be selected dead by the next RestoreDC. DeleteObject
(7831) looks at neither selections nor save stacks; the rule that a program
deletes nothing that is selected or saved is in `LifeOps`. `RestoresSaved` is
an action property over the same invariant, by the steps that shorten a stack.

**Controls.** `MenuInv`: a system menu is in use, belongs to one window and
is not among the menus the program created, so destroying one's own menus cannot
free it. `RadioInv` is `RadioAtMostOne` with its domains.
For `ListsAreKept` the refinement mappings `MenuSeqs`, `BoxSeqs` and `ImlSeqs` read the
three arrays as sequences. `ShiftUpIs` and `ShiftDownIs` say what the element-by-element
loops of the code leave in an array; `Inserted`, `Replaced` and `Prefixed` turn such an
array into one step of `ItemLists`; and each call is one of these steps for its own list
and none for the others (`OneMenu`, `OneBox`, `OneIml`). The invariants `MenuForm`,
`BoxForm` and `ImlForm` say that an array is at least as long as its count, a bitmap as
long as its tiles: an insertion into a full array, or an item found past the end, would
be no step. A menu that is reused was empty (`BirthStep`), which needs `FreeMenu` to be a
slot not in use.

**Files.** `FilesInv` holds the types and three relations between the program's
handles and the C tables. `OwnFds`: the handles that own a descriptor and the open
descriptors other than the standard ones correspond one to one. `SlotsHeld`: each
stream has a slot of the pool to itself, and a byte is pushed back there only if
this stream's user did it. `Piped`: an entry of `ptab` is that of a pipe the program
has, under one key. Each call then either opens nothing (its step is one of the
host's reads, writes and seeks, which `Touched` describes), takes a descriptor that
was free, or gives up one that its handle owns. The lemmas about the host
(`HOpen`, `HClose`, `HDup2` and the truncating opens) are proved once, over `Tidy`,
which forgets what nothing refers to any more.
`Marks`, on top of it, for `NtCloseDeletesExactly`: an entry of the Nt table has the
descriptor, the mark and the name of one handle of the program, and no two entries
have the same descriptor. It was not inductive at first: `_close` of a descriptor
with an entry left it to the next owner of the number. That is what the code does,
so the rule `Clean` names it.
`DeadEmpty`, for `CallsReportTruly`: an inode nothing refers to has no bytes, so an
open that creates a file truncates none. `Reported` says what a call's answer
promises; each call is taken to it through one of a few shapes of step: nothing
changed (`Alike`), bytes or offsets moved (`Moves`, `Shifts`), a file was added
(`Grows`), an open was taken back.

**Object cache.** `CacheInv`: whatever a build has in hand at its place in the
code (`BuildSound`: the list of dependencies between the manifest and the digest,
the digest between the digest and the rename) is that of the files in its own
directory, an object in the cache is under the digest of what it was compiled from
(`Stored`), and a directory that was built and not touched is `WarmSound`: its
manifest is the list of its files and an object with their digest exists. Kills
between any two steps preserve it because no step before the rename shows in
`objects`; another build's manifest preserves it only under `HeadersFit`, by which
two builds past the compiler with the same key list the same files.

Nothing here is by the library's induction rules: `LeastNat` (every non-empty
set of naturals has a least element) comes from `WFMin`, and the searches from
the first slot on are taken as minima. The three loops of the window model that
carry a value from one round to the next (`Pump`, `NewControls`, `DlgItems`), and the two of the
COM allocator, are functions recursive on the round; that they exist, and what each
round keeps, is shown by the least round at which it would fail (`RoundsExist`,
`ControlsExist`, `WalksExist`, `MovesExist`, `ChainExists`); the shifts of `ListItems` likewise.

**Model-checked only.**

- Liveness (`NoStarvation`, `PoolWaitReturns`, `GetMessageReturns`,
  `QueryEnds`): the provers here do not reason about fairness.
- What a recursive function computes over its whole input: `TextLaws`,
  `PathLaws`, `PixelLaws`, `StringBuffers`, the path map of `RefinesTree` and the
  walks of `TreeWalks` other than `EnumReportsAll` need induction over data.
  The library's rules for it take an operator as a parameter, which these provers
  cannot instantiate, and most of these definitions are RECURSIVE operators.
- Not proved: `ChainSound` and `CleanupInnerFirst` (the stack of dispatchers and
  callbacks would have to be an invariant of the whole C stack, with a case for
  every way to leave it) and `RegistryAnswers` (sizes and round trips of recursively defined paths).

## 5. Where the code and its texts disagree

`cache_race` is a run: `store` writes its manifest and then computes the digest
of whatever manifest the key has by then (`objcache.rs:342`), against "never open
(wrong bytes)" (`objcache.rs:21`). The properties below are defined in the
modules and fail when they are added to a configuration, with the calls in
question in `Api`.

| Property | Module | The code | The text |
|---|---|---|---|
| `MutexDepth` | FiberRuntime | a mutex taken from an owner that ended keeps its depth (2490) | "abandon=libre" (`src/docs/vision/80-orientations-architecturales.md:217`) |
| `CsDepth` | FiberRuntime | a section slept over at depth 2 comes back at depth 1 (3004, 3024) | "rec = the recursion depth held by that owner" (2278) |
| `WakeAllReleases` | FiberRuntime | a second WakeAll drops grants of sleepers that are READY (2994) | "release every current waiter" (2994) |
| `RethrowIsCaught` | GnuExceptions | one snapshot for all handlers: with two open, the wrong exception is rethrown | "it is exactly what was caught" (`hle` 4870) |
| `FaultDepthIsNesting` | ExceptionChain | a handler that jumps away leaves the fault depth counted (`hle` 4958) | the limit is one of nesting |
| `GetFocusCorrect` | Dialogs | a handler that moves the focus: WM_SETFOCUS reaches a window that has lost it | "updated first so GetFocus is correct inside the handlers" (10833) |
| `UnicodeIsApi` | Dialogs | a reused slot keeps the Unicode flag of the window before (4265) | "A window created through a W API is Unicode" (5195) |
| `EnumEndTold` | RtlRegistry | RegEnumKeyEx returns its status through a byte, so the end of an enumeration is 3 | "NO_MORE_ITEMS=259" (252) |

More of the kind, which the constants of section 3 keep out of the passing runs
or which lie outside the model:

- *Threads.* A release near `INT_MAX` wraps in `count + rel > max` (3202); a
  terminated sleeper leaves its grant (2820, against 2336); `ExitThread` in a
  callback skips `pending--` (2753, against 2358); the exclusive owner of an SRW
  lock may also read (2321); a zero-time-out sleep that saw a grant parks without
  a deadline (3013); `cancelled` is never reset (3070, 2649); the pool waiter
  stays READY, so the clock stands still and a callback's Sleep never ends (3072);
  a fiber spinning with `Sleep(0)` does the same (2524). `fs:[0]` and `g_gnu_eh`
  are not swapped at a fiber switch.
- *Exceptions.* The try level is not updated before a `__finally` runs (`hle`
  4274), so a `__finally` that raises is run again; nested dispatches share one
  static `xp[2]` (4353); a full table of jump keys gives slot 0 to the next (3284);
  a second rethrow out of two handlers of one object frees it early.
- *Windows.* A reused slot keeps menu, properties and check state (10934, 6348, 4267); a
  timer is rescheduled although its message did not fit (4447); a click on a dialog's
  control moves the focus and sends neither WM_KILLFOCUS nor WM_SETFOCUS (8527, 8529),
  where u32_set_focus sends both: with `SilentClick` TLC finds `FocusTold` violated;
  EndDialog ignores its window (7070); the modal loop ignores WM_QUIT (7012).
- *Tables.* A list box shifts before its allocation fails (8247); atoms with over-long
  names never compare equal; ExcludeClipRect takes the larger for the smaller side, and
  the reverse, where it cuts off a left or right band (12333, 12334), and keeps no box
  where the clip is unset (12321), against the "superset" of 12290; CoTaskMemRealloc to
  no bytes keeps the entry of the freed block (3487), so GetSize and DidAlloc know a
  dead address, against "-1 (not one of ours / NULL) or the requested size" (3470),
  until `malloc` hands it out again; CombineRgn's XOR box may be too small (11855);
  RestoreDC does not restore extents and clip. Without a display ShowWindow allocates
  the framebuffer again each time and loses the old slot (7300, against "idempotent",
  7291).
- *Files and registry.* CloseHandle, `_close` and fclose leave the entry of an NT
  file (`hle` 1218), so that NtClose of the number's next owner may delete the
  former one's file; delete-on-close acts on a path (1244);
  fwrite, fputs and fputc report success when the write failed; getchar and ftell ignore the pushed-back
  byte; a killed build leaves its temporary file; a key handle whose slot is
  reused names another key; RtlQueryRegistryValues loops when its own key is
  deleted; RtlDuplicateUnicodeString wraps at 0xfffe.
- *Start-up, profile files.* The comment at `hle` 3608 calls the command line it
  builds "the inverse of CommandLineToArgv"; it is not for an argument with a quote
  in it or one that needs quotes and ends in a backslash (`ArgumentsAgree` leaves
  them out). The atexit table and the buffer of `__wgetmainargs` drop what does not
  fit. A buffer too small makes GetSystemDirectoryA and
  GetWindowsDirectoryA return the length, W the length and one.
  GetProfileIntW never reads win.ini ("simply does not exist", `hle` 1899), which
  the A forms read, and answers 0 for a section that is NULL where they answer
  the default.

## 6. Not modelled

`DuplicateHandle` and thread priorities change no scheduling state; queries only
read; the wasm build has no threads. TLS, Winsock calls other
than events, fonts and text output, x87 helpers, locales, the bytes of resource
templates, SDL input, security
descriptors, URL functions and asynchronous file calls are wrappers, tables that
never change or floating point. The lifter and the emitters are
instruction-by-instruction translations that the repository checks against a CPU
and against Wine; the graph passes (dominators, SSA, structuring) and aret-memory
could be modelled and are not. `PROJECT.json` gives the reason for each part.

## 7. What could be added

1. `ChainSound`: the chain is the stack of activations, and cleanups are owed by
   live activations only.
2. Thread-local storage composed with the fibers, and the exception chain of
   several fibers.
3. Dominators, SSA construction and structuring as operators on small graphs.
