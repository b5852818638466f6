----------------------------- MODULE PosixProofs -----------------------------
(***************************************************************************)
(* The POSIX runtime implements the table of open files (OpenFiles), for   *)
(* every number of descriptors, every command line and every program: the  *)
(* inductive invariant, one lemma per call, and the refinement; and every  *)
(* directory is listed exactly.                                            *)
(***************************************************************************)
EXTENDS Posix, TLAPS, SequenceTheorems

\* exe_file_t.
Entries == [fd : Int, flags : SUBSET {"eOpen", "eCloseOnExec", "eReadable", "eWriteable"}, off : Int, dfile : Int]

\* A simulated file: as many bytes as its size, and a status.
FileOK(f) ==
    /\ f.size \in Nat
    /\ f \in [size : {f.size}, contents : [0 .. (f.size - 1) -> Int], st_ino : Int,
              type : {"REG", "DIR", "LNK", "CHR"}, mode : Modes, own : BOOLEAN]

\* An open entry stands for an open descriptor of the system, or for a simulated
\* file and a position that is not negative.  Nothing in the code checks it: it
\* holds because the runtime never closes a descriptor of the system.
EntryOK(f) ==
    "eOpen" \in f.flags =>
        IF f.dfile = NULL THEN f.fd \in DOMAIN os ELSE f.dfile \in DOMAIN disk /\ f.off >= 0

\* The invariant of the runtime: of its table, of its files (which are never
\* removed, unlink only clears st_ino), and of the options it was started with.
FdsOK  == /\ fds \in [Fds -> Entries]
          /\ \A fd \in Fds : EntryOK(fds[fd])
\* The simulated files are well formed.
DiskOK == /\ disk = [d \in DOMAIN disk |-> disk[d]]
          /\ NULL \notin DOMAIN disk
          /\ \A d \in DOMAIN disk : FileOK(disk[d])
\* The path runs one of the programs with its options.
PathOK == /\ path.program \in DOMAIN Programs
          /\ path = [options |-> path.options, program |-> path.program, halted |-> path.halted, left |-> path.left]
          /\ path.options \in Options
          /\ 1 .. path.options.files \subseteq DOMAIN disk
\* The inductive invariant of the runtime.
PosixInv == FdsOK /\ DiskOK /\ PathOK /\ umask \in Modes

\* What klee_init_fds sets up satisfies the invariant.
LEMMA InitInv == Init => PosixInv
  <1> SUFFICES ASSUME Init PROVE PosixInv
    OBVIOUS
  <1>1. PICK i \in DOMAIN Programs : \E n \in Programs[i].nArgs, stat \in Programs[i].stats, at \in Programs[i].failAt :
            /\ klee_init_fds(klee_init_env(Programs[i].argv, n), stat, at)
            /\ path = [options |-> klee_init_env(Programs[i].argv, n), program |-> i,
                       halted |-> klee_init_env(Programs[i].argv, n).error, left |-> Programs[i].depth]
            /\ os = [fd \in {0, 1, 2} |-> -fd]
    BY DEF Init
  <1>2. PICK n \in Programs[i].nArgs, stat \in Programs[i].stats, at \in Programs[i].failAt :
            /\ klee_init_fds(klee_init_env(Programs[i].argv, n), stat, at)
            /\ path = [options |-> klee_init_env(Programs[i].argv, n), program |-> i,
                       halted |-> klee_init_env(Programs[i].argv, n).error, left |-> Programs[i].depth]
            /\ os = [fd \in {0, 1, 2} |-> -fd]
    BY <1>1
  <1> DEFINE o == klee_init_env(Programs[i].argv, n)
  <1>3. o \in Options /\ stat \in Stats
    BY ProgramsAssumption
  <1>4. klee_init_fds(o, stat, at) /\ path.options = o /\ path.program = i
        /\ path = [options |-> path.options, program |-> path.program, halted |-> path.halted, left |-> path.left]
    BY <1>2
  <1> HIDE DEF o
  <1>5. DiskOK /\ 1 .. o.files \subseteq DOMAIN disk /\ ({StdinOf(o), StdoutOf(o)} \ {NULL}) \subseteq DOMAIN disk
    <2>1. disk = [d \in (1 .. o.files) \cup ({StdinOf(o), StdoutOf(o)} \ {NULL}) |->
                     create_new_dfile(sizeOf(o, d), stat)]
      BY <1>4 DEF klee_init_fds
    <2>2. \A d : sizeOf(o, d) \in Nat
      BY <1>3, PosixAssumption DEF sizeOf, Options
    <2>3. \A d : FileOK(create_new_dfile(sizeOf(o, d), stat))
      <3> TAKE d
      <3> DEFINE s == sizeOf(o, d)
      <3>1. s \in Nat
        BY <2>2
      <3> HIDE DEF s
      <3>2. FileOK(create_new_dfile(s, stat))
        BY <1>3, <3>1 DEF FileOK, create_new_dfile, Stats, Modes
      <3> QED
        BY <3>2 DEF s
    <2>4. o.files \in Nat /\ NULL \notin (1 .. o.files) \cup ({StdinOf(o), StdoutOf(o)} \ {NULL})
      BY <1>3 DEF Options, NULL
    <2> QED
      BY <2>1, <2>3, <2>4 DEF DiskOK
  <1>6. FdsOK
    <2>1. fds = exe_env(o)
      BY <1>4 DEF klee_init_fds
    <2>2. fds \in [Fds -> Entries]
      BY <2>1, <1>3 DEF exe_env, Entries, Blank, StdinOf, StdoutOf, NULL, Options
    <2>3. ASSUME NEW fd \in Fds PROVE EntryOK(fds[fd])
      BY <2>1, <1>2, <1>5 DEF exe_env, EntryOK, Blank, StdinOf, StdoutOf, NULL
    <2> QED
      BY <2>2, <2>3 DEF FdsOK
  <1>7. umask \in Modes
    BY <1>4 DEF klee_init_fds, Modes
  <1> QED
    BY <1>3, <1>4, <1>5, <1>6, <1>7 DEF PosixInv, PathOK

-----------------------------------------------------------------------------
\* What is to be shown of every call.
GoodStep == PosixInv' /\ (OF!OpenNext \/ UNCHANGED <<Table, Contents, ret>>)

\* A call changes neither the program nor its options.
PathKept == /\ path'.program = path.program /\ path'.options = path.options
            /\ path' = [options |-> path'.options, program |-> path'.program,
                        halted |-> path'.halted, left |-> path'.left]

\* A call and a halt leave the program and its options alone.
LEMMA CallKeepsPath == PosixInv /\ (Halt \/ \E f : Call(f)) => PathKept
  <1>1. PosixInv /\ Halt => PathKept
    BY DEF PosixInv, PathOK, PathKept, Halt
  <1>2. ASSUME NEW f, PosixInv, Call(f) PROVE PathKept
    BY <1>2 DEF PosixInv, PathOK, PathKept, Call
  <1> QED
    BY <1>1, <1>2

\* The calls whose results the table of open files tells apart.
Descriptors == {"open", "close", "read", "write", "lseek", "dup2"}

\* A result that says nothing of the table.
OtherResult ==
    \/ ret' = ret
    \/ ret'.val = -1
    \/ ret'.call = "read" /\ ret'.val = 0
    \/ ret'.call \notin Descriptors

\* A call that changes neither table nor files may answer what it likes, but for
\* a successful call on a descriptor.
LEMMA QuietStep ==
  ASSUME PosixInv, PathKept, UNCHANGED <<fds, disk, os>>, umask' \in Modes, OtherResult
  PROVE  GoodStep
  <1>1. PosixInv'
    BY DEF PosixInv, FdsOK, DiskOK, PathOK, EntryOK, FileOK, PathKept
  <1>2. Table' = Table /\ Contents' = Contents
    BY DEF Table, Contents, FileOf, get_file
  <1>3. OF!OtherCall \/ UNCHANGED <<Table, Contents, ret>>
    BY <1>2 DEF OtherResult, OF!OtherCall, OF!Returns, Descriptors
  <1> QED
    BY <1>1, <1>3 DEF GoodStep, OF!OpenNext

\* A call that fails, on request or not, is a step of the open files.
LEMMA RefusedStep ==
  ASSUME PosixInv, PathKept, NEW f, NEW e, Fails(f, e) \/ CountedError(f, e) \/ InjectedError(f, e)
  PROVE  GoodStep
  BY QuietStep DEF Fails, CountedError, InjectedError, Error, Return, ReturnOn, env, OtherResult, PosixInv

\* So is a call the runtime answers without changing its state.
LEMMA AnsweredStep ==
  ASSUME PosixInv, PathKept, NEW f, f \notin Descriptors, NEW v, NEW e, NEW d,
         Pure(f, v) \/ (Return(f, v, e, d) /\ UNCHANGED env)
  PROVE  GoodStep
  <1>1. PICK x, y, z : ReturnOn(f, -1, x, y, z) /\ UNCHANGED env
    BY DEF Pure, Done, Return
  <1>2. ret'.call = f /\ UNCHANGED <<fds, disk, umask, os>>
    BY <1>1 DEF ReturnOn, env
  <1> QED
    BY <1>2, QuietStep DEF OtherResult, PosixInv

\* And a call passed to the operating system.
LEMMA PassedOnStep ==
  ASSUME PosixInv, PathKept, NEW f, f \notin Descriptors, Syscall(f)
  PROVE  GoodStep
  BY AnsweredStep DEF Syscall

\* The open file an entry stands for.
DescribedBy(e, system) ==
    [file |-> IF e.dfile = NULL THEN [sym |-> FALSE, id |-> system[e.fd]]
              ELSE [sym |-> TRUE, id |-> e.dfile],
     pos |-> IF e.dfile = NULL THEN 0 ELSE e.off]

\* The operating system's descriptors are never closed, nor renamed.
SystemGrows == DOMAIN os \subseteq DOMAIN os' /\ \A m \in DOMAIN os : os'[m] = os[m]

\* Writing one entry of fds changes one entry of the table.
LEMMA OneEntry ==
  ASSUME PosixInv, SystemGrows, NEW fd \in Fds, NEW e \in Entries, fds' = [fds EXCEPT ![fd] = e]
  PROVE  /\ "eOpen" \in e.flags => Table' = OF!With(fd, DescribedBy(e, os'))
         /\ "eOpen" \notin e.flags => Table' = OF!Without(fd)
  <1>1. fds \in [Fds -> Entries] /\ \A x \in Fds : EntryOK(fds[x])
    BY DEF PosixInv, FdsOK
  <1>2. \A x \in Fds : fds'[x] = IF x = fd THEN e ELSE fds[x]
    BY <1>1
  <1>3. Table' = [x \in {y \in Fds : "eOpen" \in fds'[y].flags} |-> DescribedBy(fds'[x], os')]
    BY DEF Table, get_file, FileOf, DescribedBy
  <1>4. Table = [x \in {y \in Fds : "eOpen" \in fds[y].flags} |-> DescribedBy(fds[x], os)]
    BY DEF Table, get_file, FileOf, DescribedBy
  <1>5. \A x \in Fds \ {fd} : "eOpen" \in fds[x].flags => DescribedBy(fds[x], os') = DescribedBy(fds[x], os)
    BY <1>1 DEF EntryOK, DescribedBy, SystemGrows
  <1> HIDE DEF DescribedBy
  <1>6. ASSUME "eOpen" \in e.flags PROVE Table' = OF!With(fd, DescribedBy(e, os'))
    <2>1. {y \in Fds : "eOpen" \in fds'[y].flags} = DOMAIN Table \cup {fd}
      BY <1>2, <1>4, <1>6
    <2>2. \A x \in DOMAIN Table \cup {fd} :
              DescribedBy(fds'[x], os') = IF x = fd THEN DescribedBy(e, os') ELSE Table[x]
      BY <1>2, <1>4, <1>5
    <2> QED
      BY <1>3, <2>1, <2>2 DEF OF!With
  <1>7. ASSUME "eOpen" \notin e.flags PROVE Table' = OF!Without(fd)
    <2>1. {y \in Fds : "eOpen" \in fds'[y].flags} = DOMAIN Table \ {fd}
      BY <1>2, <1>4, <1>7
    <2>2. \A x \in DOMAIN Table \ {fd} : DescribedBy(fds'[x], os') = Table[x]
      BY <1>2, <1>4, <1>5
    <2> QED
      BY <1>3, <2>1, <2>2 DEF OF!Without
  <1> QED
    BY <1>6, <1>7

\* EntryOK of an entry about to be written.
SafeEntry(e) ==
    "eOpen" \in e.flags =>
        IF e.dfile = NULL THEN e.fd \in DOMAIN os' ELSE e.dfile \in DOMAIN disk /\ e.off >= 0

\* Writing a safe entry keeps the invariant.
LEMMA EntryKeepsInv ==
  ASSUME PosixInv, PathKept, SystemGrows, UNCHANGED umask,
         DOMAIN disk' = DOMAIN disk, DiskOK',
         NEW fd \in Fds, NEW e \in Entries, SafeEntry(e), fds' = [fds EXCEPT ![fd] = e]
  PROVE  PosixInv'
  <1>1. fds' \in [Fds -> Entries]
    BY DEF PosixInv, FdsOK
  <1>2. \A x \in Fds : EntryOK(fds[x])
    BY DEF PosixInv, FdsOK
  <1>3. ASSUME NEW x \in Fds PROVE EntryOK(fds[x])'
    BY <1>2 DEF PosixInv, FdsOK, EntryOK, SafeEntry, SystemGrows
  <1>4. PathOK'
    BY DEF PosixInv, PathOK, PathKept
  <1> QED
    BY <1>1, <1>3, <1>4 DEF PosixInv, FdsOK

\* The table holds the open entries and no others.
LEMMA ClosedEntries ==
  ASSUME PosixInv, NEW fd \in Fds
  PROVE  /\ get_file(fd) <=> fd \in DOMAIN Table
         /\ get_file(fd) => Table[fd] = DescribedBy(fds[fd], os)
         /\ ~get_file(fd) => OF!Without(fd) = Table
         /\ get_file(fd) => OF!With(fd, Table[fd]) = Table
  BY DEF Table, get_file, FileOf, DescribedBy, OF!With, OF!Without

-----------------------------------------------------------------------------
(* What may happen to a simulated file.                                      *)

\* Replacing a simulated file changes the bytes of that file only.
LEMMA FileChanges ==
  ASSUME PosixInv, NEW df \in DOMAIN disk, NEW f, FileOK(f), disk' = [disk EXCEPT ![df] = f]
  PROVE  /\ DiskOK' /\ DOMAIN disk' = DOMAIN disk
         /\ Contents' = [Contents EXCEPT ![df] = f.contents]
  <1>1. DOMAIN disk' = DOMAIN disk
    BY DEF PosixInv, DiskOK
  <1>2. \A d \in DOMAIN disk : disk'[d] = IF d = df THEN f ELSE disk[d]
    BY DEF PosixInv, DiskOK
  <1>3. DiskOK'
    BY <1>1, <1>2 DEF PosixInv, DiskOK, FileOK
  <1>4. Contents' = [Contents EXCEPT ![df] = f.contents]
    BY <1>1, <1>2 DEF Contents
  <1> QED
    BY <1>1, <1>3, <1>4

\* chmod, open with a mode, unlink and rmdir change no byte.
LEMMA StatusChanges ==
  ASSUME PosixInv, NEW df \in DOMAIN disk, NEW m \in Modes,
         \/ disk' = [disk EXCEPT ![df].mode = m]
         \/ disk' = [disk EXCEPT ![df].st_ino = 0]
  PROVE  DiskOK' /\ DOMAIN disk' = DOMAIN disk /\ Contents' = Contents
  <1> DEFINE f == IF disk' = [disk EXCEPT ![df].mode = m] THEN [disk[df] EXCEPT !.mode = m]
                  ELSE [disk[df] EXCEPT !.st_ino = 0]
  <1>1. FileOK(disk[df])
    BY DEF PosixInv, DiskOK
  <1>2. FileOK(f) /\ f.contents = disk[df].contents
    BY <1>1 DEF FileOK
  <1>3. disk' = [disk EXCEPT ![df] = f]
    OBVIOUS
  <1> HIDE DEF f
  <1>4. [Contents EXCEPT ![df] = disk[df].contents] = Contents
    BY DEF Contents
  <1> QED
    BY <1>2, <1>3, <1>4, FileChanges

\* Files left alone keep their bytes and their part of the invariant.
LEMMA SameFiles ==
  ASSUME PosixInv, disk' = disk
  PROVE  DiskOK' /\ DOMAIN disk' = DOMAIN disk /\ Contents' = Contents
  BY DEF PosixInv, DiskOK, FileOK, Contents

\* __get_sym_file returns a file that exists.
LEMMA SymFile ==
  ASSUME PosixInv, NEW p, get_sym_file(p) # NULL
  PROVE  get_sym_file(p) = p /\ p \in DOMAIN disk /\ p \in Int /\ p # NULL
  BY DEF get_sym_file, PosixInv, PathOK, DiskOK

\* A call that opens nothing in the system leaves its descriptors alone.
LEMMA SystemStays ==
  ASSUME os' = os PROVE SystemGrows
  BY DEF SystemGrows

-----------------------------------------------------------------------------
(* Opening.                                                                  *)

\* open sets eOpen and known flags.
LEMMA AccessFlagsType ==
  ASSUME NEW acc
  PROVE  AccessFlags(acc) \in SUBSET {"eOpen", "eCloseOnExec", "eReadable", "eWriteable"}
         /\ "eOpen" \in AccessFlags(acc)
  BY DEF AccessFlags

\* The entry __fd_open fills in for a simulated file.
LEMMA NewSymEntry ==
  ASSUME NEW A, NEW p
  PROVE  [[Blank EXCEPT !.dfile = p] EXCEPT !.flags = A] = [fd |-> 0, flags |-> A, off |-> 0, dfile |-> p]
  <1> DEFINE b == [Blank EXCEPT !.dfile = p]
  <1>1. b = [fd |-> 0, flags |-> {}, off |-> 0, dfile |-> p]
    BY DEF Blank
  <1> HIDE DEF b
  <1>2. [b EXCEPT !.flags = A] = [fd |-> 0, flags |-> A, off |-> 0, dfile |-> p]
    BY <1>1
  <1> QED
    BY <1>2 DEF b

\* The entry __fd_open fills in for a descriptor of the system.
LEMMA NewSystemEntry ==
  ASSUME NEW A, NEW n
  PROVE  [[Blank EXCEPT !.fd = n] EXCEPT !.flags = A] = [fd |-> n, flags |-> A, off |-> 0, dfile |-> NULL]
  <1> DEFINE b == [Blank EXCEPT !.fd = n]
  <1>1. b = [fd |-> n, flags |-> {}, off |-> 0, dfile |-> NULL]
    BY DEF Blank
  <1> HIDE DEF b
  <1>2. [b EXCEPT !.flags = A] = [fd |-> n, flags |-> A, off |-> 0, dfile |-> NULL]
    BY <1>1
  <1> QED
    BY <1>2 DEF b

\* A successful open adds the lowest free descriptor, at position 0.
LEMMA OpenedStep ==
  ASSUME PosixInv, PosixInv', NEW fd \in Fds, LowestFree(fd), Done("open", fd), NEW e \in Entries,
         Table' = OF!With(fd, DescribedBy(e, os')), e.dfile = NULL \/ e.off = 0, Contents' = Contents
  PROVE  GoodStep
  <1>1. fd \notin DOMAIN Table /\ \A x \in Fds \ DOMAIN Table : fd <= x
    BY DEF LowestFree, FreeFds, Table, get_file
  <1>2. Table'[fd] = DescribedBy(e, os')
    BY DEF OF!With
  <1>3. DescribedBy(e, os').pos = 0
    BY DEF DescribedBy
  <1>4. ret'.call = "open" /\ ret'.val = fd
    BY DEF Done, Return, ReturnOn
  <1> HIDE DEF DescribedBy
  <1>5. OF!Open(fd)
    BY <1>1, <1>2, <1>3, <1>4 DEF OF!Open, OF!Returns
  <1> QED
    BY <1>5 DEF GoodStep, OF!OpenNext

\* __fd_open: no free entry, a refused or opened simulated file, or the system.
LEMMA OpenStep ==
  ASSUME PosixInv, PathKept, NEW p, NEW acc, NEW flags, NEW mode \in Modes,
         fd_open(p, acc, flags, mode)
  PROVE  GoodStep
  <1>1. CASE FreeFds = {} /\ Fails("open", "EMFILE")
    BY <1>1, QuietStep DEF Fails, Error, Return, ReturnOn, env, OtherResult, PosixInv
  <1>2. ASSUME NEW fd \in Fds, LowestFree(fd), get_sym_file(p) # NULL,
               SymOpen(fd, get_sym_file(p), acc, flags, mode), UNCHANGED <<umask, fail, os>>
        PROVE  GoodStep
    <2>1. p \in DOMAIN disk /\ p \in Int /\ p # NULL /\ SymOpen(fd, p, acc, flags, mode)
      BY <1>2, SymFile
    <2>2. SystemGrows /\ "eOpen" \notin fds[fd].flags /\ fd \notin DOMAIN Table /\ OF!Without(fd) = Table
      BY <1>2, SystemStays, ClosedEntries DEF LowestFree, FreeFds, get_file
    <2>3. CASE OpenError(p, acc, flags) # "" /\ Error("open", OpenError(p, acc, flags))
               /\ fds' = [fds EXCEPT ![fd] = [Blank EXCEPT !.dfile = p]] /\ UNCHANGED <<disk, dirs>>
      <3> DEFINE e == [Blank EXCEPT !.dfile = p]
      <3>1. e \in Entries /\ "eOpen" \notin e.flags
        BY <2>1 DEF Entries, Blank
      <3>2. fds' = [fds EXCEPT ![fd] = e]
        BY <2>3
      <3> HIDE DEF e
      <3>3. Table' = Table
        BY <2>2, <3>1, <3>2, OneEntry
      <3>4. PosixInv'
        BY <1>2, <2>2, <2>3, <3>1, <3>2, EntryKeepsInv, SameFiles DEF SafeEntry
      <3>5. OF!OtherCall
        BY <2>3, <3>3, SameFiles DEF OF!OtherCall, Error, Return, ReturnOn
      <3> QED
        BY <3>4, <3>5 DEF GoodStep, OF!OpenNext
    <2>4. CASE OpenError(p, acc, flags) = "" /\ Done("open", fd)
               /\ fds' = [fds EXCEPT ![fd] = [[Blank EXCEPT !.dfile = p] EXCEPT !.flags = AccessFlags(acc)]]
               /\ disk' = [disk EXCEPT ![p].mode = mode \ umask]
      <3> DEFINE e == [[Blank EXCEPT !.dfile = p] EXCEPT !.flags = AccessFlags(acc)]
      <3>1. e \in Entries /\ "eOpen" \in e.flags /\ e.dfile = p /\ e.off = 0
        <4>1. e = [fd |-> 0, flags |-> AccessFlags(acc), off |-> 0, dfile |-> p]
          BY NewSymEntry
        <4> HIDE DEF e
        <4> QED
          BY <2>1, <4>1, AccessFlagsType DEF Entries
      <3>2. fds' = [fds EXCEPT ![fd] = e]
        BY <2>4
      <3> HIDE DEF e
      <3>3. Table' = OF!With(fd, DescribedBy(e, os'))
        BY <2>2, <3>1, <3>2, OneEntry
      <3>4. mode \ umask \in Modes
        BY DEF Modes
      <3>5. DiskOK' /\ DOMAIN disk' = DOMAIN disk /\ Contents' = Contents
        BY <2>1, <2>4, <3>4, StatusChanges
      <3>6. SafeEntry(e)
        BY <2>1, <3>1 DEF SafeEntry
      <3>7. PosixInv'
        BY <1>2, <2>2, <3>1, <3>2, <3>5, <3>6, EntryKeepsInv
      <3> QED
        BY <1>2, <2>4, <3>1, <3>3, <3>5, <3>7, OpenedStep
    <2> QED
      BY <2>1, <2>3, <2>4 DEF SymOpen
  <1>3. ASSUME NEW fd \in Fds, LowestFree(fd), OSOpen(fd, p, acc), UNCHANGED <<disk, umask, fail>>
        PROVE  GoodStep
    <2>2. "eOpen" \notin fds[fd].flags /\ fd \notin DOMAIN Table /\ OF!Without(fd) = Table
      BY <1>3, ClosedEntries DEF LowestFree, FreeFds, get_file
    <2>3. CASE Error("open", "OS") /\ fds' = [fds EXCEPT ![fd] = Blank] /\ UNCHANGED <<os, dirs>>
      <3>1. Blank \in Entries /\ "eOpen" \notin Blank.flags
        BY DEF Entries, Blank, NULL
      <3>2. SystemGrows
        BY <2>3, SystemStays
      <3>3. Table' = Table
        BY <2>2, <2>3, <3>1, <3>2, OneEntry
      <3>4. PosixInv'
        BY <1>3, <2>3, <3>1, <3>2, EntryKeepsInv, SameFiles DEF SafeEntry
      <3>5. OF!OtherCall
        BY <1>3, <2>3, <3>3, SameFiles DEF OF!OtherCall, Error, Return, ReturnOn
      <3> QED
        BY <3>4, <3>5 DEF GoodStep, OF!OpenNext
    <2>4. ASSUME NEW n \in 0 .. Cardinality(DOMAIN os), n \notin DOMAIN os,
                 os' = [m \in DOMAIN os \cup {n} |-> IF m = n THEN p ELSE os[m]],
                 fds' = [fds EXCEPT ![fd] = [[Blank EXCEPT !.fd = n] EXCEPT !.flags = AccessFlags(acc)]],
                 Done("open", fd)
          PROVE  GoodStep
      <3> DEFINE e == [[Blank EXCEPT !.fd = n] EXCEPT !.flags = AccessFlags(acc)]
      <3>1. e \in Entries /\ "eOpen" \in e.flags /\ e.dfile = NULL /\ e.fd = n
        <4>1. e = [fd |-> n, flags |-> AccessFlags(acc), off |-> 0, dfile |-> NULL]
          BY NewSystemEntry
        <4>2. n \in Int
          OBVIOUS
        <4> HIDE DEF e
        <4> QED
          BY <4>1, <4>2, AccessFlagsType DEF Entries, NULL
      <3>2. fds' = [fds EXCEPT ![fd] = e]
        BY <2>4
      <3> HIDE DEF e
      <3>3. SystemGrows /\ n \in DOMAIN os'
        BY <2>4 DEF SystemGrows
      <3>4. Table' = OF!With(fd, DescribedBy(e, os'))
        BY <3>1, <3>2, <3>3, OneEntry
      <3>5. PosixInv'
        BY <1>3, <3>1, <3>2, <3>3, EntryKeepsInv, SameFiles DEF SafeEntry
      <3> QED
        BY <1>3, <2>4, <3>1, <3>4, <3>5, OpenedStep, SameFiles
    <2> QED
      BY <1>3, <2>3, <2>4 DEF OSOpen
  <1> QED
    BY <1>1, <1>2, <1>3 DEF fd_open

-----------------------------------------------------------------------------
(* Closing and duplicating.                                                  *)

\* close removes the descriptor from the table, or fails.
LEMMA CloseStep ==
  ASSUME PosixInv, NEW fd, close(fd)
  PROVE  GoodStep
  <1>1. PathKept
    BY CallKeepsPath DEF close
  <1>2. CASE ~get_file(fd) /\ CountedError("close", "EBADF")
    BY <1>1, <1>2, QuietStep DEF CountedError, Error, Return, ReturnOn, OtherResult, PosixInv
  <1>3. CASE InjectedError("close", "EIO")
    BY <1>1, <1>3, QuietStep DEF InjectedError, Error, Return, ReturnOn, OtherResult, PosixInv
  <1>4. CASE get_file(fd) /\ Closed(fd) /\ ReturnOn("close", fd, 0, "", <<>>) /\ UNCHANGED <<disk, umask, dirs>>
    <2>1. fd \in Fds /\ fds' = [fds EXCEPT ![fd] = Blank] /\ os' = os
      BY <1>4 DEF get_file, Closed
    <2>2. Blank \in Entries /\ "eOpen" \notin Blank.flags
      BY DEF Entries, Blank, NULL
    <2>3. Table' = OF!Without(fd)
      BY <2>1, <2>2, OneEntry, SystemStays
    <2>4. PosixInv'
      BY <1>1, <1>4, <2>1, <2>2, EntryKeepsInv, SameFiles, SystemStays DEF SafeEntry
    <2>5. fd \in DOMAIN Table
      BY <1>4, <2>1, ClosedEntries
    <2>6. OF!Close(fd)
      BY <1>4, <2>3, <2>5, SameFiles DEF OF!Close, OF!ReturnsOn, OF!Returns, ReturnOn
    <2> QED
      BY <2>1, <2>4, <2>6 DEF GoodStep, OF!OpenNext
  <1> QED
    BY <1>2, <1>3, <1>4 DEF close

\* The copy dup2 makes, also of a descriptor onto itself, where close may have
\* cleared the entry that is copied.
LEMMA DuplicateStep ==
  ASSUME PosixInv, PathKept, NEW oldfd, get_file(oldfd), NEW newfd \in Fds, DoDup2(oldfd, newfd)
  PROVE  GoodStep
  <1> DEFINE e == Dup2Entry(oldfd, newfd)
  <1>1. oldfd \in Fds /\ "eOpen" \in fds[oldfd].flags /\ fds[oldfd] \in Entries /\ EntryOK(fds[oldfd])
    BY DEF get_file, PosixInv, FdsOK
  <1>2. oldfd \in DOMAIN Table /\ Table[oldfd] = DescribedBy(fds[oldfd], os)
    BY <1>1, ClosedEntries
  <1>3. fds' = [fds EXCEPT ![newfd] = e] /\ UNCHANGED <<disk, umask, os>> /\ ret'.call = "dup2" /\ ret'.val = newfd
    BY DEF DoDup2, Done, Return, ReturnOn
  <1>4. SystemGrows /\ DiskOK' /\ DOMAIN disk' = DOMAIN disk /\ Contents' = Contents
    BY <1>3, SystemStays, SameFiles
  <1>5. CASE oldfd = newfd /\ ~FailsNow("close")
    <2>1. e = Blank /\ Blank \in Entries /\ "eOpen" \notin Blank.flags
      BY <1>5 DEF Dup2Entry, Entries, Blank, NULL
    <2>2. Table' = OF!Without(newfd)
      BY <1>3, <1>4, <2>1, OneEntry
    <2>3. PosixInv'
      BY <1>3, <1>4, <2>1, EntryKeepsInv DEF SafeEntry
    <2>4. OF!Dup(oldfd, newfd)
      BY <1>2, <1>3, <1>4, <1>5, <2>2 DEF OF!Dup, OF!Returns
    <2> QED
      BY <1>1, <2>3, <2>4 DEF GoodStep, OF!OpenNext
  <1>6. CASE ~(oldfd = newfd /\ ~FailsNow("close"))
    <2>1. e = [fds[oldfd] EXCEPT !.flags = fds[oldfd].flags \ {"eCloseOnExec"}]
      BY <1>6 DEF Dup2Entry
    <2> HIDE DEF e
    <2>2. e \in Entries /\ "eOpen" \in e.flags /\ e.dfile = fds[oldfd].dfile /\ e.fd = fds[oldfd].fd /\ e.off = fds[oldfd].off
      BY <1>1, <2>1 DEF Entries
    <2>3. SafeEntry(e) /\ DescribedBy(e, os') = Table[oldfd]
      BY <1>1, <1>2, <1>3, <2>2 DEF SafeEntry, EntryOK, DescribedBy
    <2>4. Table' = OF!With(newfd, Table[oldfd])
      BY <1>3, <1>4, <2>2, <2>3, OneEntry
    <2>5. PosixInv'
      BY <1>3, <1>4, <2>2, <2>3, EntryKeepsInv
    <2>6. oldfd = newfd => Table' = Table
      BY <1>1, <2>4, ClosedEntries
    <2>7. OF!Dup(oldfd, newfd)
      BY <1>2, <1>3, <1>4, <2>4, <2>6 DEF OF!Dup, OF!Returns
    <2> QED
      BY <1>1, <2>5, <2>7 DEF GoodStep, OF!OpenNext
  <1> QED
    BY <1>5, <1>6

\* dup2 copies an entry or fails.
LEMMA Dup2Step ==
  ASSUME PosixInv, NEW oldfd, NEW newfd, dup2(oldfd, newfd)
  PROVE  GoodStep
  <1>1. PathKept
    BY CallKeepsPath DEF dup2
  <1>2. CASE Fails("dup2", "EBADF")
    BY <1>1, <1>2, QuietStep DEF Fails, Error, Return, ReturnOn, env, OtherResult, PosixInv
  <1>3. CASE get_file(oldfd) /\ newfd \in Fds /\ DoDup2(oldfd, newfd)
    BY <1>1, <1>3, DuplicateStep
  <1> QED
    BY <1>2, <1>3 DEF dup2

\* dup copies an entry to the lowest free one or fails.
LEMMA DupStep ==
  ASSUME PosixInv, NEW oldfd, dup(oldfd)
  PROVE  GoodStep
  <1>1. PathKept
    BY CallKeepsPath DEF dup
  <1>2. CASE Fails("dup2", "EBADF") \/ Fails("dup2", "EMFILE")
    BY <1>1, <1>2, QuietStep DEF Fails, Error, Return, ReturnOn, env, OtherResult, PosixInv
  <1>3. CASE get_file(oldfd) /\ \E fd \in Fds : LowestFree(fd) /\ DoDup2(oldfd, fd)
    BY <1>1, <1>3, DuplicateStep
  <1> QED
    BY <1>2, <1>3 DEF dup

-----------------------------------------------------------------------------
(* Positions.                                                                *)

\* Moving an open file changes its position and not which file it is.
LEMMA PositionChanges ==
  ASSUME NEW t, NEW file, NEW pos, t = [file |-> file, pos |-> pos], NEW x
  PROVE  [t EXCEPT !.pos = x] = [file |-> file, pos |-> x]
  OBVIOUS

\* Writing f->off moves the descriptor of a simulated file, and nothing the
\* program sees of the system's.
LEMMA OffsetChanges ==
  ASSUME PosixInv, PathKept, NEW fd, get_file(fd), NEW x \in Int, fds[fd].dfile # NULL => x >= 0,
         fds' = [fds EXCEPT ![fd].off = x], UNCHANGED <<os, umask>>,
         DiskOK', DOMAIN disk' = DOMAIN disk
  PROVE  /\ PosixInv'
         /\ fds[fd].dfile = NULL => Table' = Table
         /\ fds[fd].dfile # NULL => Table' = OF!With(fd, [Table[fd] EXCEPT !.pos = x])
  <1> DEFINE e == [fds[fd] EXCEPT !.off = x]
  <1>1. fd \in Fds /\ "eOpen" \in fds[fd].flags /\ fds[fd] \in Entries /\ EntryOK(fds[fd])
    BY DEF get_file, PosixInv, FdsOK
  <1>2. fds' = [fds EXCEPT ![fd] = e]
    OBVIOUS
  <1>3. e \in Entries /\ "eOpen" \in e.flags /\ e.dfile = fds[fd].dfile /\ e.fd = fds[fd].fd /\ e.off = x
    BY <1>1 DEF Entries
  <1> HIDE DEF e
  <1>4. SafeEntry(e)
    BY <1>1, <1>3 DEF SafeEntry, EntryOK
  <1>5. PosixInv'
    BY <1>1, <1>2, <1>3, <1>4, EntryKeepsInv, SystemStays
  <1>6. Table' = OF!With(fd, DescribedBy(e, os'))
    BY <1>1, <1>2, <1>3, OneEntry, SystemStays
  <1>7. Table[fd] = DescribedBy(fds[fd], os) /\ OF!With(fd, Table[fd]) = Table
    BY <1>1, ClosedEntries
  <1>8. fds[fd].dfile = NULL => DescribedBy(e, os') = Table[fd]
    BY <1>3, <1>7 DEF DescribedBy
  <1>9. ASSUME fds[fd].dfile # NULL PROVE DescribedBy(e, os') = [Table[fd] EXCEPT !.pos = x]
    <2> DEFINE F == [sym |-> TRUE, id |-> fds[fd].dfile]
    <2>1. Table[fd] = [file |-> F, pos |-> fds[fd].off]
      BY <1>7, <1>9 DEF DescribedBy
    <2>2. DescribedBy(e, os') = [file |-> F, pos |-> x]
      BY <1>3, <1>9 DEF DescribedBy
    <2> HIDE DEF F
    <2>3. [Table[fd] EXCEPT !.pos = x] = [file |-> F, pos |-> x]
      BY <2>1, PositionChanges
    <2> QED
      BY <2>2, <2>3
  <1> QED
    BY <1>5, <1>6, <1>7, <1>8, <1>9

\* What the table says of an open descriptor of a simulated file.
LEMMA SymEntry ==
  ASSUME PosixInv, NEW fd, get_file(fd), fds[fd].dfile # NULL
  PROVE  /\ fd \in Fds /\ fd \in DOMAIN Table
         /\ Table[fd].file.sym /\ Table[fd].file.id = fds[fd].dfile /\ Table[fd].pos = fds[fd].off
         /\ fds[fd].dfile \in DOMAIN disk /\ fds[fd].off \in Nat
         /\ FileOK(disk[fds[fd].dfile])
         /\ Contents[fds[fd].dfile] = disk[fds[fd].dfile].contents
  <1>1. fd \in Fds /\ "eOpen" \in fds[fd].flags /\ fds[fd] \in Entries /\ EntryOK(fds[fd])
    BY DEF get_file, PosixInv, FdsOK
  <1>2. fd \in DOMAIN Table /\ Table[fd] = DescribedBy(fds[fd], os)
    BY <1>1, ClosedEntries
  <1>3. fds[fd].dfile \in DOMAIN disk /\ fds[fd].off \in Nat
    BY <1>1 DEF EntryOK, Entries
  <1>4. Contents[fds[fd].dfile] = disk[fds[fd].dfile].contents /\ FileOK(disk[fds[fd].dfile])
    BY <1>3 DEF Contents, PosixInv, DiskOK
  <1> QED
    BY <1>1, <1>2, <1>3, <1>4 DEF DescribedBy

\* What the table says of an open descriptor of the system.
LEMMA SystemFile ==
  ASSUME PosixInv, NEW fd, get_file(fd), fds[fd].dfile = NULL
  PROVE  fd \in Fds /\ fd \in DOMAIN Table /\ ~Table[fd].file.sym /\ fds[fd].off \in Int
  <1>1. fd \in Fds /\ "eOpen" \in fds[fd].flags /\ fds[fd] \in Entries
    BY DEF get_file, PosixInv, FdsOK
  <1>2. fd \in DOMAIN Table /\ Table[fd] = DescribedBy(fds[fd], os)
    BY <1>1, ClosedEntries
  <1> QED
    BY <1>1, <1>2 DEF DescribedBy, Entries

\* A read gets bytes of the file only, also with an offset beyond its end.
LEMMA ReadCountBounds ==
  ASSUME NEW df, disk[df].size \in Nat, NEW off \in Nat, NEW count \in Nat
  PROVE  /\ ReadCount(df, off, count) \in Nat
         /\ ReadCount(df, off, count) > 0 => off + ReadCount(df, off, count) <= disk[df].size
  BY DEF ReadCount

\* A read of a simulated file returns its bytes at the position.
LEMMA SymReadStep ==
  ASSUME PosixInv, PathKept, NEW fd, get_file(fd), fds[fd].dfile # NULL, NEW count \in Nat, SymRead(fd, count)
  PROVE  GoodStep
  <1> DEFINE df == fds[fd].dfile
             off == fds[fd].off
             n == ReadCount(df, off, count)
  <1>1. FileOK(disk[df]) /\ df \in DOMAIN disk /\ off \in Nat /\ fd \in Fds /\ fd \in DOMAIN Table
        /\ Table[fd].file.sym /\ Table[fd].file.id = df /\ Table[fd].pos = off /\ Contents[df] = disk[df].contents
    BY SymEntry
  <1>2. n \in Nat /\ (n > 0 => off + n <= disk[df].size)
    BY <1>1, ReadCountBounds DEF FileOK
  <1>3. /\ ret'.call = "read" /\ ret'.on = fd /\ ret'.val = n
        /\ ret'.data = [i \in 1 .. n |-> disk[df].contents[off + i - 1]]
        /\ fds' = [fds EXCEPT ![fd].off = off + n] /\ UNCHANGED <<disk, umask, os>>
    BY DEF SymRead, ReturnOn, Moved
  <1> HIDE DEF n
  <1>4. off + n \in Int /\ off + n >= 0
    BY <1>1, <1>2
  <1>5. PosixInv' /\ Table' = OF!With(fd, [Table[fd] EXCEPT !.pos = off + n]) /\ Contents' = Contents
    BY <1>3, <1>4, OffsetChanges, SameFiles
  <1>6. n > 0 => off + n - 1 \in DOMAIN Contents[df]
    BY <1>1, <1>2 DEF FileOK
  <1>7. OF!Read(fd)
    BY <1>1, <1>2, <1>3, <1>5, <1>6 DEF OF!Read, OF!ReturnsOn, OF!Returns
  <1> QED
    BY <1>1, <1>5, <1>7 DEF GoodStep, OF!OpenNext

\* read, write, lseek and getdents of the system's files leave the table alone.
LEMMA TransferStep ==
  ASSUME PosixInv, PathKept, NEW fd, get_file(fd), fds[fd].dfile = NULL, NEW r \in Int,
         fds' = fds \/ fds' = [fds EXCEPT ![fd].off = r], UNCHANGED <<disk, umask, os>>
  PROVE  /\ PosixInv' /\ Table' = Table /\ Contents' = Contents
         /\ ret'.call \in {"read", "write", "lseek"} /\ ret'.on = fd => GoodStep
         /\ ret'.call \notin Descriptors => GoodStep
  <1>1. fd \in Fds /\ fd \in DOMAIN Table /\ ~Table[fd].file.sym
    BY SystemFile
  <1>2. ASSUME fds' = fds PROVE PosixInv' /\ Table' = Table
    BY <1>2 DEF PosixInv, FdsOK, EntryOK, DiskOK, FileOK, PathOK, PathKept, Table, get_file, FileOf
  <1>3. ASSUME fds' = [fds EXCEPT ![fd].off = r] PROVE PosixInv' /\ Table' = Table
    BY <1>3, OffsetChanges, SameFiles
  <1>4. PosixInv' /\ Table' = Table /\ Contents' = Contents
    BY <1>2, <1>3, SameFiles
  <1>5. ret'.call \in {"read", "write", "lseek"} /\ ret'.on = fd => OF!Transfer(fd)
    BY <1>1, <1>4 DEF OF!Transfer, OF!ReturnsOn, OF!Returns
  <1>6. ret'.call \notin Descriptors => OF!OtherCall
    BY <1>4 DEF OF!OtherCall, OF!Returns, Descriptors
  <1> QED
    BY <1>1, <1>4, <1>5, <1>6 DEF GoodStep, OF!OpenNext

\* read, in each of its outcomes.
LEMMA ReadStep ==
  ASSUME PosixInv, NEW fd, NEW count \in Nat, NEW null, read(fd, count, null)
  PROVE  GoodStep
  <1>1. PathKept
    BY CallKeepsPath DEF read
  <1>2. CASE Done("read", 0) /\ UNCHANGED <<fds, disk, umask, os, dirs>>
    BY <1>1, <1>2, QuietStep DEF Done, Return, ReturnOn, OtherResult, PosixInv
  <1>3. CASE CountedError("read", "EFAULT") \/ CountedError("read", "EBADF")
    BY <1>1, <1>3, QuietStep DEF CountedError, Error, Return, ReturnOn, OtherResult, PosixInv
  <1>4. CASE InjectedError("read", "EIO")
    BY <1>1, <1>4, QuietStep DEF InjectedError, Error, Return, ReturnOn, OtherResult, PosixInv
  <1>5. CASE get_file(fd) /\ fds[fd].dfile # NULL /\ SymRead(fd, count)
    BY <1>1, <1>5, SymReadStep
  <1>6. CASE get_file(fd) /\ fds[fd].dfile = NULL /\ OSRead(fd, count)
    <2>1. PICK r \in -1 .. count :
            /\ ReturnOn("read", fd, r, IF r = -1 THEN "OS" ELSE "", <<>>)
            /\ fds' = IF r = -1 \/ fds[fd].fd = 0 THEN fds ELSE Moved(fd, r)
            /\ UNCHANGED <<disk, umask, os>>
      BY <1>6 DEF OSRead
    <2>2. fds' = fds \/ fds' = [fds EXCEPT ![fd].off = fds[fd].off + r]
      BY <2>1 DEF Moved
    <2>3. fds[fd].off + r \in Int
      BY <1>6, SystemFile
    <2> QED
      BY <1>1, <1>6, <2>1, <2>2, <2>3, TransferStep DEF ReturnOn
  <1> QED
    BY <1>2, <1>3, <1>4, <1>5, <1>6 DEF read

\* A write stores what fits and moves the position by all of it.
LEMMA SymWriteStep ==
  ASSUME PosixInv, PathKept, NEW fd, get_file(fd), fds[fd].dfile # NULL, NEW buf \in Seq(Int), SymWrite(fd, buf)
  PROVE  GoodStep
  <1> DEFINE df == fds[fd].dfile
             off == fds[fd].off
             new == Stored(disk[df].contents, off, buf)
             f   == [disk[df] EXCEPT !.contents = new]
  <1>1. FileOK(disk[df]) /\ df \in DOMAIN disk /\ off \in Nat /\ fd \in Fds /\ fd \in DOMAIN Table
        /\ Table[fd].file.sym /\ Table[fd].file.id = df /\ Table[fd].pos = off /\ Contents[df] = disk[df].contents
    BY SymEntry
  <1>2. Len(buf) \in Nat /\ DOMAIN buf = 1 .. Len(buf) /\ \A i \in 1 .. Len(buf) : buf[i] \in Int
    OBVIOUS
  <1>3. /\ ret'.call = "write" /\ ret'.on = fd /\ ret'.val = Len(buf) /\ ret'.data = buf
        /\ fds' = [fds EXCEPT ![fd].off = off + Len(buf)] /\ UNCHANGED <<umask, os>>
        /\ disk' = [disk EXCEPT ![df] = f]
    BY DEF SymWrite, ReturnOn, Moved
  <1>4. new \in [0 .. (disk[df].size - 1) -> Int]
    <2>1. DOMAIN disk[df].contents = 0 .. (disk[df].size - 1) /\ disk[df].contents \in [0 .. (disk[df].size - 1) -> Int]
      BY <1>1 DEF FileOK
    <2>2. \A k \in 0 .. (disk[df].size - 1) : k - off \in 0 .. (Len(buf) - 1) => buf[k - off + 1] \in Int
      <3> SUFFICES ASSUME NEW k \in 0 .. (disk[df].size - 1), k - off \in 0 .. (Len(buf) - 1)
                   PROVE  buf[k - off + 1] \in Int
        OBVIOUS
      <3>1. disk[df].size \in Nat /\ k \in Int /\ off \in Int
        BY <1>1 DEF FileOK
      <3>2. k - off + 1 \in 1 .. Len(buf)
        <4>1. PICK n \in Nat : n = Len(buf)
          BY <1>2, Zenon
        <4>2. k - off \in 0 .. (n - 1)
          BY <4>1, Zenon
        <4>3. PICK j \in Int : j = off
          BY <3>1, Zenon
        <4>4. k - j + 1 \in 1 .. n
          <5>1. k - j \in 0 .. (n - 1)
            BY <4>2, <4>3, Zenon
          <5>2. QED
            BY <3>1, <5>1
        <4>5. QED
          BY <4>1, <4>3, <4>4, Zenon
      <3> QED
        BY <1>2, <3>2
    <2> QED
      BY <2>1, <2>2 DEF Stored
  <1>5. new = [k \in DOMAIN Contents[df] |->
                 IF k - off \in 0 .. (Len(buf) - 1) THEN buf[k - off + 1] ELSE Contents[df][k]]
    BY <1>1 DEF Stored
  <1> HIDE DEF new
  <1>6. FileOK(f) /\ f.contents = new
    BY <1>1, <1>4 DEF FileOK
  <1> HIDE DEF f
  <1>7. DiskOK' /\ DOMAIN disk' = DOMAIN disk /\ Contents' = [Contents EXCEPT ![df] = new]
    BY <1>1, <1>3, <1>6, FileChanges
  <1>8. off + Len(buf) \in Int /\ off + Len(buf) >= 0
    BY <1>1, <1>2
  <1>9. PosixInv' /\ Table' = OF!With(fd, [Table[fd] EXCEPT !.pos = off + Len(buf)])
    BY <1>3, <1>7, <1>8, OffsetChanges
  <1>10. OF!Write(fd)
    BY <1>1, <1>2, <1>3, <1>5, <1>7, <1>9 DEF OF!Write, OF!ReturnsOn, OF!Returns
  <1> QED
    BY <1>1, <1>9, <1>10 DEF GoodStep, OF!OpenNext

\* write, in each of its outcomes.
LEMMA WriteStep ==
  ASSUME PosixInv, NEW fd, NEW buf \in Seq(Int), write(fd, buf) \/ writeAborts(fd, buf)
  PROVE  GoodStep
  <1>1. PathKept
    BY CallKeepsPath DEF write, writeAborts
  <1>2. CASE CountedError("write", "EBADF")
    BY <1>1, <1>2, QuietStep DEF CountedError, Error, Return, ReturnOn, OtherResult, PosixInv
  <1>3. CASE InjectedError("write", "EIO")
    BY <1>1, <1>3, QuietStep DEF InjectedError, Error, Return, ReturnOn, OtherResult, PosixInv
  <1>4. CASE get_file(fd) /\ fds[fd].dfile # NULL /\ SymWrite(fd, buf)
    BY <1>1, <1>4, SymWriteStep
  <1>5. CASE get_file(fd) /\ fds[fd].dfile = NULL /\ OSWrite(fd, Len(buf))
    <2>1. PICK r \in -1 .. Len(buf) :
            /\ ReturnOn("write", fd, r, IF r = -1 THEN "OS" ELSE "", <<>>)
            /\ fds' = IF r = -1 \/ fds[fd].fd \in {1, 2} THEN fds ELSE Moved(fd, r)
            /\ UNCHANGED <<disk, umask, os>>
      BY <1>5 DEF OSWrite
    <2>2. fds' = fds \/ fds' = [fds EXCEPT ![fd].off = fds[fd].off + r]
      BY <2>1 DEF Moved
    <2>3. fds[fd].off + r \in Int
      BY <1>5, SystemFile
    <2> QED
      BY <1>1, <1>5, <2>1, <2>2, <2>3, TransferStep DEF ReturnOn
  <1>6. CASE writeAborts(fd, buf)
    BY <1>1, <1>6, QuietStep DEF writeAborts, Halt, OtherResult, PosixInv
  <1> QED
    BY <1>2, <1>3, <1>4, <1>5, <1>6 DEF write, Writes

\* A seek of a simulated file sets its position.
LEMMA SoughtStep ==
  ASSUME PosixInv, PathKept, NEW fd, get_file(fd), fds[fd].dfile # NULL, NEW x \in Int, x >= 0,
         fds' = [fds EXCEPT ![fd].off = x], UNCHANGED <<disk, umask, os>>,
         ReturnOn("lseek", fd, x, "", <<>>)
  PROVE  GoodStep
  <1>1. fd \in Fds /\ fd \in DOMAIN Table /\ Table[fd].file.sym
    BY SymEntry
  <1>2. PosixInv' /\ Table' = OF!With(fd, [Table[fd] EXCEPT !.pos = x]) /\ Contents' = Contents
    BY OffsetChanges, SameFiles
  <1>3. ret'.call = "lseek" /\ ret'.on = fd /\ ret'.val = x
    BY DEF ReturnOn
  <1>4. OF!Seek(fd)
    BY <1>1, <1>2, <1>3 DEF OF!Seek, OF!ReturnsOn, OF!Returns
  <1> QED
    BY <1>1, <1>2, <1>4 DEF GoodStep, OF!OpenNext

\* __fd_lseek, for each whence.
LEMMA SeekStep ==
  ASSUME PosixInv, NEW fd, NEW off \in Int, NEW whence, prog.ends \subseteq Int, fd_lseek(fd, off, whence)
  PROVE  GoodStep
  <1>1. PathKept
    BY CallKeepsPath DEF fd_lseek
  <1>2. CASE Fails("lseek", "EBADF")
    BY <1>1, <1>2, QuietStep DEF Fails, Error, Return, ReturnOn, env, OtherResult, PosixInv
  <1>3. CASE get_file(fd) /\ fds[fd].dfile = NULL /\ OSSeek(fd, off, whence)
    <2>1. fds[fd].off \in Int
      BY <1>3, SystemFile
    <2>2. PICK x \in {CASE whence = "SEEK_SET" -> off
                        [] whence = "SEEK_CUR" -> fds[fd].off + off
                        [] OTHER -> end + off : end \in prog.ends} \cup {-1} :
            /\ ReturnOn("lseek", fd, x, IF x = -1 THEN "OS" ELSE "", <<>>)
            /\ fds' = IF x = -1 THEN fds ELSE [fds EXCEPT ![fd].off = x]
            /\ UNCHANGED <<disk, umask, os>>
      BY <1>3 DEF OSSeek
    <2>3. \/ x = -1
          \/ \E end \in prog.ends : x = IF whence = "SEEK_SET" THEN off
                                         ELSE IF whence = "SEEK_CUR" THEN fds[fd].off + off ELSE end + off
      BY <2>2
    <2>4. x \in Int
      BY <2>1, <2>3
    <2> QED
      BY <1>1, <1>3, <2>2, <2>4, TransferStep DEF ReturnOn
  <1>4. CASE get_file(fd) /\ fds[fd].dfile # NULL /\ SymSeek(fd, off, whence)
    <2>1. FileOK(disk[fds[fd].dfile]) /\ fds[fd].off \in Nat
      BY <1>4, SymEntry
    <2>2. SeekTarget(fd, off, whence) \in Int
      BY <2>1 DEF SeekTarget, FileOK
    <2>3. PICK x \in Int : x = SeekTarget(fd, off, whence)
      BY <2>2
    <2>4. IF x < 0 THEN Fails("lseek", "EINVAL")
          ELSE /\ fds' = [fds EXCEPT ![fd].off = x] /\ ReturnOn("lseek", fd, x, "", <<>>)
               /\ UNCHANGED <<disk, umask, fail, os, dirs>>
      BY <1>4, <2>3 DEF SymSeek
    <2>5. CASE x < 0
      BY <1>1, <2>4, <2>5, QuietStep DEF Fails, Error, Return, ReturnOn, env, OtherResult, PosixInv
    <2>6. CASE ~(x < 0)
      <3>1. x >= 0
        BY <2>6
      <3>2. fds' = [fds EXCEPT ![fd].off = x] /\ ReturnOn("lseek", fd, x, "", <<>>) /\ UNCHANGED <<disk, umask, os>>
        BY <2>4, <2>6
      <3> QED
        BY <1>1, <1>4, <3>1, <3>2, SoughtStep
    <2> QED
      BY <2>5, <2>6
  <1> QED
    BY <1>2, <1>3, <1>4 DEF fd_lseek

-----------------------------------------------------------------------------
(* Directories and the status of files.                                      *)

\* __fd_getdents and its memory error.
LEMMA GetDentsStep ==
  ASSUME PosixInv, NEW fd, NEW count \in Nat, fd_getdents(fd, count) \/ getdentsOverflows(fd, count)
  PROVE  GoodStep
  <1>1. PathKept
    BY CallKeepsPath DEF fd_getdents, getdentsOverflows
  <1>2. CASE \E e : Fails("getdents", e)
    BY <1>1, <1>2, QuietStep DEF Fails, Error, Return, ReturnOn, env, OtherResult, PosixInv
  <1>3. CASE getdentsOverflows(fd, count)
    BY <1>1, <1>3, QuietStep DEF getdentsOverflows, Halt, OtherResult, PosixInv
  <1>4. ASSUME get_file(fd), fds[fd].dfile = NULL,
               \E x \in Int : fds' = [fds EXCEPT ![fd].off = x],
               ret'.call = "getdents", UNCHANGED <<disk, umask, os>>
        PROVE  GoodStep
    BY <1>1, <1>4, TransferStep DEF Descriptors
  <1>5. CASE get_file(fd) /\ fds[fd].dfile = NULL /\ OwnDirents(fd, count)
    <2>1. \/ Fails("getdents", "EINVAL")
          \/ /\ ret'.call = "getdents" /\ UNCHANGED <<disk, umask, os>>
             /\ \/ fds' = [fds EXCEPT ![fd].off = Gap]
                \/ fds' = [fds EXCEPT ![fd].off = count]
      <3>1. CASE Fails("getdents", "EINVAL")
        BY <3>1
      <3>2. CASE /\ Return("getdents", IF count >= Gap THEN Gap ELSE count, "", SymEntries(fds[fd].off \div DirentSize))
                 /\ fds' = [fds EXCEPT ![fd].off = IF count >= Gap THEN Gap ELSE count]
                 /\ UNCHANGED <<disk, umask, fail, os>>
        <4>1. ret'.call = "getdents"
          BY <3>2 DEF Return, ReturnOn
        <4>2. CASE count >= Gap
          BY <3>2, <4>1, <4>2
        <4>3. CASE ~(count >= Gap)
          BY <3>2, <4>1, <4>3
        <4> QED
          BY <4>2, <4>3
      <3> QED
        BY <1>5, <3>1, <3>2 DEF OwnDirents
    <2> QED
      BY <1>2, <1>4, <1>5, <2>1, PosixAssumption
  <1>6. CASE get_file(fd) /\ fds[fd].dfile = NULL /\ SystemDirents(fd)
    <2> DEFINE pos == fds[fd].off - Gap
    <2>1. CASE Fails("getdents", "OS")
      BY <1>2, <2>1
    <2>2. ASSUME NEW n \in 0 .. (IF pos < Len(OSEntries) THEN Len(OSEntries) - pos ELSE 0),
                 Return("getdents", n, "", OSDirents(pos, n)),
                 fds' = [fds EXCEPT ![fd].off = pos + n + Gap], UNCHANGED <<disk, umask, os>>
          PROVE  GoodStep
      <3>1. fds[fd].off \in Int /\ n \in Int
        BY <1>6, SystemFile
      <3>2. pos + n + Gap \in Int
        BY <3>1, PosixAssumption
      <3> QED
        BY <1>4, <1>6, <2>2, <3>2 DEF Return, ReturnOn
    <2> QED
      BY <1>6, <2>1, <2>2 DEF SystemDirents
  <1> QED
    BY <1>2, <1>3, <1>5, <1>6 DEF fd_getdents

\* Changing the status of a file is no step of the open files.
LEMMA StatusStep ==
  ASSUME PosixInv, PathKept, NEW df \in DOMAIN disk, NEW m \in Modes, UNCHANGED <<fds, umask, os>>,
         \/ disk' = [disk EXCEPT ![df].mode = m]
         \/ disk' = [disk EXCEPT ![df].st_ino = 0],
         ret'.call \notin Descriptors
  PROVE  GoodStep
  <1>1. DiskOK' /\ DOMAIN disk' = DOMAIN disk /\ Contents' = Contents
    BY StatusChanges
  <1>2. PosixInv'
    BY <1>1 DEF PosixInv, FdsOK, EntryOK, PathOK, PathKept
  <1>3. Table' = Table
    BY DEF Table, get_file, FileOf
  <1>4. OF!OtherCall
    BY <1>1, <1>3 DEF OF!OtherCall, OF!Returns, Descriptors
  <1> QED
    BY <1>2, <1>4 DEF GoodStep, OF!OpenNext

\* __df_chmod, by the owner or not.
LEMMA ChmodDiskStep ==
  ASSUME PosixInv, PathKept, NEW f \in {"chmod", "fchmod"}, NEW df \in DOMAIN disk, NEW mode \in Modes,
         df_chmod(f, df, mode)
  PROVE  GoodStep
  <1>1. /\ IF disk[df].own THEN Done(f, 0) /\ disk' = [disk EXCEPT ![df].mode = mode]
           ELSE Error(f, "EPERM") /\ disk' = disk
        /\ UNCHANGED <<fds, umask, os>>
    BY DEF df_chmod
  <1>2. CASE disk[df].own
    <2>1. Done(f, 0) /\ disk' = [disk EXCEPT ![df].mode = mode]
      BY <1>1, <1>2, Zenon
    <2>2. ret'.call = f
      BY <2>1 DEF Done, Return, ReturnOn
    <2> QED
      BY <1>1, <2>1, <2>2, StatusStep DEF Descriptors
  <1>3. CASE ~disk[df].own
    <2>1. disk' = disk /\ ret'.val = -1
      BY <1>1, <1>3 DEF Error, Return, ReturnOn
    <2> QED
      BY <1>1, <2>1, QuietStep DEF OtherResult, PosixInv
  <1> QED
    BY <1>2, <1>3

\* chmod passed to the system.
LEMMA SysChmodStep ==
  ASSUME PosixInv, PathKept, NEW f \in {"chmod", "fchmod"}, SysChmod(f)
  PROVE  GoodStep
  <1>1. PICK v \in {0, -1} : Done(f, v) /\ UNCHANGED <<fds, disk, umask, os, dirs>>
    BY DEF SysChmod
  <1>2. ret'.call = f
    BY <1>1 DEF Done, Return, ReturnOn
  <1> QED
    BY <1>1, <1>2, QuietStep DEF OtherResult, PosixInv, Descriptors

\* chmod, fchmod and their null pointers.
LEMMA ChmodStep ==
  ASSUME PosixInv, Chmod
  PROVE  GoodStep
  <1>1. ASSUME NEW p, NEW mode \in Modes, chmod(p, mode) PROVE GoodStep
    <2>1. PathKept
      BY <1>1, CallKeepsPath DEF chmod
    <2>2. CASE get_sym_file(p) # NULL
      BY <1>1, <2>1, <2>2, SymFile, ChmodDiskStep DEF chmod
    <2>3. CASE get_sym_file(p) = NULL
      BY <1>1, <2>1, <2>3, SysChmodStep DEF chmod
    <2> QED
      BY <2>2, <2>3
  <1>2. ASSUME NEW fd, NEW mode \in Modes, fchmod(fd, mode) PROVE GoodStep
    <2>1. PathKept
      BY <1>2, CallKeepsPath DEF fchmod
    <2>2. CASE Fails("fchmod", "EBADF")
      BY <2>1, <2>2, QuietStep DEF Fails, Error, Return, ReturnOn, env, OtherResult, PosixInv
    <2>3. CASE get_file(fd) /\ fds[fd].dfile # NULL /\ df_chmod("fchmod", fds[fd].dfile, mode)
      BY <2>1, <2>3, SymEntry, ChmodDiskStep
    <2>4. CASE SysChmod("fchmod")
      BY <2>1, <2>4, SysChmodStep
    <2> QED
      BY <1>2, <2>2, <2>3, <2>4 DEF fchmod
  <1>3. ASSUME NEW fd, chmodAborts(fd) PROVE GoodStep
    BY <1>3, CallKeepsPath, QuietStep DEF chmodAborts, Halt, OtherResult, PosixInv
  <1> QED
    BY <1>1, <1>2, <1>3 DEF Chmod, Modes

\* unlink and rmdir: descriptors of the deleted file stay open.
LEMMA DeleteStep ==
  ASSUME PosixInv, NEW p, rmdir(p) \/ unlink(p) \/ unlinkat(p)
  PROVE  GoodStep
  <1>1. PathKept
    BY CallKeepsPath DEF rmdir, unlink, unlinkat
  <1>2. CASE \E f, e : Fails(f, e)
    BY <1>1, <1>2, QuietStep DEF Fails, Error, Return, ReturnOn, env, OtherResult, PosixInv
  <1>3. ASSUME NEW f \in {"rmdir", "unlink"}, get_sym_file(p) # NULL, Deleted(f, p)
        PROVE  GoodStep
    <2>1. p \in DOMAIN disk /\ {} \in Modes
      BY <1>3, SymFile DEF Modes
    <2>2. ret'.call = f /\ disk' = [disk EXCEPT ![p].st_ino = 0] /\ UNCHANGED <<fds, umask, os>>
      BY <1>3 DEF Deleted, Done, Return, ReturnOn
    <2> QED
      BY <1>1, <2>1, <2>2, StatusStep DEF Descriptors
  <1> QED
    BY <1>2, <1>3 DEF rmdir, unlink, unlinkat

\* fcntl changes the close-on-exec flag only.
LEMMA FcntlStep ==
  ASSUME PosixInv, NEW fd, NEW cmd, NEW arg, fcntl(fd, cmd, arg)
  PROVE  GoodStep
  <1>1. PathKept
    BY CallKeepsPath DEF fcntl
  <1>2. CASE \E e : Fails("fcntl", e)
    BY <1>1, <1>2, QuietStep DEF Fails, Error, Return, ReturnOn, env, OtherResult, PosixInv
  <1>3. CASE Syscall("fcntl") \/ \E v : Pure("fcntl", v)
    BY <1>1, <1>3, PassedOnStep, AnsweredStep DEF Descriptors
  <1>4. ASSUME get_file(fd), NEW S \in SUBSET {"eCloseOnExec"},
               fds' = [fds EXCEPT ![fd].flags = (@ \ {"eCloseOnExec"}) \cup S],
               Done("fcntl", 0), UNCHANGED <<disk, umask, os>>
        PROVE  GoodStep
    <2> DEFINE e == [fds[fd] EXCEPT !.flags = (fds[fd].flags \ {"eCloseOnExec"}) \cup S]
    <2>1. fd \in Fds /\ "eOpen" \in fds[fd].flags /\ fds[fd] \in Entries /\ EntryOK(fds[fd])
      BY <1>4 DEF get_file, PosixInv, FdsOK
    <2>2. fds' = [fds EXCEPT ![fd] = e]
      BY <1>4
    <2>3. e \in Entries /\ "eOpen" \in e.flags /\ e.dfile = fds[fd].dfile /\ e.fd = fds[fd].fd /\ e.off = fds[fd].off
      BY <2>1 DEF Entries
    <2> HIDE DEF e
    <2>4. SafeEntry(e) /\ DescribedBy(e, os') = DescribedBy(fds[fd], os)
      BY <1>4, <2>1, <2>3 DEF SafeEntry, EntryOK, DescribedBy
    <2>5. PosixInv'
      BY <1>1, <1>4, <2>1, <2>2, <2>3, <2>4, EntryKeepsInv, SystemStays, SameFiles
    <2>6. Table' = OF!With(fd, DescribedBy(e, os')) /\ Table = OF!With(fd, DescribedBy(fds[fd], os))
      BY <1>4, <2>1, <2>2, <2>3, OneEntry, SystemStays, ClosedEntries
    <2>7. OF!OtherCall
      BY <1>4, <2>4, <2>6, SameFiles DEF OF!OtherCall, OF!Returns, Done, Return, ReturnOn
    <2> QED
      BY <2>5, <2>7 DEF GoodStep, OF!OpenNext
  <1>5. CASE /\ get_file(fd)
             /\ fds' = [fds EXCEPT ![fd].flags = (@ \ {"eCloseOnExec"}) \cup (IF arg = 1 THEN {"eCloseOnExec"} ELSE {})]
             /\ Done("fcntl", 0) /\ UNCHANGED <<disk, umask, fail, os, dirs>>
    <2>1. (IF arg = 1 THEN {"eCloseOnExec"} ELSE {}) \in SUBSET {"eCloseOnExec"}
      OBVIOUS
    <2> QED
      BY <1>4, <1>5, <2>1
  <1> QED
    BY <1>2, <1>3, <1>5 DEF fcntl

-----------------------------------------------------------------------------
(* The calls that leave descriptors and files alone.                         *)

\* Calls that are counted and passed to the system.
LEMMA CountedStep ==
  ASSUME PosixInv, PathKept, NEW f \in {"ftruncate", "getcwd"}, NEW v,
         Done(f, v), UNCHANGED <<fds, disk, umask, os, dirs>>
  PROVE  GoodStep
  <1>1. ret'.call = f
    BY DEF Done, Return, ReturnOn
  <1> QED
    BY <1>1, QuietStep DEF OtherResult, PosixInv, Descriptors

\* ftruncate never succeeds on a simulated file.
LEMMA TruncateStep ==
  ASSUME PosixInv, Truncate
  PROVE  GoodStep
  <1>1. PICK fd : fd_ftruncate(fd)
    BY DEF Truncate
  <1>2. PathKept
    BY <1>1, CallKeepsPath DEF fd_ftruncate
  <1>3. CASE \E e : CountedError("ftruncate", e) \/ InjectedError("ftruncate", e)
    BY <1>2, <1>3, RefusedStep
  <1>4. CASE \E v \in {0, -1} : Done("ftruncate", v) /\ fail' = Counted("ftruncate")
                              /\ UNCHANGED <<fds, disk, umask, os, dirs>>
    BY <1>2, <1>4, CountedStep
  <1> QED
    BY <1>1, <1>3, <1>4 DEF fd_ftruncate

\* getcwd touches no descriptor.
LEMMA GetcwdStep ==
  ASSUME PosixInv, getcwd
  PROVE  GoodStep
  <1>1. PathKept
    BY CallKeepsPath DEF getcwd
  <1>2. CASE InjectedError("getcwd", "ERANGE")
    BY <1>1, <1>2, RefusedStep
  <1>3. CASE \E v \in {0, -1} : Done("getcwd", v) /\ fail' = Counted("getcwd")
                              /\ UNCHANGED <<fds, disk, umask, os, dirs>>
    BY <1>1, <1>3, CountedStep
  <1> QED
    BY <1>2, <1>3 DEF getcwd

\* umask touches no descriptor.
LEMMA UmaskStep ==
  ASSUME PosixInv, Umask
  PROVE  GoodStep
  <1>1. PICK mask \in Modes : SetUmask(mask)
    BY DEF Umask, Modes
  <1>2. PathKept
    BY <1>1, CallKeepsPath DEF SetUmask
  <1>3. ret'.call = "umask" /\ umask' = mask /\ UNCHANGED <<fds, disk, os>>
    BY <1>1 DEF SetUmask, Done, Return, ReturnOn
  <1> QED
    BY <1>2, <1>3, QuietStep DEF OtherResult, Descriptors

\* Calls by name.
LEMMA OnNameStep ==
  ASSUME PosixInv, NEW f, f \notin Descriptors, NEW p, NEW v, NEW e, OnName(f, p, v, e)
  PROVE  GoodStep
  <1>1. PathKept
    BY CallKeepsPath DEF OnName
  <1>2. CASE Syscall(f)
    BY <1>1, <1>2, PassedOnStep
  <1>3. CASE Return(f, v, e, <<>>) /\ UNCHANGED env
    BY <1>1, <1>3, AnsweredStep
  <1> QED
    BY <1>2, <1>3 DEF OnName

\* Calls by descriptor.
LEMMA OnFileStep ==
  ASSUME PosixInv, NEW f, f \notin Descriptors, NEW fd, NEW v, NEW e, OnFile(f, fd, v, e)
  PROVE  GoodStep
  <1>1. PathKept
    BY CallKeepsPath DEF OnFile
  <1>2. CASE Syscall(f)
    BY <1>1, <1>2, PassedOnStep
  <1>3. CASE Return(f, v, e, <<>>) /\ UNCHANGED env
    BY <1>1, <1>3, AnsweredStep
  <1>4. CASE Fails(f, "EBADF")
    BY <1>1, <1>4, RefusedStep
  <1> QED
    BY <1>2, <1>3, <1>4 DEF OnFile

\* Calls by name, relative to a descriptor.
LEMMA OnNameAtStep ==
  ASSUME PosixInv, NEW f, f \notin Descriptors, NEW base, NEW p, NEW v, OnNameAt(f, base, p, v)
  PROVE  GoodStep
  <1>1. CASE OnName(f, p, v, "")
    BY <1>1, OnNameStep
  <1>2. CASE Call(f) /\ \E e : Fails(f, e)
    <2>1. PathKept
      BY <1>2, CallKeepsPath
    <2> QED
      BY <1>2, <2>1, RefusedStep
  <1> QED
    BY <1>1, <1>2 DEF OnNameAt

\* All calls that ask for the status of a name or descriptor.
LEMMA ByNameStep ==
  ASSUME PosixInv, ByName \/ ByNameAt \/ ByFile
  PROVE  GoodStep
  <1>1. ASSUME NEW p, access(p) \/ fd_stat(p) \/ fd_lstat(p) \/ utimes(p) \/ chdir(p)
                      \/ fd_statfs(p) \/ chown(p) \/ lchown(p)
        PROVE  GoodStep
    BY <1>1, OnNameStep DEF access, fd_stat, fd_lstat, utimes, chdir, fd_statfs, chown, lchown, Descriptors
  <1>2. ASSUME NEW p, readlink(p) PROVE GoodStep
    <2>1. PICK v, e : OnName("readlink", p, v, e)
      BY <1>2 DEF readlink
    <2> QED
      BY <2>1, OnNameStep DEF Descriptors
  <1>3. ASSUME NEW p, chroot(p) PROVE GoodStep
    <2>1. PathKept
      BY <1>3, CallKeepsPath DEF chroot
    <2> QED
      BY <1>3, <2>1, RefusedStep, AnsweredStep DEF chroot, Descriptors
  <1>4. ASSUME NEW base, NEW p, fstatat(base, p) \/ futimesat(base, p) PROVE GoodStep
    BY <1>4, OnNameAtStep DEF fstatat, futimesat, Descriptors
  <1>5. ASSUME NEW fd, fd_fstat(fd) \/ fsync(fd) \/ fchdir(fd) \/ fchown(fd) \/ fstatfs(fd) PROVE GoodStep
    BY <1>5, OnFileStep DEF fd_fstat, fsync, fchdir, fchown, fstatfs, Descriptors
  <1>6. CASE ByName
    BY <1>1, <1>2, <1>3, <1>6 DEF ByName
  <1>7. CASE ByNameAt
    BY <1>4, <1>7 DEF ByNameAt
  <1>8. CASE ByFile
    BY <1>5, <1>8 DEF ByFile
  <1> QED
    BY <1>6, <1>7, <1>8

\* ioctl changes nothing.
LEMMA IoctlStep ==
  ASSUME PosixInv, Ioctl
  PROVE  GoodStep
  <1>1. PICK fd, request : ioctl(fd, request)
    BY DEF Ioctl
  <1>2. PathKept
    BY <1>1, CallKeepsPath DEF ioctl
  <1>3. CASE \E e : Fails("ioctl", e)
    BY <1>2, <1>3, RefusedStep
  <1>4. CASE Syscall("ioctl")
    BY <1>2, <1>4, PassedOnStep DEF Descriptors
  <1>5. CASE Pure("ioctl", 0)
    BY <1>2, <1>5, AnsweredStep DEF Descriptors
  <1> QED
    BY <1>1, <1>3, <1>4, <1>5 DEF ioctl

\* select changes nothing.
LEMMA SelectStep ==
  ASSUME PosixInv, Select
  PROVE  GoodStep
  <1>1. PICK in, nfds : select(in, nfds)
    BY DEF Select
  <1>2. PathKept
    BY <1>1, CallKeepsPath DEF select
  <1>3. ASSUME NEW osReady, NEW bits, UNCHANGED env, Selected(in, nfds, osReady, bits) PROVE GoodStep
    BY <1>2, <1>3, AnsweredStep DEF Selected, Descriptors
  <1>4. CASE Fails("select", "EBADF")
    BY <1>2, <1>4, RefusedStep
  <1>5. CASE UNCHANGED env /\ Error("select", "OS")
    BY <1>2, <1>5, RefusedStep DEF Fails
  <1> QED
    BY <1>1, <1>3, <1>4, <1>5 DEF select

\* The stubs, none of which is a call on descriptors.
LEMMA StubsStep ==
  ASSUME PosixInv, Stubs
  PROVE  GoodStep
  <1>1. ASSUME NEW stubs, DOMAIN stubs \cap Descriptors = {}, Stub(stubs) PROVE GoodStep
    <2>1. PICK f \in DOMAIN stubs : Call("stub") /\ IF stubs[f] = "" THEN Pure(f, 0) ELSE Fails(f, stubs[f])
      BY <1>1 DEF Stub
    <2>2. PathKept /\ f \notin Descriptors
      BY <1>1, <2>1, CallKeepsPath
    <2>3. CASE Pure(f, 0)
      BY <2>2, <2>3, AnsweredStep
    <2>4. CASE Fails(f, stubs[f])
      BY <2>2, <2>4, RefusedStep
    <2> QED
      BY <2>1, <2>3, <2>4
  <1>2. DOMAIN FileStubs \cap Descriptors = {}
    BY DEF FileStubs, Descriptors
  <1>3. DOMAIN TimeStubs \cap Descriptors = {}
    BY DEF TimeStubs, Descriptors
  <1>4. DOMAIN WaitStubs \cap Descriptors = {}
    BY DEF WaitStubs, Descriptors
  <1>5. DOMAIN ProcessStubs \cap Descriptors = {}
    BY DEF ProcessStubs, Descriptors
  <1>6. DOMAIN SystemStubs \cap Descriptors = {}
    BY DEF SystemStubs, Descriptors
  <1>7. DOMAIN MemoryStubs \cap Descriptors = {}
    BY DEF MemoryStubs, Descriptors
  <1> QED
    BY <1>1, <1>2, <1>3, <1>4, <1>5, <1>6, <1>7 DEF Stubs

-----------------------------------------------------------------------------
(* The runtime implements the table of open files.                           *)

\* The program's arguments have the types assumed of them.
LEMMA ArgumentTypes ==
  ASSUME PosixInv
  PROVE  /\ prog.counts \subseteq Nat /\ prog.dirCounts \subseteq Nat /\ prog.ends \subseteq Int
         /\ \A j \in DOMAIN prog.opens : prog.opens[j].mode \in Modes
         /\ \A j \in DOMAIN prog.bufs : prog.bufs[j] \in Seq(Int)
         /\ \A j \in DOMAIN prog.seeks : prog.seeks[j].off \in Int
  BY ProgramsAssumption DEF PosixInv, PathOK, prog

\* open and openat, which pass mode 0 without O_CREAT.
LEMMA OpensStep ==
  ASSUME PosixInv, Open \/ OpenAt
  PROVE  GoodStep
  <1>1. ASSUME NEW mode \in Modes, NEW flags PROVE ModeOf(flags, mode) \in Modes
    BY DEF ModeOf, Modes
  <1>2. CASE Open
    <2>1. PICK p \in prog.names, i \in DOMAIN prog.opens : open(p, prog.opens[i].acc, prog.opens[i].flags, prog.opens[i].mode)
      BY <1>2 DEF Open
    <2>2. PathKept
      BY <2>1, CallKeepsPath DEF open
    <2> QED
      BY <1>1, <2>1, <2>2, ArgumentTypes, OpenStep DEF open
  <1>3. CASE OpenAt
    <2>1. PICK base \in prog.fds \cup {AT_FDCWD}, p \in prog.names, i \in DOMAIN prog.opens :
             openat(base, p, prog.opens[i].acc, prog.opens[i].flags, prog.opens[i].mode)
      BY <1>3 DEF OpenAt
    <2>2. PathKept
      BY <2>1, CallKeepsPath DEF openat
    <2>3. CASE \E e : Fails("open", e)
      BY <2>2, <2>3, RefusedStep
    <2>4. CASE fd_open(p, prog.opens[i].acc, prog.opens[i].flags, ModeOf(prog.opens[i].flags, prog.opens[i].mode))
      BY <1>1, <2>1, <2>2, <2>4, ArgumentTypes, OpenStep
    <2> QED
      BY <2>1, <2>3, <2>4 DEF openat, fd_openat
  <1> QED
    BY <1>2, <1>3

\* Every call keeps the invariant and is a step of the open files.
LEMMA NextStep == PosixInv /\ Next => GoodStep
  <1> SUFFICES ASSUME PosixInv, Next PROVE GoodStep
    OBVIOUS
  <1>1. CASE Open \/ OpenAt
    BY <1>1, OpensStep
  <1>2. CASE Close \/ Dup2 \/ Dup
    BY <1>2, CloseStep, Dup2Step, DupStep DEF Close, Dup2, Dup
  <1>3. CASE Read
    BY <1>3, ReadStep, ArgumentTypes DEF Read
  <1>4. CASE Write
    BY <1>4, WriteStep, ArgumentTypes DEF Write
  <1>5. CASE Seek
    BY <1>5, SeekStep, ArgumentTypes DEF Seek
  <1>6. CASE GetDents
    BY <1>6, GetDentsStep, ArgumentTypes DEF GetDents
  <1>7. CASE Delete
    BY <1>7, DeleteStep DEF Delete
  <1>8. CASE Fcntl
    BY <1>8, FcntlStep DEF Fcntl
  <1>9. CASE Truncate \/ getcwd \/ Umask \/ Chmod
    BY <1>9, TruncateStep, GetcwdStep, UmaskStep, ChmodStep
  <1>10. CASE ByName \/ ByNameAt \/ ByFile \/ Ioctl \/ Select \/ Stubs
    BY <1>10, ByNameStep, IoctlStep, SelectStep, StubsStep
  <1> QED
    BY <1>1, <1>2, <1>3, <1>4, <1>5, <1>6, <1>7, <1>8, <1>9, <1>10 DEF Next

\* And so is a step that changes nothing.
LEMMA StutterStep == PosixInv /\ UNCHANGED vars => GoodStep
  <1> SUFFICES ASSUME PosixInv, UNCHANGED vars PROVE GoodStep
    OBVIOUS
  <1>1. PathKept
    BY DEF vars, PathKept, PosixInv, PathOK
  <1> QED
    BY <1>1, QuietStep DEF vars, OtherResult, PosixInv

\* At the start the three standard descriptors are open at position 0.
LEMMA InitTable == Init => OF!OpenInit
  <1> SUFFICES ASSUME Init PROVE OF!OpenInit
    OBVIOUS
  <1>1. PosixInv
    BY InitInv
  <1>2. PICK o : fds = exe_env(o) /\ os = [fd \in {0, 1, 2} |-> -fd]
    BY DEF Init, klee_init_fds
  <1>3. {e \in Fds : get_file(e)} = {0, 1, 2}
    BY <1>2, PosixAssumption DEF get_file, exe_env, Fds, Blank
  <1>4. ASSUME NEW fd \in {0, 1, 2}
        PROVE  FileOf(fd) \in [sym : BOOLEAN, id : Int] /\ fds[fd].off = 0
    <2>1. fd \in Fds
      BY <1>3
    <2>2. fds[fd].dfile \in Int /\ fds[fd].fd = fd /\ fds[fd].off = 0
      BY <1>1, <1>2, <2>1 DEF exe_env, PosixInv, FdsOK, Entries
    <2>3. os[fd] \in Int
      BY <1>2
    <2> QED
      BY <2>2, <2>3 DEF FileOf
  <1>5. Table = [fd \in {0, 1, 2} |-> [file |-> FileOf(fd), pos |-> IF fds[fd].dfile = NULL THEN 0 ELSE fds[fd].off]]
    BY <1>3 DEF Table
  <1> QED
    BY <1>4, <1>5 DEF OF!OpenInit

\* The POSIX runtime implements the table of open files: whatever the program
\* opens, duplicates, closes, deletes, reads, writes and seeks, and whichever
\* calls fail on request, the results it is given are those of OpenFiles, for
\* every MAX_FDS and every program.
THEOREM OpenFilesRefined == Spec => OpenFilesImplemented
  <1>1. PosixInv /\ [Next]_vars => PosixInv' /\ [OF!OpenNext]_OF!openVars
    BY NextStep, StutterStep DEF GoodStep, OF!openVars
  <1> QED
    BY InitInv, InitTable, <1>1, PTL DEF Spec, OpenFilesImplemented, OF!OpenSpec

\* Every open descriptor stands for a file that exists, and every descriptor of
\* the operating system that the runtime uses is open: dup2 shares it between
\* entries and close never closes it, so that no call is passed on with the
\* number of a closed descriptor.
THEOREM EntriesValid == Spec => []FdsOK
  <1>1. PosixInv /\ [Next]_vars => PosixInv'
    BY NextStep, StutterStep DEF GoodStep
  <1>2. PosixInv => FdsOK
    BY DEF PosixInv
  <1> QED
    BY InitInv, <1>1, <1>2, PTL DEF Spec

-----------------------------------------------------------------------------
(* The answers of select.                                                    *)

\* What a call other than select leaves of an earlier answer: nothing, or
\* everything it is about.
AnswerKept == ret'.call # "select" \/ UNCHANGED <<fds, os, ret>>

\* The forms of a result that is not select's.
LEMMA ResultForms ==
  /\ \A f, fd, v, e, d : f # "select" /\ ReturnOn(f, fd, v, e, d) => AnswerKept
  /\ \A f, v, e, d : f # "select" /\ Return(f, v, e, d) => AnswerKept
  /\ \A f, v : f # "select" /\ Done(f, v) => AnswerKept
  /\ \A f, e : f # "select" /\ Error(f, e) => AnswerKept
  /\ \A f, v : f # "select" /\ Pure(f, v) => AnswerKept
  /\ \A f, e : f # "select" /\ Fails(f, e) => AnswerKept
  /\ \A f, e : f # "select" /\ (InjectedError(f, e) \/ CountedError(f, e)) => AnswerKept
  /\ \A f : f # "select" /\ Syscall(f) => AnswerKept
  /\ Halt => AnswerKept
  <1>1. \A f, fd, v, e, d : f # "select" /\ ReturnOn(f, fd, v, e, d) => AnswerKept
    BY DEF AnswerKept, ReturnOn
  <1>2. \A f, v, e, d : f # "select" /\ Return(f, v, e, d) => AnswerKept
    BY <1>1 DEF Return
  <1>3. \A f, v : f # "select" /\ Done(f, v) => AnswerKept
    BY <1>2 DEF Done
  <1>4. \A f, e : f # "select" /\ Error(f, e) => AnswerKept
    BY <1>2 DEF Error
  <1>5. \A f, v : f # "select" /\ Pure(f, v) => AnswerKept
    BY <1>3 DEF Pure
  <1>6. \A f, e : f # "select" /\ Fails(f, e) => AnswerKept
    BY <1>4 DEF Fails
  <1>7. \A f, e : f # "select" /\ (InjectedError(f, e) \/ CountedError(f, e)) => AnswerKept
    BY <1>4 DEF InjectedError, CountedError
  <1>8. \A f : f # "select" /\ Syscall(f) => AnswerKept
    BY <1>2 DEF Syscall
  <1>9. Halt => AnswerKept
    BY DEF AnswerKept, Halt
  <1>10. QED
    BY <1>1, <1>2, <1>3, <1>4, <1>5, <1>6, <1>7, <1>8, <1>9

\* The calls that open and close.
LEMMA TableAnswers == Open \/ OpenAt \/ Close \/ Dup2 \/ Dup => AnswerKept
  <1>1. ASSUME NEW p, NEW acc, NEW flags, NEW mode, fd_open(p, acc, flags, mode) PROVE AnswerKept
    BY <1>1, ResultForms DEF fd_open, SymOpen, OSOpen
  <1>2. Open \/ OpenAt => AnswerKept
    BY <1>1, ResultForms DEF Open, OpenAt, open, openat, fd_openat
  <1>3. Close => AnswerKept
    BY ResultForms DEF Close, close
  <1>4. ASSUME NEW old, NEW new, DoDup2(old, new) PROVE AnswerKept
    BY <1>4, ResultForms DEF DoDup2
  <1>5. Dup2 \/ Dup => AnswerKept
    BY <1>4, ResultForms DEF Dup2, Dup, dup2, dup
  <1>6. QED
    BY <1>2, <1>3, <1>5

\* The calls that transfer bytes, seek, and list directories.
LEMMA TransferAnswers == Read \/ Write \/ Seek \/ GetDents => AnswerKept
  <1>1. Read => AnswerKept
    BY ResultForms DEF Read, read, OSRead, SymRead
  <1>2. Write => AnswerKept
    BY ResultForms DEF Write, write, OSWrite, SymWrite, writeAborts
  <1>3. Seek => AnswerKept
    BY ResultForms DEF Seek, fd_lseek, OSSeek, SymSeek
  <1>4. GetDents => AnswerKept
    BY ResultForms DEF GetDents, fd_getdents, OwnDirents, SystemDirents, getdentsOverflows
  <1>5. QED
    BY <1>1, <1>2, <1>3, <1>4

\* The calls on names and on the status of files.
LEMMA StatusAnswers == ByName \/ ByNameAt \/ ByFile \/ Delete \/ Chmod => AnswerKept
  <1>1. ASSUME NEW f, f # "select", NEW p, NEW v, NEW e, OnName(f, p, v, e) \/ OnFile(f, p, v, e) PROVE AnswerKept
    BY <1>1, ResultForms DEF OnName, OnFile
  <1>2. ByName => AnswerKept
    BY <1>1, ResultForms DEF ByName, access, fd_stat, fd_lstat, utimes, chdir, fd_statfs, chown, lchown, readlink, chroot
  <1>3. ByNameAt => AnswerKept
    BY <1>1, ResultForms DEF ByNameAt, fstatat, futimesat, OnNameAt
  <1>4. ByFile => AnswerKept
    BY <1>1 DEF ByFile, fd_fstat, fsync, fchdir, fchown, fstatfs
  <1>5. Delete => AnswerKept
    BY ResultForms DEF Delete, rmdir, unlink, unlinkat, Deleted
  <1>6. Chmod => AnswerKept
    BY ResultForms DEF Chmod, chmod, fchmod, chmodAborts, df_chmod, SysChmod
  <1>7. QED
    BY <1>2, <1>3, <1>4, <1>5, <1>6

\* The calls that are left, none of the stubs being select.
LEMMA OtherAnswers == Truncate \/ Umask \/ Ioctl \/ Fcntl \/ getcwd \/ Stubs => AnswerKept
  <1>1. Truncate \/ Umask \/ getcwd => AnswerKept
    BY ResultForms DEF Truncate, Umask, getcwd, fd_ftruncate, SetUmask
  <1>2. Ioctl \/ Fcntl => AnswerKept
    BY ResultForms DEF Ioctl, Fcntl, ioctl, fcntl
  <1>3. ASSUME NEW stubs, "select" \notin DOMAIN stubs, Stub(stubs) PROVE AnswerKept
    BY <1>3, ResultForms DEF Stub
  <1>4. Stubs => AnswerKept
    BY <1>3 DEF Stubs, FileStubs, TimeStubs, WaitStubs, ProcessStubs, SystemStubs, MemoryStubs
  <1>5. QED
    BY <1>1, <1>2, <1>4

\* An answer put together from what the operating system reports of the
\* descriptors it was given.
LEMMA SelectedSound ==
  ASSUME NEW in, NEW nfds, NEW osReady, NEW bits, Selected(in, nfds, osReady, bits), UNCHANGED <<fds, os>>,
         \A k \in Sets : osReady[k] \subseteq OSAsked(in, k)
  PROVE  SelectSound'
  <1>1. /\ ret'.data.in = in
        /\ \A k \in Sets : ret'.data.ready[k] = {fd \in in[k] : fds[fd].dfile # NULL}
                                                \cup {fd \in Translated(osReady, k) : fd < nfds}
    BY DEF Selected, Return, ReturnOn, Ready
  <1>2. \A fd : FileOf(fd)' = FileOf(fd) /\ FileOf(fd).sym = (fds[fd].dfile # NULL)
    BY DEF FileOf
  <1>3. ASSUME NEW k \in Sets, NEW fd \in Fds, fd \in in[k], FileOf(fd).sym PROVE fd \in ret'.data.ready[k]
    BY <1>1, <1>2, <1>3
  <1>4. ASSUME NEW k \in Sets, NEW fd \in Fds, fd \in ret'.data.ready[k], fd \notin in[k]
        PROVE  \E e \in in[k] : ~FileOf(e).sym /\ ~FileOf(fd).sym /\ fds[e].fd = fds[fd].fd
    <2>1. fds[fd].dfile = NULL /\ fds[fd].fd \in OSAsked(in, k)
      BY <1>1, <1>4 DEF Translated
    <2>2. PICK e \in in[k] : fds[e].dfile = NULL /\ fds[e].fd = fds[fd].fd
      BY <2>1 DEF OSAsked
    <2>3. QED
      BY <1>2, <2>1, <2>2
  <1>5. QED
    BY <1>1, <1>2, <1>3, <1>4 DEF SelectSound

\* select, whatever the operating system reports, and when it fails.
LEMMA SelectAnswers == Select => SelectSound'
  <1> SUFFICES ASSUME Select PROVE SelectSound'
    OBVIOUS
  <1>1. PICK in, nfds : select(in, nfds)
    BY DEF Select
  <1>2. ASSUME NEW e, Error("select", e) PROVE SelectSound'
    <2>1. ret'.val = -1
      BY <1>2 DEF Error, Return, ReturnOn
    <2>2. QED
      BY <2>1 DEF SelectSound
  <1>3. CASE Fails("select", "EBADF")
    BY <1>2, <1>3 DEF Fails
  <1>4. ASSUME UNCHANGED env, Selected(in, nfds, Nothing, 0) PROVE SelectSound'
    <2>1. \A k \in Sets : Nothing[k] \subseteq OSAsked(in, k)
      BY DEF Nothing
    <2>2. QED
      BY <1>4, <2>1, SelectedSound DEF env
  <1>5. ASSUME NEW r \in SUBSET OSAsked(in, "read"), NEW w \in SUBSET OSAsked(in, "write"),
               NEW x \in SUBSET OSAsked(in, "except"), NEW bits, UNCHANGED env,
               Selected(in, nfds, [k \in Sets |-> CASE k = "read" -> r [] k = "write" -> w [] OTHER -> x], bits)
        PROVE  SelectSound'
    <2> DEFINE ready == [k \in Sets |-> CASE k = "read" -> r [] k = "write" -> w [] OTHER -> x]
    <2>1. \A k \in Sets : ready[k] \subseteq OSAsked(in, k)
      BY DEF Sets
    <2> HIDE DEF ready
    <2>2. QED
      BY <1>5, <2>1, SelectedSound DEF env, ready
  <1>6. QED
    BY <1>1, <1>2, <1>3, <1>4, <1>5 DEF select

\* select reports every simulated file it was asked about, and nothing but the
\* descriptors asked about and those that share a descriptor of the system with
\* one of them.
THEOREM SelectIsSound == Spec => []SelectSound
  <1>1. Init => SelectSound
    <2>1. \A f, fd, v, e, d : ret = [call |-> f, on |-> fd, val |-> v, errno |-> e, data |-> d] => ret.call = f
      OBVIOUS
    <2>2. Init => ret = [call |-> "main", on |-> -1, val |-> 0, errno |-> "", data |-> <<>>]
      BY DEF Init
    <2>3. Init => ret.call = "main"
      BY <2>1, <2>2
    <2>4. QED
      BY <2>3 DEF SelectSound
  <1>2. ASSUME SelectSound, AnswerKept PROVE SelectSound'
    BY <1>2 DEF SelectSound, AnswerKept, FileOf
  <1>3. ASSUME SelectSound, [Next]_vars PROVE SelectSound'
    <2>1. CASE Select
      BY <2>1, SelectAnswers
    <2>2. CASE UNCHANGED vars
      BY <1>2, <1>3, <2>2 DEF vars, AnswerKept
    <2>3. QED
      BY <1>2, <1>3, <2>1, <2>2, TableAnswers, TransferAnswers, StatusAnswers, OtherAnswers DEF Next
  <1>4. QED
    BY <1>1, <1>3, PTL DEF Spec

-----------------------------------------------------------------------------
(***************************************************************************)
(* A directory is listed exactly (ListingExact).  The property is not      *)
(* inductive: nothing in it says that the position of the descriptor and   *)
(* the names listed so far belong together, nor that the offsets reported  *)
(* by entries do.  ListingInv says so: a listing of n names goes on at one *)
(* of the offsets Resume(n), the offset of the n-th entry or, between the  *)
(* simulated files and the operating system's entries, the start of the    *)
(* latter; and no two listings share an offset.                            *)
(***************************************************************************)

\* The offsets at which a listing of which n names are read goes on: behind the
\* last of them, and at the operating system's first entry if all names of
\* simulated files are read.
Resume(n) ==
    (IF n <= path.options.files THEN {n * DirentSize} ELSE {Gap + n - path.options.files})
        \cup (IF n = path.options.files THEN {Gap} ELSE {})

\* The names l are what precedes the offset off.
Precede(l, off) ==
    \E n \in 0 .. Len(FullListing) : l = SubSeq(FullListing, 1, n) /\ off \in Resume(n)

\* What was listed precedes the position and, for every entry, the offset that
\* it reported.
ListingOK(off, d) ==
    d.exact => Precede(d.listed, off) /\ \A s \in d.seen : Precede(s.listed, s.off)

\* The history of every descriptor has its fields.
HistoryOf(d) == d = [listed |-> d.listed, exact |-> d.exact, seen |-> d.seen]
HistoryOK == /\ dirs = [fd \in Fds |-> dirs[fd]]
             /\ \A fd \in Fds : HistoryOf(dirs[fd])

\* The inductive invariant of the listings.
ListingInv == /\ HistoryOK
              /\ \A fd \in Fds : get_file(fd) /\ IsDirectory(fd) => ListingOK(fds[fd].off, dirs[fd])

\* The entries of the simulated files lie below the 4096 at which the operating
\* system's begin (14 files, an entry being 280 bytes).
FewFiles ==
    \A i \in DOMAIN Programs : \A n \in Programs[i].nArgs :
        klee_init_env(Programs[i].argv, n).files * DirentSize <= Gap
Room == path.options.files * DirentSize <= Gap

\* All names: the simulated files', then the operating system's.
LEMMA FullListingIs ==
  ASSUME PosixInv
  PROVE  /\ path.options.files \in Nat
         /\ FullListing \in Seq(Int) /\ Len(FullListing) = path.options.files + Len(OSEntries)
         /\ \A k \in 1 .. path.options.files : FullListing[k] = k
         /\ \A k \in 1 .. Len(OSEntries) : FullListing[path.options.files + k] = OSEntries[k]
  <1> DEFINE F == path.options.files
             own == [k \in 1 .. F |-> k]
  <1>1. F \in Nat
    BY DEF PosixInv, PathOK, Options
  <1>2. OSEntries \in Seq(Int)
    BY PosixAssumption
  <1> HIDE DEF F
  <1>3. /\ own \in Seq(Int) /\ Len(own) = F
        /\ \A k \in 1 .. F : own[k] = k
    BY <1>1
  <1>4. FullListing = own \o OSEntries
    BY DEF FullListing, F
  <1> HIDE DEF own
  <1>5. /\ FullListing \in Seq(Int) /\ Len(FullListing) = F + Len(OSEntries)
        /\ \A k \in 1 .. F : FullListing[k] = k
        /\ \A k \in 1 .. Len(OSEntries) : FullListing[F + k] = OSEntries[k]
    <2>1. FullListing \in Seq(Int) /\ Len(FullListing) = Len(own) + Len(OSEntries)
      BY <1>2, <1>3, <1>4, ConcatProperties
    <2>2. \A k \in 1 .. Len(own) + Len(OSEntries) :
            FullListing[k] = IF k <= Len(own) THEN own[k] ELSE OSEntries[k - Len(own)]
      BY <1>2, <1>3, <1>4, ConcatProperties
    <2>3. Len(OSEntries) \in Nat
      BY <1>2
    <2>4. \A k \in 1 .. F : FullListing[k] = k
      BY <1>1, <1>3, <2>2, <2>3
    <2>5. ASSUME NEW k \in 1 .. Len(OSEntries) PROVE FullListing[F + k] = OSEntries[k]
      <3>1. F + k \in 1 .. Len(own) + Len(OSEntries) /\ ~(F + k <= Len(own)) /\ F + k - Len(own) = k
        BY <1>1, <1>3, <2>3
      <3> DEFINE j == F + k
      <3>2. j \in 1 .. Len(own) + Len(OSEntries) /\ ~(j <= Len(own)) /\ j - Len(own) = k
        BY <1>1, <1>3, <2>3
      <3> HIDE DEF j
      <3>3. FullListing[j] = OSEntries[j - Len(own)]
        BY <2>2, <3>2
      <3>4. FullListing[j] = OSEntries[k]
        BY <3>2, <3>3
      <3>5. QED
        BY <3>4 DEF j
    <2>6. QED
      BY <1>3, <2>1, <2>4, <2>5
  <1>6. QED
    BY <1>1, <1>5 DEF F

\* A positive factor can be cancelled.
LEMMA CancelFactor ==
  ASSUME NEW x \in Nat, NEW y \in Nat, NEW d \in Nat \ {0}
  PROVE  /\ x < y => x * d < y * d
         /\ x * d = y * d => x = y
  <1>1. ASSUME NEW a \in Nat, NEW b \in Nat, a < b PROVE a * d < b * d
    <2>1. PICK z \in Nat : b = a + 1 + z
      <3>1. b - a - 1 \in Nat /\ b = a + 1 + (b - a - 1)
        BY <1>1
      <3>2. QED
        BY <3>1
    <2>2. b * d = a * d + d + z * d /\ z * d >= 0 /\ a * d \in Nat
      BY <2>1
    <2>3. QED
      BY <2>2
  <1>2. x < y \/ x = y \/ y < x
    OBVIOUS
  <1>3. x * d \in Nat /\ y * d \in Nat
    OBVIOUS
  <1>4. QED
    BY <1>1, <1>2, <1>3

\* Where the operating system's entries are found.
LEMMA SystemResume ==
  ASSUME PosixInv, NEW x \in Nat
  PROVE  x + Gap \in Resume(path.options.files + x)
  <1> DEFINE F == path.options.files
  <1>1. F \in Nat /\ Gap \in Nat
    BY FullListingIs, PosixAssumption
  <1>2. Resume(F + x) = (IF F + x <= F THEN {(F + x) * DirentSize} ELSE {Gap + (F + x) - F})
                            \cup (IF F + x = F THEN {Gap} ELSE {})
    BY DEF Resume
  <1> HIDE DEF F
  <1>3. CASE x = 0
    <2>1. F + x = F /\ x + Gap = Gap
      BY <1>1, <1>3
    <2>2. QED
      BY <1>2, <2>1 DEF F
  <1>4. CASE x > 0
    <2>1. ~(F + x <= F) /\ x + Gap = Gap + (F + x) - F
      BY <1>1, <1>4
    <2>2. QED
      BY <1>2, <2>1 DEF F
  <1>5. QED
    BY <1>3, <1>4

\* The names read determine the offset and the offset the names read.
LEMMA ResumeIsUnique ==
  ASSUME PosixInv, Room, NEW n \in Nat, NEW m \in Nat, NEW off, off \in Resume(n), off \in Resume(m)
  PROVE  n = m
  <1> DEFINE F == path.options.files
  <1>1. F \in Nat /\ DirentSize \in Nat \ {0} /\ Gap \in Nat
    BY FullListingIs, PosixAssumption
  <1> HIDE DEF F
  <1>2. F * DirentSize <= Gap
    BY DEF Room, F
  <1>3. \A x, y \in Nat : x < y => x * DirentSize < y * DirentSize
    BY <1>1, CancelFactor
  <1>4. \A x \in Nat : x < F => x * DirentSize < Gap
    BY <1>1, <1>2, <1>3
  <1>5. \A x \in Nat : x * DirentSize \in Nat
    BY <1>1
  <1>6. ASSUME NEW x \in Nat, off \in Resume(x)
        PROVE  \/ x < F /\ off = x * DirentSize
               \/ x = F /\ off \in {F * DirentSize, Gap}
               \/ x > F /\ off = Gap + x - F
    <2>1. off \in (IF x <= F THEN {x * DirentSize} ELSE {Gap + x - F}) \cup (IF x = F THEN {Gap} ELSE {})
      BY <1>6 DEF Resume, F
    <2>2. CASE x < F
      BY <1>1, <2>1, <2>2
    <2>3. CASE x = F
      BY <1>1, <2>1, <2>3
    <2>4. CASE x > F
      BY <1>1, <2>1, <2>4
    <2>5. QED
      BY <1>1, <2>2, <2>3, <2>4
  <1>7. \/ n < F /\ off = n * DirentSize
        \/ n = F /\ off \in {F * DirentSize, Gap}
        \/ n > F /\ off = Gap + n - F
    BY <1>6
  <1>8. \/ m < F /\ off = m * DirentSize
        \/ m = F /\ off \in {F * DirentSize, Gap}
        \/ m > F /\ off = Gap + m - F
    BY <1>6
  <1>9. CASE n < F
    BY <1>1, <1>2, <1>3, <1>4, <1>5, <1>7, <1>8, <1>9
  <1>10. CASE n = F
    BY <1>1, <1>2, <1>3, <1>4, <1>5, <1>7, <1>8, <1>10
  <1>11. CASE n > F
    BY <1>1, <1>2, <1>3, <1>4, <1>5, <1>7, <1>8, <1>11
  <1>12. QED
    BY <1>1, <1>9, <1>10, <1>11

\* The invariant is what the listings promise.
LEMMA ListingInvSuffices == PosixInv /\ Room /\ ListingInv => ListingExact
  <1> SUFFICES ASSUME PosixInv, Room, ListingInv, NEW fd \in Fds, get_file(fd), IsDirectory(fd), dirs[fd].exact
               PROVE  /\ dirs[fd].listed = SubSeq(FullListing, 1, Len(dirs[fd].listed))
                      /\ fds[fd].off >= Gap + Len(OSEntries) => dirs[fd].listed = FullListing
                      /\ \A s, t \in dirs[fd].seen : s.off = t.off => s.listed = t.listed
    BY DEF ListingExact
  <1> DEFINE F == path.options.files
             N == Len(OSEntries)
             L == Len(FullListing)
  <1>1. /\ F \in Nat /\ N \in Nat /\ L = F + N /\ FullListing \in Seq(Int)
        /\ DirentSize \in Nat \ {0} /\ Gap \in Nat /\ F * DirentSize <= Gap
    BY FullListingIs, PosixAssumption DEF Room
  <1>2. Precede(dirs[fd].listed, fds[fd].off) /\ \A s \in dirs[fd].seen : Precede(s.listed, s.off)
    BY DEF ListingInv, ListingOK
  <1>3. PICK n \in 0 .. L : dirs[fd].listed = SubSeq(FullListing, 1, n) /\ fds[fd].off \in Resume(n)
    BY <1>2 DEF Precede
  <1>4. Len(SubSeq(FullListing, 1, n)) = n
    BY <1>1
  <1>5. ASSUME fds[fd].off >= Gap + N PROVE dirs[fd].listed = FullListing
    <2>1. Gap + N \in Resume(F + N)
      BY <1>1 DEF Resume
    <2>2. fds[fd].off = Gap + N
      <3> HIDE DEF F, N
      <3>1. fds[fd].off \in (IF n <= F THEN {n * DirentSize} ELSE {Gap + n - F}) \cup (IF n = F THEN {Gap} ELSE {})
        BY <1>3 DEF Resume, F
      <3>2. CASE n <= F
        <4>1. PICK z \in Nat : F = n + z
          <5>1. F - n \in Nat /\ F = n + (F - n)
            BY <1>1, <3>2
          <5>2. QED
            BY <5>1
        <4>2. F * DirentSize = n * DirentSize + z * DirentSize /\ z * DirentSize \in Nat /\ n * DirentSize \in Nat
          BY <1>1, <4>1
        <4>3. n * DirentSize <= Gap
          BY <1>1, <4>2
        <4>4. fds[fd].off \in {n * DirentSize, Gap}
          BY <3>1, <3>2
        <4>5. fds[fd].off <= Gap /\ fds[fd].off \in Nat
          <5>1. CASE fds[fd].off = n * DirentSize
            BY <4>2, <4>3, <5>1
          <5>2. CASE fds[fd].off = Gap
            BY <1>1, <5>2
          <5>3. QED
            BY <4>4, <5>1, <5>2
        <4>6. Gap \in Nat /\ N \in Nat /\ fds[fd].off >= Gap + N
          BY <1>1, <1>5
        <4>7. QED
          BY <4>5, <4>6
      <3>3. CASE n > F
        <4>1. fds[fd].off = Gap + n - F
          BY <1>1, <3>1, <3>3
        <4>2. QED
          BY <1>1, <1>5, <4>1
      <3>4. QED
        BY <1>1, <3>2, <3>3
    <2>3. n = F + N
      BY <1>1, <1>3, <2>1, <2>2, ResumeIsUnique
    <2>4. QED
      BY <1>1, <1>3, <2>3, SubSeqFull
  <1>6. ASSUME NEW s \in dirs[fd].seen, NEW t \in dirs[fd].seen, s.off = t.off PROVE s.listed = t.listed
    <2>1. PICK x \in 0 .. L : s.listed = SubSeq(FullListing, 1, x) /\ s.off \in Resume(x)
      BY <1>2 DEF Precede
    <2>2. PICK y \in 0 .. L : t.listed = SubSeq(FullListing, 1, y) /\ t.off \in Resume(y)
      BY <1>2 DEF Precede
    <2>3. x = y
      BY <1>1, <1>6, <2>1, <2>2, ResumeIsUnique
    <2>4. QED
      BY <2>1, <2>2, <2>3
  <1>7. QED
    BY <1>3, <1>4, <1>5, <1>6

\* Names that continue a listing make a longer one.
LEMMA ListingExtends ==
  ASSUME NEW S \in Seq(Int), NEW n \in 0 .. Len(S), NEW m \in Nat, n + m <= Len(S), NEW names,
         names = [j \in 1 .. m |-> S[n + j]]
  PROVE  /\ SubSeq(S, 1, n) \o names = SubSeq(S, 1, n + m)
         /\ \A k \in 1 .. m : SubSeq(S, 1, n) \o SubSeq(names, 1, k) = SubSeq(S, 1, n + k)
  <1>1. ASSUME NEW k \in 0 .. m PROVE SubSeq(S, n + 1, n + k) = [j \in 1 .. k |-> S[n + j]]
    BY <1>1
  <1>2. ASSUME NEW k \in 0 .. m PROVE SubSeq(S, 1, n) \o SubSeq(S, n + 1, n + k) = SubSeq(S, 1, n + k)
    BY <1>2, ConcatAdjacentSubSeq
  <1>3. ASSUME NEW k \in 0 .. m PROVE SubSeq(names, 1, k) = [j \in 1 .. k |-> S[n + j]]
    BY <1>3
  <1>4. ASSUME NEW k \in 0 .. m PROVE SubSeq(S, 1, n) \o SubSeq(names, 1, k) = SubSeq(S, 1, n + k)
    <2>1. SubSeq(names, 1, k) = SubSeq(S, n + 1, n + k)
      BY <1>1, <1>3, <1>4
    <2>2. QED
      BY <1>2, <1>4, <2>1
  <1>5. SubSeq(names, 1, m) = names
    <2>1. m \in 0 .. m
      OBVIOUS
    <2>2. QED
      BY <1>3, <2>1
  <1>6. SubSeq(S, 1, n) \o names = SubSeq(S, 1, n + m)
    <2>1. m \in 0 .. m
      OBVIOUS
    <2>2. QED
      BY <1>4, <1>5, <2>1
  <1>7. \A k \in 1 .. m : k \in 0 .. m
    OBVIOUS
  <1>8. QED
    BY <1>4, <1>6, <1>7

\* More entries, that continue the listing at the offsets they report.
LEMMA ListedExtends ==
  ASSUME PosixInv, NEW d, NEW n \in 0 .. Len(FullListing), d.listed = SubSeq(FullListing, 1, n),
         \A s \in d.seen : Precede(s.listed, s.off),
         NEW m \in Nat, n + m <= Len(FullListing), NEW entries, DOMAIN entries = 1 .. m,
         \A k \in 1 .. m : entries[k].name = FullListing[n + k] /\ entries[k].d_off \in Resume(n + k),
         NEW off, off \in Resume(n + m), NEW exact
  PROVE  ListingOK(off, Listed(d, entries, exact))
  <1> DEFINE names == [k \in DOMAIN entries |-> entries[k].name]
             new == {[off |-> entries[k].d_off, listed |-> d.listed \o SubSeq(names, 1, k)] : k \in DOMAIN entries}
             h == Listed(d, entries, exact)
  <1>0. ASSUME NEW k \in 1 .. m PROVE n + k \in 0 .. Len(FullListing)
    <2>1. Len(FullListing) \in Nat
      BY FullListingIs
    <2>2. QED
      BY <1>0, <2>1
  <1>1. FullListing \in Seq(Int) /\ Len(FullListing) \in Nat
    BY FullListingIs
  <1>2. names = [j \in 1 .. m |-> FullListing[n + j]]
    OBVIOUS
  <1>3. h = [listed |-> d.listed \o names, exact |-> d.exact /\ exact, seen |-> d.seen \cup new]
    BY DEF Listed
  <1>4. h.listed = d.listed \o names /\ h.seen = d.seen \cup new
    BY <1>3
  <1> HIDE DEF h, names
  <1>5. /\ SubSeq(FullListing, 1, n) \o names = SubSeq(FullListing, 1, n + m)
        /\ \A k \in 1 .. m : SubSeq(FullListing, 1, n) \o SubSeq(names, 1, k) = SubSeq(FullListing, 1, n + k)
    BY <1>1, <1>2, ListingExtends
  <1>6. Precede(h.listed, off)
    <2>1. n + m \in 0 .. Len(FullListing) /\ h.listed = SubSeq(FullListing, 1, n + m)
      BY <1>1, <1>4, <1>5
    <2>2. QED
      BY <2>1 DEF Precede
  <1>7. ASSUME NEW s \in new PROVE Precede(s.listed, s.off)
    <2>1. PICK k \in 1 .. m : s = [off |-> entries[k].d_off, listed |-> d.listed \o SubSeq(names, 1, k)]
      OBVIOUS
    <2>2. s.off \in Resume(n + k) /\ s.listed = SubSeq(FullListing, 1, n + k)
      BY <1>5, <2>1
    <2>3. QED
      BY <1>0, <2>2 DEF Precede
  <1>8. ListingOK(off, h)
    BY <1>4, <1>6, <1>7 DEF ListingOK
  <1>9. QED
    BY <1>8 DEF h

\* The simulated files' entries, after which the operating system's follow.
LEMMA OwnListing ==
  ASSUME PosixInv, NEW fd \in Fds, NEW count \in Nat, NEW pad, pad = (IF count >= Gap THEN Gap ELSE count),
         NEW i \in Nat, i * DirentSize = fds[fd].off, i <= path.options.files, fds[fd].off < Gap,
         ListingOK(fds[fd].off, dirs[fd])
  PROVE  ListingOK(pad, Listed(dirs[fd], SymEntries(i), count >= Gap))
  <1> DEFINE F == path.options.files
             d == dirs[fd]
             L == Listed(d, SymEntries(i), count >= Gap)
  <1>1. F \in Nat /\ Len(FullListing) \in Nat /\ F <= Len(FullListing)
        /\ DirentSize \in Nat \ {0} /\ Gap \in Nat
    BY FullListingIs, PosixAssumption
  <1>2. L.exact = (d.exact /\ count >= Gap)
    BY DEF Listed
  <1>3. CASE ~(d.exact /\ count >= Gap)
    BY <1>2, <1>3 DEF ListingOK
  <1>4. CASE d.exact /\ count >= Gap
    <2>1. \A s \in d.seen : Precede(s.listed, s.off)
      BY <1>4 DEF ListingOK
    <2>2. PICK n \in 0 .. Len(FullListing) : d.listed = SubSeq(FullListing, 1, n) /\ fds[fd].off \in Resume(n)
      BY <1>4 DEF ListingOK, Precede
    <2>3. n = i
      <3>1. n <= F /\ fds[fd].off = n * DirentSize
        BY <1>1, <2>2 DEF Resume
      <3>2. n * DirentSize = i * DirentSize
        BY <3>1
      <3>3. QED
        BY <1>1, <3>2, CancelFactor
    <2>4. F - i \in Nat /\ i + (F - i) = F /\ DOMAIN SymEntries(i) = 1 .. (F - i)
      BY <1>1 DEF SymEntries
    <2>5. ASSUME NEW k \in 1 .. (F - i)
          PROVE  SymEntries(i)[k].name = FullListing[i + k] /\ SymEntries(i)[k].d_off \in Resume(i + k)
      <3>1. i + k \in 1 .. F
        BY <1>1, <2>4
      <3>2. SymEntries(i)[k].name = i + k /\ SymEntries(i)[k].d_off = (i + k) * DirentSize
        BY DEF SymEntries
      <3>3. FullListing[i + k] = i + k
        BY <3>1, FullListingIs
      <3>4. (i + k) * DirentSize \in Resume(i + k)
        BY <3>1 DEF Resume
      <3>5. QED
        BY <3>2, <3>3, <3>4
    <2>6. pad = Gap /\ Gap \in Resume(F)
      BY <1>4 DEF Resume
    <2>7. QED
      BY <1>1, <2>1, <2>2, <2>3, <2>4, <2>5, <2>6, ListedExtends
  <1>5. QED
    BY <1>3, <1>4

\* The operating system's entries.
LEMMA SystemListing ==
  ASSUME PosixInv, Room, NEW fd \in Fds, NEW pos \in Nat, fds[fd].off = pos + Gap,
         NEW m \in Nat, m > 0 => pos + m <= Len(OSEntries), ListingOK(fds[fd].off, dirs[fd])
  PROVE  ListingOK(pos + m + Gap, Listed(dirs[fd], OSDirents(pos, m), TRUE))
  <1> DEFINE F == path.options.files
             d == dirs[fd]
             N == Len(OSEntries)
  <1>1. F \in Nat /\ N \in Nat /\ Len(FullListing) = F + N
        /\ DirentSize \in Nat \ {0} /\ Gap \in Nat
    BY FullListingIs, PosixAssumption
  <1>2. Listed(d, OSDirents(pos, m), TRUE).exact = (d.exact /\ TRUE)
    BY DEF Listed
  <1>3. CASE ~d.exact
    BY <1>2, <1>3 DEF ListingOK
  <1>4. CASE d.exact
    <2>1. \A s \in d.seen : Precede(s.listed, s.off)
      BY <1>4 DEF ListingOK
    <2>2. PICK n \in 0 .. Len(FullListing) : d.listed = SubSeq(FullListing, 1, n) /\ fds[fd].off \in Resume(n)
      BY <1>4 DEF ListingOK, Precede
    <2>3. n = F + pos
      <3>1. pos + Gap \in Resume(F + pos)
        BY SystemResume
      <3>2. F + pos \in Nat /\ n \in Nat
        BY <1>1
      <3>3. fds[fd].off \in Resume(n) /\ fds[fd].off \in Resume(F + pos)
        BY <2>2, <3>1
      <3>4. QED
        BY <3>2, <3>3, ResumeIsUnique
    <2>4. n + m <= Len(FullListing) /\ DOMAIN OSDirents(pos, m) = 1 .. m
      BY <1>1, <2>2, <2>3 DEF OSDirents
    <2>5. ASSUME NEW k \in 1 .. m
          PROVE  OSDirents(pos, m)[k].name = FullListing[n + k] /\ OSDirents(pos, m)[k].d_off \in Resume(n + k)
      <3>1. pos + k \in 1 .. N
        BY <1>1, <2>3
      <3>2. OSDirents(pos, m)[k].name = OSEntries[pos + k] /\ OSDirents(pos, m)[k].d_off = pos + k + Gap
        BY DEF OSDirents, PatchedOffset
      <3>3. FullListing[F + (pos + k)] = OSEntries[pos + k]
        BY <3>1, FullListingIs
      <3>4. F + (pos + k) = n + k
        BY <1>1, <2>3
      <3>5. pos + k + Gap \in Resume(n + k)
        BY <3>1, <3>4, SystemResume
      <3>6. QED
        BY <3>2, <3>3, <3>4, <3>5
    <2>6. pos + m + Gap \in Resume(n + m)
      <3>1. pos + m \in Nat /\ F + (pos + m) = n + m
        BY <1>1, <2>3
      <3>2. QED
        BY <3>1, SystemResume
    <2>7. QED
      BY <2>1, <2>2, <2>4, <2>5, <2>6, ListedExtends
  <1>5. QED
    BY <1>3, <1>4

-----------------------------------------------------------------------------
(* The listings under every call.                                            *)

\* A new listing is one of no names.
LEMMA NewListing == PosixInv => ListingOK(0, Listing0) /\ HistoryOf(Listing0)
  <1> SUFFICES ASSUME PosixInv PROVE ListingOK(0, Listing0) /\ HistoryOf(Listing0)
    OBVIOUS
  <1>1. /\ Listing0.listed = <<>> /\ Listing0.seen = {[off |-> 0, listed |-> <<>>]}
        /\ HistoryOf(Listing0)
    BY DEF Listing0, HistoryOf
  <1>2. 0 \in Resume(0) /\ 0 \in 0 .. Len(FullListing) /\ FullListing \in Seq(Int)
    BY FullListingIs, PosixAssumption DEF Resume
  <1>3. SubSeq(FullListing, 1, 0) = <<>>
    BY <1>2, SubSeqEmpty
  <1>4. Precede(<<>>, 0)
    BY <1>2, <1>3 DEF Precede
  <1>5. QED
    BY <1>1, <1>4 DEF ListingOK

\* The listings depend on the command line only.
LEMMA ListingPrimed ==
  ASSUME PathKept, NEW fd \in Fds, ListingOK(fds'[fd].off, dirs'[fd])
  PROVE  ListingOK(fds[fd].off, dirs[fd])'
  <1>1. FullListing' = FullListing
    BY DEF FullListing, PathKept
  <1> DEFINE P(l, off) == \E n \in 0 .. Len(FullListing') : l = SubSeq(FullListing', 1, n) /\ off \in Resume(n)'
  <1>2. \A n : Resume(n)' = Resume(n)
    BY DEF Resume, PathKept
  <1>3. ASSUME NEW l, NEW off, Precede(l, off) PROVE P(l, off)
    BY <1>1, <1>2, <1>3 DEF Precede
  <1>4. ASSUME dirs'[fd].exact
        PROVE  P(dirs'[fd].listed, fds'[fd].off) /\ \A s \in dirs'[fd].seen : P(s.listed, s.off)
    <2>1. Precede(dirs'[fd].listed, fds'[fd].off) /\ \A s \in dirs'[fd].seen : Precede(s.listed, s.off)
      BY <1>4 DEF ListingOK
    <2> HIDE DEF P
    <2>2. QED
      BY <1>3, <2>1
  <1>5. QED
    BY <1>4 DEF ListingOK, Precede

\* A call that changes one entry of fds and its history.
LEMMA EntryListing ==
  ASSUME PosixInv, ListingInv, PathKept, SystemGrows, NEW fd \in Fds, NEW e, NEW h, HistoryOf(h),
         fds' = [fds EXCEPT ![fd] = e],
         dirs' = [dirs EXCEPT ![fd] = h] \/ (dirs' = dirs /\ h = dirs[fd]),
         "eOpen" \in e.flags /\ e.dfile = NULL /\ os'[e.fd] = Directory => ListingOK(e.off, h)
  PROVE  ListingInv'
  <1>1. fds \in [Fds -> Entries] /\ HistoryOK /\ \A x \in Fds : EntryOK(fds[x])
    BY DEF PosixInv, FdsOK, ListingInv
  <1>2. HistoryOK' /\ dirs'[fd] = h /\ \A x \in Fds : x # fd => dirs'[x] = dirs[x]
    BY <1>1 DEF HistoryOK
  <1>3. fds'[fd] = e /\ \A x \in Fds : x # fd => fds'[x] = fds[x]
    BY <1>1
  <1>4. ASSUME NEW x \in Fds, get_file(x)', IsDirectory(x)' PROVE ListingOK(fds'[x].off, dirs'[x])
    <2>1. CASE x = fd
      BY <1>2, <1>3, <1>4, <2>1 DEF get_file, IsDirectory
    <2>2. CASE x # fd
      <3>1. get_file(x) /\ fds[x].dfile = NULL /\ fds[x].fd \in DOMAIN os
        BY <1>1, <1>3, <1>4, <2>2 DEF get_file, IsDirectory, EntryOK
      <3>2. IsDirectory(x)
        BY <1>3, <1>4, <2>2, <3>1 DEF IsDirectory, SystemGrows
      <3>3. ListingOK(fds[x].off, dirs[x])
        BY <3>1, <3>2 DEF ListingInv
      <3>4. QED
        BY <1>2, <1>3, <2>2, <3>3
    <2>3. QED
      BY <2>1, <2>2
  <1>5. QED
    BY <1>2, <1>4, ListingPrimed DEF ListingInv

\* A call that changes no entry and no history.
LEMMA QuietListing ==
  ASSUME PosixInv, ListingInv, PathKept, UNCHANGED <<fds, os, dirs>> PROVE ListingInv'
  <1>1. ASSUME NEW x \in Fds, get_file(x)', IsDirectory(x)' PROVE ListingOK(fds'[x].off, dirs'[x])
    BY <1>1 DEF get_file, IsDirectory, ListingInv
  <1>2. HistoryOK'
    BY DEF ListingInv, HistoryOK, HistoryOf
  <1>3. QED
    BY <1>1, <1>2, ListingPrimed DEF ListingInv

\* The results of calls that change neither.
DirsQuiet == UNCHANGED <<fds, os, dirs>>

\* Failures, answers and calls passed on.
LEMMA QuietForms ==
  /\ \A f, v : Pure(f, v) => DirsQuiet
  /\ \A f, e : Fails(f, e) \/ InjectedError(f, e) \/ CountedError(f, e) => DirsQuiet
  /\ \A f : Syscall(f) => DirsQuiet
  /\ UNCHANGED env => DirsQuiet
  /\ Halt => DirsQuiet
  BY DEF DirsQuiet, Pure, Fails, InjectedError, CountedError, Syscall, Halt, env

\* The calls on names and on the status of files.
LEMMA StatusQuiet == ByName \/ ByNameAt \/ ByFile \/ Delete \/ Chmod => DirsQuiet
  <1>1. ASSUME NEW f, NEW p, NEW v, NEW e, OnName(f, p, v, e) \/ OnFile(f, p, v, e) PROVE DirsQuiet
    BY <1>1, QuietForms DEF OnName, OnFile
  <1>2. ByName => DirsQuiet
    BY <1>1, QuietForms DEF ByName, access, fd_stat, fd_lstat, utimes, chdir, fd_statfs, chown, lchown, readlink, chroot
  <1>3. ByNameAt => DirsQuiet
    BY <1>1, QuietForms DEF ByNameAt, fstatat, futimesat, OnNameAt
  <1>4. ByFile => DirsQuiet
    BY <1>1 DEF ByFile, fd_fstat, fsync, fchdir, fchown, fstatfs
  <1>5. Delete => DirsQuiet
    BY QuietForms DEF Delete, rmdir, unlink, unlinkat, Deleted, DirsQuiet
  <1>6. Chmod => DirsQuiet
    BY QuietForms DEF Chmod, chmod, fchmod, chmodAborts, df_chmod, SysChmod, DirsQuiet
  <1>7. QED
    BY <1>2, <1>3, <1>4, <1>5, <1>6

\* Other calls that change neither.
LEMMA OtherQuiet == Truncate \/ Umask \/ Ioctl \/ getcwd \/ Stubs \/ Select => DirsQuiet
  <1>1. Truncate \/ Umask \/ getcwd => DirsQuiet
    BY QuietForms DEF Truncate, Umask, getcwd, fd_ftruncate, SetUmask, DirsQuiet
  <1>2. Ioctl => DirsQuiet
    BY QuietForms DEF Ioctl, ioctl
  <1>3. ASSUME NEW stubs, Stub(stubs) PROVE DirsQuiet
    BY <1>3, QuietForms DEF Stub
  <1>4. Stubs => DirsQuiet
    BY <1>3 DEF Stubs
  <1>5. Select => DirsQuiet
    BY QuietForms DEF Select, select
  <1>6. QED
    BY <1>1, <1>2, <1>4, <1>5

\* Every step is a call, or the end of the path.
LEMMA StepKeepsPath == PosixInv /\ Next => PathKept
  <1>1. Next => Halt \/ \E f : Call(f)
    <2>1. Open \/ OpenAt \/ Close \/ Dup2 \/ Dup \/ Read \/ Seek \/ Truncate \/ Umask \/ Delete => \E f : Call(f)
      BY DEF Open, OpenAt, Close, Dup2, Dup, Read, Seek, Truncate, Umask, Delete, open, openat, close, dup2, dup,
             read, fd_lseek, fd_ftruncate, SetUmask, rmdir, unlink, unlinkat
    <2>2. Write \/ GetDents \/ Chmod => Halt \/ \E f : Call(f)
      BY DEF Write, GetDents, Chmod, write, writeAborts, fd_getdents, getdentsOverflows, chmod, fchmod, chmodAborts
    <2>3. ByName \/ ByNameAt \/ ByFile => \E f : Call(f)
      BY DEF ByName, ByNameAt, ByFile, access, fd_stat, fd_lstat, utimes, chdir, fd_statfs, chown, lchown, readlink,
             chroot, fstatat, futimesat, OnNameAt, OnName, OnFile, fd_fstat, fsync, fchdir, fchown, fstatfs
    <2>4. Ioctl \/ Fcntl \/ Select \/ Stubs \/ getcwd => \E f : Call(f)
      BY DEF Ioctl, Fcntl, Select, Stubs, getcwd, ioctl, fcntl, select, Stub
    <2>5. QED
      BY <2>1, <2>2, <2>3, <2>4 DEF Next
  <1>2. QED
    BY <1>1, CallKeepsPath

\* open, of a name of the system or of a simulated file.
LEMMA OpenListing ==
  ASSUME PosixInv, ListingInv, PathKept, NEW p, NEW acc, NEW flags, NEW mode, fd_open(p, acc, flags, mode)
  PROVE  ListingInv'
  <1>1. CASE Fails("open", "EMFILE")
    BY <1>1, QuietForms, QuietListing DEF DirsQuiet
  <1>2. ASSUME NEW fd \in Fds, OSOpen(fd, p, acc) PROVE ListingInv'
    <2>1. HistoryOf(dirs[fd])
      BY DEF ListingInv, HistoryOK
    <2>2. CASE fds' = [fds EXCEPT ![fd] = Blank] /\ UNCHANGED <<os, dirs>>
      <3>1. "eOpen" \notin Blank.flags
        BY DEF Blank
      <3>2. QED
        BY <2>1, <2>2, <3>1, SystemStays, EntryListing
    <2>3. CASE \E n \in 0 .. Cardinality(DOMAIN os) :
                 /\ n \notin DOMAIN os
                 /\ os' = [m \in DOMAIN os \cup {n} |-> IF m = n THEN p ELSE os[m]]
                 /\ fds' = [fds EXCEPT ![fd] = [Blank EXCEPT !.fd = n, !.flags = AccessFlags(acc)]]
                 /\ dirs' = [dirs EXCEPT ![fd] = Listing0]
      <3>1. PICK n : /\ n \notin DOMAIN os
                     /\ os' = [m \in DOMAIN os \cup {n} |-> IF m = n THEN p ELSE os[m]]
                     /\ fds' = [fds EXCEPT ![fd] = [Blank EXCEPT !.fd = n, !.flags = AccessFlags(acc)]]
                     /\ dirs' = [dirs EXCEPT ![fd] = Listing0]
        BY <2>3
      <3> DEFINE e == [[Blank EXCEPT !.fd = n] EXCEPT !.flags = AccessFlags(acc)]
      <3>2. SystemGrows
        BY <3>1 DEF SystemGrows
      <3>3. fds' = [fds EXCEPT ![fd] = e] /\ e.off = 0
        BY <3>1, NewSystemEntry
      <3>4. QED
        BY <3>1, <3>2, <3>3, NewListing, EntryListing
    <2>4. QED
      BY <1>2, <2>2, <2>3 DEF OSOpen
  <1>3. ASSUME NEW fd \in Fds, get_sym_file(p) # NULL, SymOpen(fd, get_sym_file(p), acc, flags, mode), UNCHANGED os
        PROVE  ListingInv'
    <2> DEFINE df == get_sym_file(p)
               f == [Blank EXCEPT !.dfile = df]
    <2>1. HistoryOf(dirs[fd]) /\ HistoryOf(Listing0)
      BY NewListing DEF ListingInv, HistoryOK
    <2>2. f.dfile # NULL /\ [f EXCEPT !.flags = AccessFlags(acc)].dfile # NULL
      BY <1>3 DEF Blank
    <2>3. CASE fds' = [fds EXCEPT ![fd] = f] /\ UNCHANGED dirs
      BY <1>3, <2>1, <2>2, <2>3, SystemStays, EntryListing
    <2>4. CASE fds' = [fds EXCEPT ![fd] = [f EXCEPT !.flags = AccessFlags(acc)]] /\ dirs' = [dirs EXCEPT ![fd] = Listing0]
      BY <1>3, <2>1, <2>2, <2>4, SystemStays, EntryListing
    <2>5. QED
      BY <1>3, <2>3, <2>4 DEF SymOpen
  <1>4. QED
    BY <1>1, <1>2, <1>3 DEF fd_open

\* close clears the entry; dup2 copies an entry with its history.
LEMMA TableListing ==
  ASSUME PosixInv, ListingInv, PathKept, Open \/ OpenAt \/ Close \/ Dup2 \/ Dup PROVE ListingInv'
  <1>1. CASE Open \/ OpenAt
    BY <1>1, OpenListing, QuietForms, QuietListing DEF Open, OpenAt, open, openat, fd_openat, DirsQuiet
  <1>2. CASE Close
    <2>1. PICK fd : close(fd)
      BY <1>2 DEF Close
    <2>2. CASE DirsQuiet
      BY <2>2, QuietListing DEF DirsQuiet
    <2>3. CASE get_file(fd) /\ Closed(fd) /\ UNCHANGED dirs
      <3>1. fd \in Fds /\ HistoryOf(dirs[fd]) /\ "eOpen" \notin Blank.flags
        BY <2>3 DEF ListingInv, HistoryOK, get_file, Blank
      <3>2. QED
        BY <2>3, <3>1, SystemStays, EntryListing DEF Closed
    <2>4. QED
      BY <2>1, <2>2, <2>3, QuietForms DEF close
  <1>3. ASSUME NEW old, get_file(old), NEW new \in Fds, DoDup2(old, new) PROVE ListingInv'
    <2>1. old \in Fds /\ HistoryOf(dirs[old]) /\ fds[old] \in Entries
      BY <1>3 DEF ListingInv, HistoryOK, get_file, PosixInv, FdsOK
    <2>2. /\ fds' = [fds EXCEPT ![new] = Dup2Entry(old, new)]
          /\ dirs' = [dirs EXCEPT ![new] = dirs[old]]
          /\ os' = os
      BY <1>3 DEF DoDup2
    <2>3. \/ Dup2Entry(old, new) = Blank
          \/ Dup2Entry(old, new) = [fds[old] EXCEPT !.flags = @ \ {"eCloseOnExec"}]
      BY DEF Dup2Entry
    <2>4. CASE Dup2Entry(old, new) = Blank
      <3>1. "eOpen" \notin Blank.flags
        BY DEF Blank
      <3>2. QED
        BY <2>1, <2>2, <2>4, <3>1, SystemStays, EntryListing
    <2>5. CASE Dup2Entry(old, new) = [fds[old] EXCEPT !.flags = @ \ {"eCloseOnExec"}]
      <3> DEFINE e == [fds[old] EXCEPT !.flags = @ \ {"eCloseOnExec"}]
      <3>1. e.dfile = fds[old].dfile /\ e.fd = fds[old].fd /\ e.off = fds[old].off
        BY <2>1 DEF Entries
      <3> HIDE DEF e
      <3>2. e.dfile = NULL /\ os'[e.fd] = Directory => ListingOK(e.off, dirs[old])
        BY <1>3, <2>1, <2>2, <3>1 DEF ListingInv, IsDirectory
      <3>3. fds' = [fds EXCEPT ![new] = e]
        BY <2>2, <2>5 DEF e
      <3>4. QED
        BY <2>1, <2>2, <3>2, <3>3, SystemStays, EntryListing
    <2>6. QED
      BY <2>3, <2>4, <2>5
  <1>4. CASE Dup2
    BY <1>3, <1>4, QuietForms, QuietListing DEF Dup2, dup2, DirsQuiet
  <1>5. CASE Dup
    BY <1>3, <1>5, QuietForms, QuietListing DEF Dup, dup, DirsQuiet
  <1>6. QED
    BY <1>1, <1>2, <1>4, <1>5

\* A change of an open entry that is no directory.
LEMMA OtherListing ==
  ASSUME PosixInv, ListingInv, PathKept, UNCHANGED <<os, dirs>>, NEW fd, get_file(fd), ~IsDirectory(fd),
         NEW e, e.fd = fds[fd].fd, e.dfile = fds[fd].dfile, fds' = [fds EXCEPT ![fd] = e]
  PROVE  ListingInv'
  <1>1. fd \in Fds /\ HistoryOf(dirs[fd])
    BY DEF ListingInv, HistoryOK, get_file
  <1>2. ~(e.dfile = NULL /\ os'[e.fd] = Directory)
    BY DEF IsDirectory
  <1>3. QED
    BY <1>1, <1>2, SystemStays, EntryListing

\* The position of such an entry moves, or its flags change.
LEMMA OtherMoves ==
  ASSUME PosixInv, ListingInv, PathKept, UNCHANGED <<os, dirs>>, NEW fd, get_file(fd), ~IsDirectory(fd),
         \/ \E x : fds' = [fds EXCEPT ![fd].off = x]
         \/ \E x : fds' = [fds EXCEPT ![fd].flags = x]
  PROVE  ListingInv'
  <1>1. fd \in Fds /\ fds \in [Fds -> Entries]
    BY DEF get_file, PosixInv, FdsOK
  <1>2. ASSUME NEW x, fds' = [fds EXCEPT ![fd].off = x] PROVE ListingInv'
    <2> DEFINE e == [fds[fd] EXCEPT !.off = x]
    <2>1. e.fd = fds[fd].fd /\ e.dfile = fds[fd].dfile
      BY <1>1 DEF Entries
    <2>2. fds' = [fds EXCEPT ![fd] = e]
      BY <1>1, <1>2
    <2> HIDE DEF e
    <2>3. QED
      BY <2>1, <2>2, OtherListing
  <1>3. ASSUME NEW x, fds' = [fds EXCEPT ![fd].flags = x] PROVE ListingInv'
    <2> DEFINE e == [fds[fd] EXCEPT !.flags = x]
    <2>1. e.fd = fds[fd].fd /\ e.dfile = fds[fd].dfile
      BY <1>1 DEF Entries
    <2>2. fds' = [fds EXCEPT ![fd] = e]
      BY <1>1, <1>3
    <2> HIDE DEF e
    <2>3. QED
      BY <2>1, <2>2, OtherListing
  <1>4. QED
    BY <1>2, <1>3

\* read and write move only positions of files; fcntl sets only flags of
\* simulated ones.
LEMMA TransferListing ==
  ASSUME PosixInv, ListingInv, PathKept, Read \/ Write \/ Fcntl PROVE ListingInv'
  <1>1. ASSUME NEW fd, get_file(fd), fds[fd].dfile # NULL PROVE ~IsDirectory(fd)
    BY <1>1 DEF IsDirectory
  <1>2. ASSUME DirsQuiet PROVE ListingInv'
    BY <1>2, QuietListing DEF DirsQuiet
  <1>3. CASE Read
    <2>1. PICK fd, count, null : read(fd, count, null)
      BY <1>3 DEF Read
    <2>2. CASE get_file(fd) /\ fds[fd].dfile = NULL /\ OSRead(fd, count)
      <3>1. PICK r : /\ IsDirectory(fd) => r = -1
                     /\ fds' = IF r = -1 \/ fds[fd].fd = 0 THEN fds ELSE Moved(fd, r)
                     /\ UNCHANGED <<os, dirs>>
        BY <2>2 DEF OSRead
      <3>2. CASE fds' = fds
        BY <1>2, <3>1, <3>2 DEF DirsQuiet
      <3>3. CASE fds' # fds
        <4>1. ~IsDirectory(fd) /\ fds' = Moved(fd, r)
          BY <3>1, <3>3
        <4>2. QED
          BY <2>2, <3>1, <4>1, OtherMoves DEF Moved
      <3>4. QED
        BY <3>2, <3>3
    <2>3. CASE get_file(fd) /\ fds[fd].dfile # NULL /\ SymRead(fd, count)
      BY <1>1, <2>3, OtherMoves DEF SymRead, Moved
    <2>4. CASE DirsQuiet
      BY <1>2, <2>4
    <2>5. QED
      BY <2>1, <2>2, <2>3, <2>4, QuietForms DEF read, DirsQuiet
  <1>4. CASE Write
    <2>1. PICK fd, buf : write(fd, buf) \/ writeAborts(fd, buf)
      BY <1>4 DEF Write
    <2>2. CASE get_file(fd) /\ fds[fd].dfile = NULL /\ OSWrite(fd, Len(buf))
      <3>1. PICK r : /\ IsDirectory(fd) => r = -1
                     /\ fds' = IF r = -1 \/ fds[fd].fd \in {1, 2} THEN fds ELSE Moved(fd, r)
                     /\ UNCHANGED <<os, dirs>>
        BY <2>2 DEF OSWrite
      <3>2. CASE fds' = fds
        BY <1>2, <3>1, <3>2 DEF DirsQuiet
      <3>3. CASE fds' # fds
        <4>1. ~IsDirectory(fd) /\ fds' = Moved(fd, r)
          BY <3>1, <3>3
        <4>2. QED
          BY <2>2, <3>1, <4>1, OtherMoves DEF Moved
      <3>4. QED
        BY <3>2, <3>3
    <2>3. CASE get_file(fd) /\ fds[fd].dfile # NULL /\ SymWrite(fd, buf)
      BY <1>1, <2>3, OtherMoves DEF SymWrite, Moved
    <2>4. CASE DirsQuiet
      BY <1>2, <2>4
    <2>5. QED
      BY <2>1, <2>2, <2>3, <2>4, QuietForms DEF write, writeAborts, Writes
  <1>5. CASE Fcntl
    <2>1. PICK fd, cmd, arg : fcntl(fd, cmd, arg)
      BY <1>5 DEF Fcntl
    <2>2. CASE DirsQuiet
      BY <1>2, <2>2
    <2>3. CASE /\ get_file(fd) /\ fds[fd].dfile # NULL /\ UNCHANGED <<os, dirs>>
               /\ fds' = [fds EXCEPT ![fd].flags = (@ \ {"eCloseOnExec"}) \cup (IF arg = 1 THEN {"eCloseOnExec"} ELSE {})]
      <3>1. \E x : fds' = [fds EXCEPT ![fd].flags = x]
        BY <2>3
      <3>2. QED
        BY <1>1, <2>3, <3>1, OtherMoves
    <2>4. QED
      BY <2>1, <2>2, <2>3, QuietForms DEF fcntl
  <1>6. QED
    BY <1>3, <1>4, <1>5

\* A seek resumes where an entry said one may, or makes the listing inexact.
LEMMA SeekListing ==
  ASSUME PosixInv, ListingInv, PathKept, Seek PROVE ListingInv'
  <1>1. PICK fd, off, whence : fd_lseek(fd, off, whence)
    BY DEF Seek
  <1>2. CASE DirsQuiet
    BY <1>2, QuietListing DEF DirsQuiet
  <1>3. CASE get_file(fd) /\ fds[fd].dfile # NULL /\ SymSeek(fd, off, whence)
    <2>1. ~IsDirectory(fd)
      BY <1>3 DEF IsDirectory
    <2>2. CASE DirsQuiet
      BY <1>2, <2>2
    <2>3. CASE fds' = [fds EXCEPT ![fd].off = SeekTarget(fd, off, whence)] /\ UNCHANGED <<os, dirs>>
      BY <1>3, <2>1, <2>3, OtherMoves
    <2>4. QED
      BY <1>3, <2>2, <2>3, QuietForms DEF SymSeek
  <1>4. CASE get_file(fd) /\ fds[fd].dfile = NULL /\ OSSeek(fd, off, whence)
    <2>1. PICK new : /\ whence = "SEEK_SET" => new \in {off, -1}
                     /\ fds' = IF new = -1 THEN fds ELSE [fds EXCEPT ![fd].off = new]
                     /\ dirs' = IF new = -1 THEN dirs ELSE [dirs EXCEPT ![fd] = SeekTo(@, off, whence)]
                     /\ UNCHANGED os
      BY <1>4 DEF OSSeek
    <2>2. CASE new = -1
      BY <1>2, <2>1, <2>2 DEF DirsQuiet
    <2>3. CASE new # -1
      <3> DEFINE e == [fds[fd] EXCEPT !.off = new]
                 d == dirs[fd]
                 h == SeekTo(d, off, whence)
      <3>1. /\ fd \in Fds /\ fds[fd] \in Entries /\ fds \in [Fds -> Entries]
            /\ HistoryOf(d) /\ dirs = [x \in Fds |-> dirs[x]]
        BY <1>4 DEF get_file, PosixInv, FdsOK, ListingInv, HistoryOK
      <3>2. fds' = [fds EXCEPT ![fd] = e] /\ dirs' = [dirs EXCEPT ![fd] = h]
        BY <2>1, <2>3, <3>1
      <3>3. e.fd = fds[fd].fd /\ e.dfile = fds[fd].dfile /\ e.off = new
        BY <3>1 DEF Entries
      <3>4. HistoryOf(h) /\ (IsDirectory(fd) => ListingOK(new, h))
        <4>1. CASE whence = "SEEK_SET" /\ \E s \in d.seen : s.off = off
          <5> DEFINE s == CHOOSE t \in d.seen : t.off = off
          <5>1. s \in d.seen /\ s.off = off
            BY <4>1
          <5>2. h = [listed |-> s.listed, exact |-> d.exact, seen |-> d.seen]
            BY <3>1, <4>1 DEF SeekTo, HistoryOf
          <5> HIDE DEF s, h
          <5>3. new = off
            BY <2>1, <2>3, <4>1
          <5>4. IsDirectory(fd) => ListingOK(fds[fd].off, d)
            BY <1>4, <3>1 DEF ListingInv
          <5>5. h.listed = s.listed /\ h.exact = d.exact /\ h.seen = d.seen /\ HistoryOf(h)
            BY <5>2 DEF HistoryOf
          <5>6. QED
            BY <5>1, <5>3, <5>4, <5>5 DEF ListingOK
        <4>2. CASE ~(whence = "SEEK_SET" /\ \E s \in d.seen : s.off = off)
          <5>1. h = [listed |-> d.listed, exact |-> FALSE, seen |-> d.seen]
            BY <3>1, <4>2 DEF SeekTo, HistoryOf
          <5> HIDE DEF h
          <5>2. h.listed = d.listed /\ h.seen = d.seen /\ h.exact = FALSE /\ HistoryOf(h)
            BY <5>1 DEF HistoryOf
          <5>3. QED
            BY <5>2 DEF ListingOK
        <4>3. QED
          BY <4>1, <4>2
      <3> HIDE DEF e, h
      <3>5. e.dfile = NULL /\ os'[e.fd] = Directory => ListingOK(e.off, h)
        BY <2>1, <3>3, <3>4 DEF IsDirectory
      <3>6. QED
        BY <2>1, <3>1, <3>2, <3>4, <3>5, SystemStays, EntryListing
    <2>4. QED
      BY <2>2, <2>3
  <1>5. QED
    BY <1>1, <1>2, <1>3, <1>4, QuietForms DEF fd_lseek

\* A call that sets the position and the history of one entry.
LEMMA AdvancedListing ==
  ASSUME PosixInv, ListingInv, PathKept, UNCHANGED os, NEW fd, get_file(fd), NEW x, NEW h, HistoryOf(h),
         fds' = [fds EXCEPT ![fd].off = x], dirs' = [dirs EXCEPT ![fd] = h],
         IsDirectory(fd) => ListingOK(x, h)
  PROVE  ListingInv'
  <1> DEFINE e == [fds[fd] EXCEPT !.off = x]
  <1>1. fd \in Fds /\ fds[fd] \in Entries /\ fds \in [Fds -> Entries]
    BY DEF get_file, PosixInv, FdsOK
  <1>2. fds' = [fds EXCEPT ![fd] = e]
    BY <1>1
  <1>3. e.fd = fds[fd].fd /\ e.dfile = fds[fd].dfile /\ e.off = x
    BY <1>1 DEF Entries
  <1> HIDE DEF e
  <1>4. e.dfile = NULL /\ os'[e.fd] = Directory => ListingOK(e.off, h)
    BY <1>3 DEF IsDirectory
  <1>5. QED
    BY <1>1, <1>2, <1>4, SystemStays, EntryListing

\* getdents.
LEMMA GetDentsListing ==
  ASSUME PosixInv, Room, ListingInv, PathKept, GetDents PROVE ListingInv'
  <1>1. PICK fd \in prog.fds, count \in prog.dirCounts : fd_getdents(fd, count) \/ getdentsOverflows(fd, count)
    BY DEF GetDents
  <1>2. count \in Nat /\ DirentSize \in Nat \ {0} /\ Gap \in Nat /\ Len(OSEntries) \in Nat
    BY PosixAssumption, ProgramsAssumption DEF prog, PosixInv, PathOK
  <1>3. ASSUME DirsQuiet PROVE ListingInv'
    BY <1>3, QuietListing DEF DirsQuiet
  <1>4. \A d, entries, x : HistoryOf(Listed(d, entries, x)) /\ (Listed(d, entries, x).exact => d.exact)
    BY DEF Listed, HistoryOf
  <1>5. ASSUME get_file(fd) PROVE /\ IsDirectory(fd) => ListingOK(fds[fd].off, dirs[fd])
                                  /\ fd \in Fds /\ fds[fd].off \in Int /\ dirs = [x \in Fds |-> dirs[x]]
    BY <1>5 DEF ListingInv, HistoryOK, get_file, PosixInv, FdsOK, Entries
  <1>6. CASE get_file(fd) /\ fds[fd].off < Gap /\ OwnDirents(fd, count)
    <2> DEFINE i == fds[fd].off \div DirentSize
               pad == IF count >= Gap THEN Gap ELSE count
               h == Listed(dirs[fd], SymEntries(i), count >= Gap)
    <2>1. CASE DirsQuiet
      BY <1>3, <2>1
    <2>2. CASE /\ i * DirentSize = fds[fd].off /\ i <= path.options.files
               /\ fds' = [fds EXCEPT ![fd].off = pad] /\ os' = os
               /\ dirs' = [dirs EXCEPT ![fd] = Listed(@, SymEntries(i), count >= Gap)]
      <3>1. dirs' = [dirs EXCEPT ![fd] = h]
        BY <1>5, <1>6, <2>2
      <3>2. ASSUME IsDirectory(fd) PROVE ListingOK(pad, h)
        <4>1. CASE ~dirs[fd].exact
          BY <1>4, <4>1 DEF ListingOK
        <4>2. CASE dirs[fd].exact
          <5>1. PICK n \in Nat : fds[fd].off \in Resume(n)
            BY <1>5, <1>6, <3>2, <4>2, FullListingIs DEF ListingOK, Precede
          <5>2. fds[fd].off \in {n * DirentSize, Gap + n - path.options.files, Gap} /\ path.options.files \in Nat
            BY <5>1, FullListingIs DEF Resume
          <5>3. fds[fd].off \in Nat
            <6>1. CASE n <= path.options.files
              BY <1>2, <5>1, <5>2, <6>1 DEF Resume
            <6>2. CASE n > path.options.files
              <7>1. fds[fd].off = Gap + n - path.options.files
                BY <5>1, <5>2, <6>2 DEF Resume
              <7>2. QED
                BY <1>2, <5>2, <6>2, <7>1
            <6>3. QED
              BY <5>2, <6>1, <6>2
          <5>4. i \in Nat
            BY <1>2, <5>3
          <5> HIDE DEF i
          <5>5. QED
            BY <1>2, <1>5, <1>6, <2>2, <3>2, <5>4, OwnListing
        <4>3. QED
          BY <4>1, <4>2
      <3> HIDE DEF h, pad
      <3>3. HistoryOf(h)
        BY <1>4 DEF h
      <3>4. QED
        BY <1>6, <2>2, <3>1, <3>2, <3>3, AdvancedListing
    <2>3. CASE i * DirentSize # fds[fd].off \/ i > path.options.files
      BY <1>6, <2>1, <2>3, QuietForms DEF OwnDirents
    <2>4. CASE ~(i * DirentSize # fds[fd].off \/ i > path.options.files)
      <3>1. /\ fds' = [fds EXCEPT ![fd].off = pad] /\ os' = os
            /\ dirs' = [dirs EXCEPT ![fd] = Listed(@, SymEntries(i), count >= Gap)]
        BY <1>6, <2>4 DEF OwnDirents
      <3>2. path.options.files \in Nat /\ i \in Int
        BY <1>2, <1>5, <1>6, FullListingIs
      <3> HIDE DEF i
      <3>3. i * DirentSize = fds[fd].off /\ i <= path.options.files
        BY <2>4, <3>2
      <3>4. QED
        BY <2>2, <3>1, <3>3
    <2>5. QED
      BY <2>3, <2>4
  <1>7. CASE get_file(fd) /\ ~(fds[fd].off < Gap) /\ IsDirectory(fd) /\ SystemDirents(fd)
    <2> DEFINE pos == fds[fd].off - Gap
    <2>1. CASE DirsQuiet
      BY <1>3, <2>1
    <2>2. ASSUME NEW n \in 0 .. (IF pos < Len(OSEntries) THEN Len(OSEntries) - pos ELSE 0),
                 fds' = [fds EXCEPT ![fd].off = pos + n + Gap], os' = os,
                 dirs' = [dirs EXCEPT ![fd] = Listed(@, OSDirents(pos, n), TRUE)]
          PROVE  ListingInv'
      <3> DEFINE h == Listed(dirs[fd], OSDirents(pos, n), TRUE)
      <3>1. dirs' = [dirs EXCEPT ![fd] = h]
        BY <1>5, <1>7, <2>2
      <3>2. pos \in Nat /\ fds[fd].off = pos + Gap
        BY <1>2, <1>5, <1>7
      <3> HIDE DEF pos
      <3>3. n \in Nat /\ (n > 0 => pos + n <= Len(OSEntries))
        <4>1. CASE pos < Len(OSEntries)
          BY <1>2, <3>2, <4>1
        <4>2. CASE ~(pos < Len(OSEntries))
          BY <1>2, <3>2, <4>2
        <4>3. QED
          BY <4>1, <4>2
      <3>4. ListingOK(pos + n + Gap, h)
        BY <1>5, <1>7, <3>2, <3>3, SystemListing
      <3> HIDE DEF h
      <3>5. HistoryOf(h)
        BY <1>4 DEF h
      <3>6. QED
        BY <1>7, <2>2, <3>1, <3>4, <3>5, AdvancedListing
    <2>3. QED
      BY <1>7, <2>1, <2>2, QuietForms DEF SystemDirents
  <1>8. QED
    BY <1>1, <1>3, <1>6, <1>7, QuietForms DEF fd_getdents, getdentsOverflows

\* A directory is listed exactly, for every number of simulated files that fit
\* below the offsets of the operating system's entries, every directory, and
\* every order of getdents, lseek, dup2, close and deletions.
THEOREM ListingIsExact == FewFiles => (Spec => []ListingExact)
  <1> SUFFICES ASSUME FewFiles PROVE Spec => []ListingExact
    OBVIOUS
  <1>1. Init => Room /\ ListingInv
    <2> SUFFICES ASSUME Init PROVE Room /\ ListingInv
      OBVIOUS
    <2>1. Room
      <3>0. PICK i \in DOMAIN Programs : \E m \in Programs[i].nArgs :
              path = [options |-> klee_init_env(Programs[i].argv, m), program |-> i,
                      halted |-> klee_init_env(Programs[i].argv, m).error, left |-> Programs[i].depth]
        BY DEF Init
      <3>1. PICK n \in Programs[i].nArgs :
              path = [options |-> klee_init_env(Programs[i].argv, n), program |-> i,
                      halted |-> klee_init_env(Programs[i].argv, n).error, left |-> Programs[i].depth]
        BY <3>0
      <3>2. path.options = klee_init_env(Programs[i].argv, n)
        BY <3>1
      <3>3. QED
        BY <3>2 DEF FewFiles, Room
    <2>2. dirs = [fd \in Fds |-> Listing0]
      BY DEF Init
    <2>3. HistoryOK
      BY <2>2, InitInv, NewListing DEF HistoryOK
    <2>4. ASSUME NEW fd \in Fds, get_file(fd) PROVE fds[fd].off = 0
      <3>1. PICK o : fds = exe_env(o)
        BY DEF Init, klee_init_fds
      <3>2. QED
        BY <3>1 DEF exe_env, Blank
    <2>5. QED
      BY <2>1, <2>2, <2>3, <2>4, InitInv, NewListing DEF ListingInv
  <1>2. ASSUME PosixInv, Room, ListingInv, [Next]_vars PROVE PosixInv' /\ Room' /\ ListingInv'
    <2>1. PosixInv'
      BY <1>2, NextStep, StutterStep DEF GoodStep
    <2>2. PathKept
      BY <1>2, StepKeepsPath DEF vars, PathKept, PosixInv, PathOK
    <2>3. Room'
      BY <1>2, <2>2 DEF Room, PathKept
    <2>4. CASE UNCHANGED vars
      BY <1>2, <2>1, <2>2, <2>3, <2>4, QuietListing DEF vars
    <2>5. CASE DirsQuiet
      BY <1>2, <2>1, <2>2, <2>3, <2>5, QuietListing DEF DirsQuiet
    <2>6. CASE Open \/ OpenAt \/ Close \/ Dup2 \/ Dup
      BY <1>2, <2>1, <2>2, <2>3, <2>6, TableListing
    <2>7. CASE Read \/ Write \/ Fcntl
      BY <1>2, <2>1, <2>2, <2>3, <2>7, TransferListing
    <2>8. CASE Seek
      BY <1>2, <2>1, <2>2, <2>3, <2>8, SeekListing
    <2>9. CASE GetDents
      BY <1>2, <2>1, <2>2, <2>3, <2>9, GetDentsListing
    <2>10. QED
      BY <1>2, <2>1, <2>3, <2>4, <2>5, <2>6, <2>7, <2>8, <2>9, StatusQuiet, OtherQuiet DEF Next
  <1>3. QED
    BY <1>1, <1>2, InitInv, ListingInvSuffices, PTL DEF Spec
=============================================================================
