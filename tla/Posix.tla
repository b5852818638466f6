-------------------------------- MODULE Posix --------------------------------
(***************************************************************************)
(* KLEE's POSIX runtime (runtime/POSIX), linked to every program FeatMaker *)
(* tests: descriptors, simulated ("symbolic") files, failures injected on  *)
(* request, and calls passed on to the operating system.  One behaviour is *)
(* one path of the program for one choice of its symbolic input.           *)
(*                                                                         *)
(* A name is an integer: 1 .. n_sym_files are "A", "B", ...; the others    *)
(* are names of the operating system, which is external.  A mode is the    *)
(* set of permissions somebody has.                                        *)
(***************************************************************************)
EXTENDS Integers, Sequences, FiniteSets

CONSTANTS MAX_FDS, StdoutSize,
          DirentSize, Gap,     \* sizeof(struct dirent64), and the 4096 of getdents
          Directory, OSEntries,\* a directory of the operating system, and what is in it
          OSNames,
          Programs             \* command lines, calls, symbolic input and length of the runs

ASSUME PosixAssumption ==
    /\ MAX_FDS \in Nat /\ MAX_FDS > 2 /\ StdoutSize \in Nat
    /\ DirentSize \in Nat \ {0} /\ Gap \in Nat
    /\ OSNames \subseteq Int /\ Directory \in OSNames /\ OSEntries \in Seq(Int)

Fds      == 0 .. (MAX_FDS - 1)
AT_FDCWD == -100
NULL     == 0                  \* no simulated file
Sets     == {"read", "write", "except"}
Injected == {"read", "write", "close", "ftruncate", "getcwd", "chmod", "fchmod"}

VARIABLES fds,      \* __exe_env.fds: [fd, flags, off, dfile]
          disk,     \* the simulated files: [size, contents, st_ino, type, mode, own]
          umask,    \* __exe_env.umask
          fail,     \* max_failures, n_calls of each function, and which call fails
          os,       \* the operating system's descriptors |-> names
          ret,      \* what the last call returned: [call, on, val, errno, data]
          path,     \* [options, program, halted, left]: command line and bound of the run
          dirs      \* history: what was listed through a descriptor, see below

env  == <<fds, disk, umask, fail, os, dirs>>
vars == <<fds, disk, umask, fail, os, ret, path, dirs>>

----------------------------------------------------------------------------
(* klee_init_env and klee_init_fds.                                          *)

\* An option is [opt, ints]: its name and the integers that follow it.
Parse0 == [error |-> FALSE, args |-> 0, files |-> 0, length |-> 0, stdin |-> 0,
           stdout |-> FALSE, saveAll |-> FALSE, failures |-> 0]

Expected ==
    [f \in {"sym-arg", "sym-args", "sym-files", "sym-stdin", "max-fail", "sym-stdout", "save-all-writes", "fd-fail", "other"} |->
        CASE f \in {"sym-arg", "sym-stdin", "max-fail"} -> 1
          [] f = "sym-files" -> 2
          [] f = "sym-args" -> 3
          [] OTHER -> 0]

\* __emit_error: too few integers, too many arguments, or a range or size of 0.
Rejected(o, a) ==
    \/ Len(a.ints) < Expected[a.opt]
    \/ a.opt = "sym-arg" /\ o.args > 99
    \/ a.opt = "sym-args" /\ (a.ints[1] > a.ints[2] \/ a.ints[2] = 0 \/ o.args + a.ints[2] > 99)
    \/ a.opt = "sym-files" /\ (o.files # 0 \/ a.ints[1] = 0 \/ a.ints[2] = 0)

\* One turn of the loop; n is the value of klee_range for --sym-args.
ParseOption(o, a, n) ==
    CASE o.error \/ Rejected(o, a) -> [o EXCEPT !.error = TRUE]
      [] a.opt = "sym-arg" -> [o EXCEPT !.args = @ + 1]
      [] a.opt = "sym-args" -> [o EXCEPT !.args = @ + n]
      [] a.opt = "sym-files" -> [o EXCEPT !.files = a.ints[1], !.length = a.ints[2]]
      [] a.opt = "sym-stdin" -> [o EXCEPT !.stdin = a.ints[1]]
      [] a.opt = "sym-stdout" -> [o EXCEPT !.stdout = TRUE]
      [] a.opt = "save-all-writes" -> [o EXCEPT !.saveAll = TRUE]
      [] a.opt = "fd-fail" -> [o EXCEPT !.failures = 1]
      [] a.opt = "max-fail" -> [o EXCEPT !.failures = a.ints[1]]
      [] OTHER -> o

klee_init_env(argv, n) ==
    LET parse[k \in 0 .. Len(argv)] ==
            IF k = 0 THEN Parse0 ELSE ParseOption(parse[k - 1], argv[k], n)
    IN  parse[Len(argv)]

\* What the command line comes to, and what a simulated file looks like from outside.
Options == [error : BOOLEAN, args : Nat, files : Nat, length : Nat, stdin : Nat,
            stdout : BOOLEAN, saveAll : BOOLEAN, failures : Nat]
Modes   == SUBSET {"r", "w"}
Stats   == [type : {"REG", "DIR", "LNK", "CHR"}, mode : Modes, own : BOOLEAN]

\* Sizes, offsets and numbers of bytes are integers, and no option is negative.
ASSUME ProgramsAssumption ==
    \A i \in DOMAIN Programs :
        /\ \A n \in Programs[i].nArgs : klee_init_env(Programs[i].argv, n) \in Options
        /\ Programs[i].stats \subseteq Stats
        /\ Programs[i].counts \subseteq Nat /\ Programs[i].dirCounts \subseteq Nat
        /\ Programs[i].ends \subseteq Int
        /\ \A j \in DOMAIN Programs[i].opens : Programs[i].opens[j].mode \in Modes
        /\ \A j \in DOMAIN Programs[i].bufs : Programs[i].bufs[j] \in Seq(Int)
        /\ \A j \in DOMAIN Programs[i].seeks : Programs[i].seeks[j].off \in Int

create_new_dfile(size, stat) ==
    [size |-> size, contents |-> [k \in 0 .. (size - 1) |-> 10 + k],
     st_ino |-> 1, type |-> stat.type, mode |-> stat.mode, own |-> stat.own]

Blank == [fd |-> 0, flags |-> {}, off |-> 0, dfile |-> NULL]

\* The simulated files are numbered: the named ones, then stdin and stdout.
StdinOf(o)  == IF o.stdin > 0 THEN o.files + 1 ELSE NULL
StdoutOf(o) == IF o.stdout THEN o.files + 2 ELSE NULL
sizeOf(o, d) == IF d <= o.files THEN o.length ELSE IF d = StdinOf(o) THEN o.stdin ELSE StdoutSize

exe_env(o) ==
    [fd \in Fds |->
        CASE fd = 0 -> [fd |-> 0, flags |-> {"eOpen", "eReadable"}, off |-> 0, dfile |-> StdinOf(o)]
          [] fd = 1 -> [fd |-> 1, flags |-> {"eOpen", "eWriteable"}, off |-> 0, dfile |-> StdoutOf(o)]
          [] fd = 2 -> [fd |-> 2, flags |-> {"eOpen", "eWriteable"}, off |-> 0, dfile |-> NULL]
          [] OTHER -> Blank]

klee_init_fds(o, stat, at) ==
    /\ fds = exe_env(o)
    /\ disk = [d \in (1 .. o.files) \cup ({StdinOf(o), StdoutOf(o)} \ {NULL}) |->
                  create_new_dfile(sizeOf(o, d), stat)]
    /\ umask = {"w"}
    /\ fail = [left |-> o.failures, calls |-> [f \in Injected |-> 0], at |-> [f \in Injected |-> at]]

Listing0 == [listed |-> <<>>, seen |-> {[off |-> 0, listed |-> <<>>]}, exact |-> TRUE]

Init ==
    \E i \in DOMAIN Programs : \E n \in Programs[i].nArgs, stat \in Programs[i].stats, at \in Programs[i].failAt :
        LET o == klee_init_env(Programs[i].argv, n) IN
        /\ klee_init_fds(o, stat, at)
        /\ path = [options |-> o, program |-> i, halted |-> o.error, left |-> Programs[i].depth]
        /\ os = [fd \in {0, 1, 2} |-> -fd]
        /\ ret = [call |-> "main", on |-> -1, val |-> 0, errno |-> "", data |-> <<>>]
        /\ dirs = [fd \in Fds |-> Listing0]

----------------------------------------------------------------------------
(* Calls and results.                                                        *)

prog == Programs[path.program]

\* The program makes a call, while it still runs.
Call(f) == /\ ~path.halted /\ path.left > 0 /\ f \in prog.calls
           /\ path' = [path EXCEPT !.left = @ - 1]

ReturnOn(f, fd, v, e, d) == ret' = [call |-> f, on |-> fd, val |-> v, errno |-> e, data |-> d]
Return(f, v, e, d) == ReturnOn(f, -1, v, e, d)
Done(f, v)  == Return(f, v, "", <<>>)
Error(f, e) == Return(f, -1, e, <<>>)
Pure(f, v)  == Done(f, v) /\ UNCHANGED env
Fails(f, e) == Error(f, e) /\ UNCHANGED env

\* A failed assertion, or a memory error, ends the path.
Halt == /\ path' = [path EXCEPT !.halted = TRUE]
        /\ UNCHANGED <<fds, disk, umask, fail, os, ret, dirs>>

\* A call passed to the operating system that changes nothing here.
Syscall(f) == \E v \in {0, -1} : Return(f, v, IF v = 0 THEN "" ELSE "OS", <<>>) /\ UNCHANGED env

\* __get_sym_file: the simulated file of a name, unless it was deleted.
get_sym_file(p) == IF p \in 1 .. path.options.files /\ disk[p].st_ino # 0 THEN p ELSE NULL

\* __get_file.
get_file(fd) == fd \in Fds /\ "eOpen" \in fds[fd].flags

\* What the functions with a failure counter do first: n_calls++, and the call
\* that *_fail names fails while failures are left.  chmod_fail and fchmod_fail
\* are never allocated: with failures left the program ends at a null pointer.
Counted(f)  == [fail EXCEPT !.calls[f] = @ + 1]
FailsNow(f) == fail.left > 0 /\ fail.at[f] = fail.calls[f] + 1
InjectedError(f, e) ==
    /\ fail' = [Counted(f) EXCEPT !.left = @ - 1]
    /\ Error(f, e) /\ UNCHANGED <<fds, disk, umask, os, dirs>>
CountedError(f, e) ==
    /\ fail' = Counted(f) /\ Error(f, e) /\ UNCHANGED <<fds, disk, umask, os, dirs>>

\* Calls by name, of which the runtime answers those about simulated files.
OnName(f, p, answer, errno) ==
    /\ Call(f)
    /\ IF get_sym_file(p) = NULL THEN Syscall(f) ELSE Return(f, answer, errno, <<>>) /\ UNCHANGED env

\* Calls on a descriptor: a closed one, a simulated file, the system's.
OnFile(f, fd, answer, errno) ==
    /\ Call(f)
    /\ CASE ~get_file(fd) -> Fails(f, "EBADF")
         [] get_file(fd) /\ fds[fd].dfile = NULL -> Syscall(f)
         [] OTHER -> Return(f, answer, errno, <<>>) /\ UNCHANGED env

----------------------------------------------------------------------------
(* Opening and closing.                                                      *)

\* The flags are O_RDONLY, O_WRONLY or O_RDWR, and a set of the others.
\* O_RDONLY is 0, so only O_RDWR asks for read access.
has_permission(acc, mode) ==
    /\ ~(acc = "O_RDWR" /\ "r" \in mode)
    /\ acc \in {"O_WRONLY", "O_RDWR"} => "w" \in mode

OpenError(df, acc, flags) ==
    CASE {"O_CREAT", "O_EXCL"} \subseteq flags -> "EEXIST"
      [] "O_EXCL" \in flags /\ "O_CREAT" \notin flags -> "EACCES"
      [] "O_EXCL" \notin flags /\ ~has_permission(acc, disk[df].mode) -> "EACCES"
      [] OTHER -> ""

AccessFlags(acc) == {"eOpen"} \cup (IF acc = "O_WRONLY" THEN {} ELSE {"eReadable"})
                              \cup (IF acc = "O_RDONLY" THEN {} ELSE {"eWriteable"})

FreeFds == {fd \in Fds : "eOpen" \notin fds[fd].flags}
LowestFree(fd) == fd \in FreeFds /\ \A e \in FreeFds : fd <= e

\* The operating system opens a name under its lowest free number.
OSOpen(fd, p, acc) ==
    \/ Error("open", "OS") /\ fds' = [fds EXCEPT ![fd] = Blank] /\ UNCHANGED <<os, dirs>>
    \/ \E n \in 0 .. Cardinality(DOMAIN os) :
          /\ n \notin DOMAIN os /\ \A m \in 0 .. (n - 1) : m \in DOMAIN os
          /\ os' = [m \in DOMAIN os \cup {n} |-> IF m = n THEN p ELSE os[m]]
          /\ fds' = [fds EXCEPT ![fd] = [Blank EXCEPT !.fd = n, !.flags = AccessFlags(acc)]]
          /\ dirs' = [dirs EXCEPT ![fd] = Listing0]
          /\ Done("open", fd)

SymOpen(fd, df, acc, flags, mode) ==
    LET e == OpenError(df, acc, flags)
        f == [Blank EXCEPT !.dfile = df]
    IN  \/ /\ e # "" /\ Error("open", e)
           /\ fds' = [fds EXCEPT ![fd] = f] /\ UNCHANGED <<disk, dirs>>
        \/ /\ e = "" /\ Done("open", fd)
           /\ fds' = [fds EXCEPT ![fd] = [f EXCEPT !.flags = AccessFlags(acc)]]
           /\ disk' = [disk EXCEPT ![df].mode = mode \ umask]
           /\ dirs' = [dirs EXCEPT ![fd] = Listing0]

\* open and open64 pass mode 0 unless O_CREAT is set.
ModeOf(flags, mode) == IF "O_CREAT" \in flags THEN mode ELSE {}

fd_open(p, acc, flags, mode) ==
    \/ FreeFds = {} /\ Fails("open", "EMFILE")
    \/ \E fd \in Fds :
          /\ LowestFree(fd)
          /\ IF get_sym_file(p) # NULL
             THEN SymOpen(fd, get_sym_file(p), acc, flags, mode) /\ UNCHANGED <<umask, fail, os>>
             ELSE OSOpen(fd, p, acc) /\ UNCHANGED <<disk, umask, fail>>

open(p, acc, flags, mode) == Call("open") /\ fd_open(p, acc, flags, ModeOf(flags, mode))

fd_openat(base, p, acc, flags, mode) ==
    CASE base # AT_FDCWD /\ ~get_file(base) -> Fails("open", "EBADF")
      [] base # AT_FDCWD /\ get_file(base) /\ fds[base].dfile # NULL -> Fails("open", "ENOENT")
      [] OTHER -> fd_open(p, acc, flags, mode)

openat(base, p, acc, flags, mode) ==
    Call("openat") /\ fd_openat(base, p, acc, flags, ModeOf(flags, mode))

\* The operating system's descriptor stays open.
Closed(fd) == fds' = [fds EXCEPT ![fd] = Blank] /\ UNCHANGED os

close(fd) ==
    /\ Call("close")
    /\ CASE ~get_file(fd) -> CountedError("close", "EBADF")
         [] get_file(fd) /\ FailsNow("close") -> InjectedError("close", "EIO")
         [] OTHER -> /\ Closed(fd) /\ fail' = Counted("close") /\ ReturnOn("close", fd, 0, "", <<>>)
                     /\ UNCHANGED <<disk, umask, dirs>>

\* close(newfd) if it is open, then a copy of the entry: of an entry that
\* close has just cleared if the two are the same.
Dup2Fail(newfd) ==
    IF ~get_file(newfd) THEN fail
    ELSE IF FailsNow("close") THEN [Counted("close") EXCEPT !.left = @ - 1] ELSE Counted("close")
Dup2Entry(oldfd, newfd) ==
    IF oldfd = newfd /\ ~FailsNow("close") THEN Blank ELSE [fds[oldfd] EXCEPT !.flags = @ \ {"eCloseOnExec"}]

DoDup2(oldfd, newfd) ==
    /\ fail' = Dup2Fail(newfd)
    /\ fds' = [fds EXCEPT ![newfd] = Dup2Entry(oldfd, newfd)]
    /\ dirs' = [dirs EXCEPT ![newfd] = dirs[oldfd]]
    /\ Done("dup2", newfd) /\ UNCHANGED <<disk, umask, os>>

dup2(oldfd, newfd) ==
    /\ Call("dup2")
    /\ IF ~get_file(oldfd) \/ newfd \notin Fds THEN Fails("dup2", "EBADF") ELSE DoDup2(oldfd, newfd)

dup(oldfd) ==
    /\ Call("dup")
    /\ CASE ~get_file(oldfd) -> Fails("dup2", "EBADF")
         [] get_file(oldfd) /\ FreeFds = {} -> Fails("dup2", "EMFILE")
         [] OTHER -> \E fd \in Fds : LowestFree(fd) /\ DoDup2(oldfd, fd)

----------------------------------------------------------------------------
(* Reading, writing and seeking.                                             *)

Moved(fd, by) == [fds EXCEPT ![fd].off = @ + by]

\* How much of count a read at off of a simulated file gets.
ReadCount(df, off, count) ==
    CASE disk[df].size < off -> 0
      [] disk[df].size >= off /\ off + count > disk[df].size -> disk[df].size - off
      [] OTHER -> count

SymRead(fd, count) ==
    LET f == fds[fd]
        n == ReadCount(f.dfile, f.off, count)
    IN  /\ ReturnOn("read", fd, n, "", [i \in 1 .. n |-> disk[f.dfile].contents[f.off + i - 1]])
        /\ fds' = Moved(fd, n) /\ fail' = Counted("read") /\ UNCHANGED <<disk, umask, os, dirs>>

IsDirectory(fd) == fds[fd].dfile = NULL /\ os[fds[fd].fd] = Directory

\* read and pread64: standard input has a position of its own, and the operating
\* system refuses to read and to write a directory.
OSRead(fd, count) ==
    \E r \in -1 .. count :
        /\ IsDirectory(fd) => r = -1
        /\ ReturnOn("read", fd, r, IF r = -1 THEN "OS" ELSE "", <<>>)
        /\ fds' = IF r = -1 \/ fds[fd].fd = 0 THEN fds ELSE Moved(fd, r)
        /\ fail' = Counted("read") /\ UNCHANGED <<disk, umask, os, dirs>>

read(fd, count, null) ==
    /\ Call("read")
    /\ CASE count = 0 -> Done("read", 0) /\ fail' = Counted("read") /\ UNCHANGED <<fds, disk, umask, os, dirs>>
         [] count # 0 /\ null -> CountedError("read", "EFAULT")
         [] count # 0 /\ ~null /\ ~get_file(fd) -> CountedError("read", "EBADF")
         [] count # 0 /\ ~null /\ get_file(fd) /\ FailsNow("read") -> InjectedError("read", "EIO")
         [] OTHER -> IF fds[fd].dfile = NULL THEN OSRead(fd, count) ELSE SymRead(fd, count)

OSWrite(fd, count) ==
    \E r \in -1 .. count :
        /\ IsDirectory(fd) => r = -1
        /\ ReturnOn("write", fd, r, IF r = -1 THEN "OS" ELSE "", <<>>)
        /\ fds' = IF r = -1 \/ fds[fd].fd \in {1, 2} THEN fds ELSE Moved(fd, r)
        /\ fail' = Counted("write") /\ UNCHANGED <<disk, umask, os, dirs>>

\* Bytes beyond the end are dropped, but the position moves and the program is
\* told that all were written.
Extends(fd, buf) == fds[fd].off + Len(buf) > disk[fds[fd].dfile].size
Stored(contents, off, buf) ==
    [k \in DOMAIN contents |-> IF k - off \in 0 .. (Len(buf) - 1) THEN buf[k - off + 1] ELSE contents[k]]

\* Mutant: the position moves by the bytes stored.
SymWriteShort(fd, buf) ==
    /\ ReturnOn("write", fd, Len(buf), "", buf)
    /\ disk' = [disk EXCEPT ![fds[fd].dfile].contents = Stored(@, fds[fd].off, buf)]
    /\ fds' = Moved(fd, IF Extends(fd, buf) THEN disk[fds[fd].dfile].size - fds[fd].off ELSE Len(buf))
    /\ fail' = Counted("write") /\ UNCHANGED <<umask, os, dirs>>

\* stdout_writes, which is counted up here and never read, is left out.
SymWrite(fd, buf) ==
    /\ ReturnOn("write", fd, Len(buf), "", buf)
    /\ disk' = [disk EXCEPT ![fds[fd].dfile].contents = Stored(@, fds[fd].off, buf)]
    /\ fds' = Moved(fd, Len(buf))
    /\ fail' = Counted("write") /\ UNCHANGED <<umask, os, dirs>>

Writes(fd) == get_file(fd) /\ ~FailsNow("write")
Overflows(fd, buf) == Writes(fd) /\ fds[fd].dfile # NULL /\ path.options.saveAll /\ Extends(fd, buf)

write(fd, buf) ==
    /\ Call("write")
    /\ CASE ~get_file(fd) -> CountedError("write", "EBADF")
         [] get_file(fd) /\ FailsNow("write") -> InjectedError("write", "EIO")
         [] Writes(fd) /\ fds[fd].dfile = NULL -> OSWrite(fd, Len(buf))
         [] OTHER -> ~Overflows(fd, buf) /\ SymWrite(fd, buf)

\* With --save-all-writes a write beyond the end fails assert(0).
writeAborts(fd, buf) ==
    /\ ~path.halted /\ path.left > 0 /\ "write" \in prog.calls
    /\ Overflows(fd, buf) /\ Halt

\* History: a seek to an offset that getdents has returned resumes there.
SeekTo(d, off, whence) ==
    IF whence = "SEEK_SET" /\ \E s \in d.seen : s.off = off
    THEN [d EXCEPT !.listed = (CHOOSE s \in d.seen : s.off = off).listed]
    ELSE [d EXCEPT !.exact = FALSE]

\* The operating system seeks from the runtime's position, to one of some ends.
OSSeek(fd, off, whence) ==
    \E new \in {CASE whence = "SEEK_SET" -> off
                  [] whence = "SEEK_CUR" -> fds[fd].off + off
                  [] OTHER -> end + off : end \in prog.ends} \cup {-1} :
        /\ new >= -1
        /\ ReturnOn("lseek", fd, new, IF new = -1 THEN "OS" ELSE "", <<>>)
        /\ fds' = IF new = -1 THEN fds ELSE [fds EXCEPT ![fd].off = new]
        /\ dirs' = IF new = -1 THEN dirs ELSE [dirs EXCEPT ![fd] = SeekTo(@, off, whence)]
        /\ UNCHANGED <<disk, umask, fail, os>>

SeekTarget(fd, off, whence) ==
    CASE whence = "SEEK_SET" -> off
      [] whence = "SEEK_CUR" -> fds[fd].off + off
      [] whence = "SEEK_END" -> disk[fds[fd].dfile].size + off
      [] OTHER -> -1

SymSeek(fd, off, whence) ==
    LET new == SeekTarget(fd, off, whence)
    IN  IF new < 0 THEN Fails("lseek", "EINVAL")
        ELSE /\ fds' = [fds EXCEPT ![fd].off = new] /\ ReturnOn("lseek", fd, new, "", <<>>)
             /\ UNCHANGED <<disk, umask, fail, os, dirs>>

fd_lseek(fd, off, whence) ==
    /\ Call("lseek")
    /\ CASE ~get_file(fd) -> Fails("lseek", "EBADF")
         [] get_file(fd) /\ fds[fd].dfile = NULL -> OSSeek(fd, off, whence)
         [] OTHER -> SymSeek(fd, off, whence)

----------------------------------------------------------------------------
(* Directories.  Offsets below Gap are the runtime's own entries, those from *)
(* Gap on the operating system's.  An entry is [name, d_off].                *)

SymEntries(i) == [k \in 1 .. (path.options.files - i) |->
                    [name |-> i + k, ino |-> disk[i + k].st_ino, d_off |-> (i + k) * DirentSize]]

\* Mutant: d_off is left as the system gave it.
PatchedOffsetRaw(pos) == pos

\* dp->d_off += 4096.
PatchedOffset(pos) == pos + Gap

OSDirents(pos, n) ==
    [k \in 1 .. n |-> [name |-> OSEntries[pos + k], ino |-> 1, d_off |-> PatchedOffset(pos + k)]]

\* History: the names listed so far, and where each entry said one may resume.
Listed(d, entries, exact) ==
    LET names == [k \in DOMAIN entries |-> entries[k].name]
    IN  [listed |-> d.listed \o names, exact |-> d.exact /\ exact,
         seen |-> d.seen \cup {[off |-> entries[k].d_off, listed |-> d.listed \o SubSeq(names, 1, k)]
                               : k \in DOMAIN entries}]

\* The last entry is a deleted file that pads the buffer; a buffer too small for
\* the entries and the pad, which the code would overrun, is not given.
OwnDirents(fd, count) ==
    LET i     == fds[fd].off \div DirentSize
        mine  == SymEntries(i)
        bytes == Len(mine) * DirentSize
        pad   == IF count >= Gap THEN Gap ELSE count
    IN  IF i * DirentSize # fds[fd].off \/ i > path.options.files THEN Fails("getdents", "EINVAL")
        ELSE /\ bytes < count
             /\ Return("getdents", pad, "", mine)
             /\ fds' = [fds EXCEPT ![fd].off = pad]
             /\ dirs' = [dirs EXCEPT ![fd] = Listed(@, mine, count >= Gap)]
             /\ UNCHANGED <<disk, umask, fail, os>>

\* getdents64 returns some of the entries that are left.
SystemDirents(fd) ==
    LET pos == fds[fd].off - Gap IN
    \/ Fails("getdents", "OS")
    \/ \E n \in 0 .. (IF pos < Len(OSEntries) THEN Len(OSEntries) - pos ELSE 0) :
          /\ (n = 0) <=> (pos >= Len(OSEntries))
          /\ Return("getdents", n, "", OSDirents(pos, n))
          /\ fds' = [fds EXCEPT ![fd].off = pos + n + Gap]
          /\ dirs' = [dirs EXCEPT ![fd] = Listed(@, OSDirents(pos, n), TRUE)]
          /\ UNCHANGED <<disk, umask, fail, os>>

fd_getdents(fd, count) ==
    /\ Call("getdents")
    /\ CASE ~get_file(fd) -> Fails("getdents", "EBADF")
         [] get_file(fd) /\ fds[fd].dfile # NULL -> Fails("getdents", "EINVAL")
         [] get_file(fd) /\ fds[fd].dfile = NULL /\ fds[fd].off < Gap -> OwnDirents(fd, count)
         [] OTHER -> IF IsDirectory(fd) THEN SystemDirents(fd) ELSE Fails("getdents", "OS")

\* Entries that do not fit into the program's buffer are a memory error.
getdentsOverflows(fd, count) ==
    /\ ~path.halted /\ path.left > 0 /\ "getdents" \in prog.calls
    /\ get_file(fd) /\ fds[fd].dfile = NULL /\ fds[fd].off < Gap
    /\ LET i == fds[fd].off \div DirentSize
       IN  i * DirentSize = fds[fd].off /\ i <= path.options.files
           /\ (path.options.files - i) * DirentSize >= count
    /\ Halt

----------------------------------------------------------------------------
(* Names and status.  The contents of struct stat are the model's disk.      *)

access(p)  == OnName("access", p, 0, "")
fd_stat(p) == OnName("stat", p, 0, "")
fd_lstat(p) == OnName("lstat", p, 0, "")
utimes(p)  == OnName("utimes", p, 0, "")
chdir(p)   == OnName("chdir", p, -1, "ENOENT")
fd_statfs(p) == OnName("statfs", p, -1, "ENOENT")
chown(p)   == OnName("chown", p, -1, "EPERM")
lchown(p)  == OnName("lchown", p, -1, "EPERM")
readlink(p) == IF get_sym_file(p) # NULL /\ disk[p].type # "LNK"
               THEN OnName("readlink", p, -1, "EINVAL") ELSE OnName("readlink", p, 5, "")

fd_fstat(fd) == OnFile("fstat", fd, 0, "")
fsync(fd)    == OnFile("fsync", fd, 0, "")
fchdir(fd)   == OnFile("fchdir", fd, -1, "ENOENT")
fchown(fd)   == OnFile("fchown", fd, -1, "EPERM")
fstatfs(fd)  == OnFile("fstatfs", fd, -1, "EBADF")

\* fstatat and futimesat: a simulated file is no directory to start from.
OnNameAt(f, base, p, answer) ==
    IF base # AT_FDCWD /\ (~get_file(base) \/ fds[base].dfile # NULL)
    THEN Call(f) /\ Fails(f, IF get_file(base) THEN "ENOENT" ELSE "EBADF")
    ELSE OnName(f, p, answer, "")
fstatat(base, p)   == OnNameAt("fstatat", base, p, 0)
futimesat(base, p) == OnNameAt("futimesat", base, p, 0)

fd_ftruncate(fd) ==
    /\ Call("ftruncate")
    /\ CASE ~get_file(fd) -> CountedError("ftruncate", "EBADF")
         [] get_file(fd) /\ FailsNow("ftruncate") -> InjectedError("ftruncate", "EIO")
         [] get_file(fd) /\ ~FailsNow("ftruncate") /\ fds[fd].dfile # NULL -> CountedError("ftruncate", "EIO")
         [] OTHER -> \E v \in {0, -1} : /\ Done("ftruncate", v) /\ fail' = Counted("ftruncate")
                                        /\ UNCHANGED <<fds, disk, umask, os, dirs>>

getcwd ==
    /\ Call("getcwd")
    /\ IF FailsNow("getcwd") THEN InjectedError("getcwd", "ERANGE")
       ELSE \E v \in {0, -1} : /\ Done("getcwd", v) /\ fail' = Counted("getcwd")
                               /\ UNCHANGED <<fds, disk, umask, os, dirs>>

SetUmask(mask) ==
    /\ Call("umask") /\ umask' = mask /\ Done("umask", 0)
    /\ UNCHANGED <<fds, disk, fail, os, dirs>>

\* __df_chmod.
df_chmod(f, df, mode) ==
    /\ fail' = Counted(f)
    /\ IF disk[df].own THEN Done(f, 0) /\ disk' = [disk EXCEPT ![df].mode = mode]
       ELSE Error(f, "EPERM") /\ UNCHANGED disk
    /\ UNCHANGED <<fds, umask, os, dirs>>
SysChmod(f) == \E v \in {0, -1} : Done(f, v) /\ fail' = Counted(f) /\ UNCHANGED <<fds, disk, umask, os, dirs>>

chmod(p, mode) ==
    /\ Call("chmod") /\ fail.left = 0
    /\ IF get_sym_file(p) # NULL THEN df_chmod("chmod", get_sym_file(p), mode) ELSE SysChmod("chmod")

fchmod(fd, mode) ==
    /\ Call("fchmod")
    /\ CASE ~get_file(fd) -> Fails("fchmod", "EBADF")
         [] get_file(fd) /\ fds[fd].dfile # NULL -> fail.left = 0 /\ df_chmod("fchmod", fds[fd].dfile, mode)
         [] OTHER -> fail.left = 0 /\ SysChmod("fchmod")

\* *chmod_fail and *fchmod_fail with the pointers never set.
chmodAborts(fd) ==
    /\ ~path.halted /\ path.left > 0 /\ fail.left > 0
    /\ "chmod" \in prog.calls \/ ("fchmod" \in prog.calls /\ get_file(fd))
    /\ Halt

Deleted(f, p) == /\ disk' = [disk EXCEPT ![p].st_ino = 0] /\ Done(f, 0)
                 /\ UNCHANGED <<fds, umask, fail, os, dirs>>

rmdir(p) ==
    /\ Call("rmdir")
    /\ CASE get_sym_file(p) = NULL -> Fails("rmdir", "EPERM")
         [] get_sym_file(p) # NULL /\ disk[p].type = "DIR" -> Deleted("rmdir", p)
         [] OTHER -> Fails("rmdir", "ENOTDIR")

unlink(p) ==
    /\ Call("unlink")
    /\ CASE get_sym_file(p) = NULL -> Fails("unlink", "EPERM")
         [] get_sym_file(p) # NULL /\ disk[p].type = "REG" -> Deleted("unlink", p)
         [] get_sym_file(p) # NULL /\ disk[p].type = "DIR" -> Fails("unlink", "EISDIR")
         [] OTHER -> Fails("unlink", "EPERM")

\* The descriptor and the flags are ignored.
unlinkat(p) == unlink(p)

\* Terminal requests are answered for character devices; TCSETSW asks for
\* descriptor 0 instead.
ioctl(fd, request) ==
    LET tty == IF request = "TCSETSW" THEN fd = 0 ELSE disk[fds[fd].dfile].type = "CHR"
    IN  /\ Call("ioctl")
        /\ CASE ~get_file(fd) -> Fails("ioctl", "EBADF")
             [] get_file(fd) /\ fds[fd].dfile = NULL -> Syscall("ioctl")
             [] OTHER -> CASE request \in {"MTIOCGET", "other"} -> Fails("ioctl", "EINVAL")
                           [] request \notin {"MTIOCGET", "other"} /\ ~tty -> Fails("ioctl", "ENOTTY")
                           [] request = "TIOCSWINSZ" /\ tty -> Fails("ioctl", "EINVAL")
                           [] OTHER -> Pure("ioctl", 0)

fcntl(fd, cmd, arg) ==
    /\ Call("fcntl")
    /\ CASE ~get_file(fd) -> Fails("fcntl", "EBADF")
         [] get_file(fd) /\ fds[fd].dfile = NULL -> Syscall("fcntl")
         [] OTHER -> CASE cmd = "F_GETFD" -> Pure("fcntl", IF "eCloseOnExec" \in fds[fd].flags THEN 1 ELSE 0)
                       [] cmd = "F_GETFL" -> Pure("fcntl", 0)
                       [] cmd = "F_SETFD" ->
                            /\ fds' = [fds EXCEPT ![fd].flags = (@ \ {"eCloseOnExec"}) \cup (IF arg = 1 THEN {"eCloseOnExec"} ELSE {})]
                            /\ Done("fcntl", 0) /\ UNCHANGED <<disk, umask, fail, os, dirs>>
                       [] OTHER -> Fails("fcntl", "EINVAL")

chroot(p) == Call("chroot") /\ (Fails("chroot", "ENOENT") \/ Pure("chroot", 0))

----------------------------------------------------------------------------
(* select.  in and ready give the descriptors of the three sets.             *)

AskedFor(in) == UNION {in[k] : k \in Sets}
SymAsked(in) == {fd \in AskedFor(in) : fds[fd].dfile # NULL}

\* The sets given to the operating system, by its numbers.
OSAsked(in, k) == {fds[fd].fd : fd \in {e \in in[k] : fds[e].dfile = NULL}}

\* Mutant: the system's numbers are taken for the program's.
TranslatedRaw(osReady, k) == {fd \in Fds : get_file(fd) /\ fds[fd].dfile = NULL /\ fd \in osReady[k]}

\* The answer for every open descriptor of the system.
Translated(osReady, k) == {fd \in Fds : get_file(fd) /\ fds[fd].dfile = NULL /\ fds[fd].fd \in osReady[k]}

Ready(in, nfds, osReady) ==
    [k \in Sets |-> {fd \in in[k] : fds[fd].dfile # NULL} \cup {fd \in Translated(osReady, k) : fd < nfds}]
Nothing == [k \in Sets |-> {}]

Selected(in, nfds, osReady, bits) ==
    Return("select", Cardinality(SymAsked(in)) + bits, "", [in |-> in, ready |-> Ready(in, nfds, osReady)])

select(in, nfds) ==
    /\ Call("select")
    /\ IF \E fd \in AskedFor(in) : ~get_file(fd) THEN Fails("select", "EBADF")
       ELSE /\ UNCHANGED env
            /\ IF \A k \in Sets : OSAsked(in, k) = {} THEN Selected(in, nfds, Nothing, 0)
               ELSE \/ IF SymAsked(in) = {} THEN Error("select", "OS") ELSE Selected(in, nfds, Nothing, 0)
                    \/ \E r \in SUBSET OSAsked(in, "read"), w \in SUBSET OSAsked(in, "write"),
                          x \in SUBSET OSAsked(in, "except") :
                          Selected(in, nfds, [k \in Sets |-> CASE k = "read" -> r [] k = "write" -> w [] OTHER -> x],
                                   Cardinality(r) + Cardinality(w) + Cardinality(x))

----------------------------------------------------------------------------
(* stubs.c and illegal.c: calls that are refused or do nothing.              *)

FileStubs   == [mkdir |-> "EIO", mkfifo |-> "EIO", mknod |-> "EIO", pipe |-> "ENFILE", link |-> "EPERM",
                symlink |-> "EPERM", rename |-> "EPERM"]
TimeStubs   == [utime |-> "EPERM", futimes |-> "EBADF"]
WaitStubs   == [wait |-> "ECHILD", wait3 |-> "ECHILD", wait4 |-> "ECHILD", waitpid |-> "ECHILD", waitid |-> "ECHILD"]
ProcessStubs == [fork |-> "ENOMEM", vfork |-> "ENOMEM", kill |-> "EPERM", exec |-> "EACCES", setjmp |-> ""]
SystemStubs == [mount |-> "EPERM", umount |-> "EPERM", swapon |-> "EPERM", swapoff |-> "EPERM", setgroups |-> "EPERM",
                sethostname |-> "EPERM", setpgid |-> "EPERM", setpgrp |-> "EPERM", setpriority |-> "EPERM",
                setresgid |-> "EPERM", setresuid |-> "EPERM", setrlimit |-> "EPERM", setsid |-> "EPERM",
                settimeofday |-> "EPERM", setgid |-> "", setuid |-> ""]
MemoryStubs == [reboot |-> "EPERM", mlock |-> "EPERM", munlock |-> "EPERM", pause |-> "EPERM",
                readahead |-> "EPERM", mmap |-> "EPERM", munmap |-> "EPERM"]

Stub(stubs) == \E f \in DOMAIN stubs : /\ Call("stub")
                                       /\ IF stubs[f] = "" THEN Pure(f, 0) ELSE Fails(f, stubs[f])

----------------------------------------------------------------------------
(* The run: the program makes any of its calls, with any of its arguments.   *)

Open    == \E p \in prog.names, i \in DOMAIN prog.opens :
              open(p, prog.opens[i].acc, prog.opens[i].flags, prog.opens[i].mode)
OpenAt  == \E base \in prog.fds \cup {AT_FDCWD}, p \in prog.names, i \in DOMAIN prog.opens :
              openat(base, p, prog.opens[i].acc, prog.opens[i].flags, prog.opens[i].mode)
Close   == \E fd \in prog.fds : close(fd)
Dup2    == \E old, new \in prog.fds : dup2(old, new)
Dup     == \E fd \in prog.fds : dup(fd)
Read    == \E fd \in prog.fds, n \in prog.counts, null \in BOOLEAN : read(fd, n, null)
Write   == \E fd \in prog.fds, i \in DOMAIN prog.bufs : write(fd, prog.bufs[i]) \/ writeAborts(fd, prog.bufs[i])
Seek    == \E fd \in prog.fds, i \in DOMAIN prog.seeks : fd_lseek(fd, prog.seeks[i].off, prog.seeks[i].whence)
GetDents == \E fd \in prog.fds, n \in prog.dirCounts : fd_getdents(fd, n) \/ getdentsOverflows(fd, n)
Truncate == \E fd \in prog.fds : fd_ftruncate(fd)
Umask   == \E mask \in SUBSET {"r", "w"} : SetUmask(mask)
Chmod   == \/ \E p \in prog.names, mode \in SUBSET {"r", "w"} : chmod(p, mode)
           \/ \E fd \in prog.fds, mode \in SUBSET {"r", "w"} : fchmod(fd, mode)
           \/ \E fd \in prog.fds : chmodAborts(fd)
Delete  == \E p \in prog.names : rmdir(p) \/ unlink(p) \/ unlinkat(p)
ByName  == \E p \in prog.names : \/ access(p) \/ fd_stat(p) \/ fd_lstat(p) \/ utimes(p) \/ chdir(p)
                                 \/ fd_statfs(p) \/ chown(p) \/ lchown(p) \/ readlink(p) \/ chroot(p)
ByNameAt == \E base \in prog.fds \cup {AT_FDCWD}, p \in prog.names : fstatat(base, p) \/ futimesat(base, p)
ByFile  == \E fd \in prog.fds : fd_fstat(fd) \/ fsync(fd) \/ fchdir(fd) \/ fchown(fd) \/ fstatfs(fd)
Ioctl   == \E fd \in prog.fds, request \in {"TCGETS", "TCSETSW", "TIOCSWINSZ", "FIONREAD", "MTIOCGET"} : ioctl(fd, request)
Fcntl   == \E fd \in prog.fds, cmd \in {"F_GETFD", "F_SETFD", "F_GETFL", "F_SETFL"}, arg \in {0, 1} : fcntl(fd, cmd, arg)
Select  == \E i \in DOMAIN prog.asks : select(prog.asks[i].in, prog.asks[i].nfds)
Stubs   == Stub(FileStubs) \/ Stub(TimeStubs) \/ Stub(WaitStubs) \/ Stub(ProcessStubs) \/ Stub(SystemStubs) \/ Stub(MemoryStubs)

Next == \/ Open \/ OpenAt \/ Close \/ Dup2 \/ Dup \/ Read \/ Write \/ Seek \/ GetDents \/ Truncate
        \/ Umask \/ Chmod \/ Delete \/ ByName \/ ByNameAt \/ ByFile \/ Ioctl \/ Fcntl \/ Select \/ Stubs
        \/ getcwd

Spec == Init /\ [][Next]_vars

----------------------------------------------------------------------------
(* Properties.                                                               *)

FileOf(fd)  == IF fds[fd].dfile = NULL THEN [sym |-> FALSE, id |-> os[fds[fd].fd]]
               ELSE [sym |-> TRUE, id |-> fds[fd].dfile]
Table       == [fd \in {e \in Fds : get_file(e)} |->
                   [file |-> FileOf(fd), pos |-> IF fds[fd].dfile = NULL THEN 0 ELSE fds[fd].off]]
Contents    == [d \in DOMAIN disk |-> disk[d].contents]
OF == INSTANCE OpenFiles WITH table <- Table, bytes <- Contents, result <- ret

\* Whatever the program opens, duplicates, closes, unlinks, reads, writes and
\* seeks, and whichever calls fail on request, the runtime implements the table
\* of open files: positions and bytes change as the results say, and every
\* descriptor names the file it was opened for although the runtime shares the
\* operating system's descriptors between duplicates (dup2) and never closes
\* them (close).
OpenFilesImplemented == OF!OpenSpec

FullListing == [k \in 1 .. path.options.files |-> k] \o OSEntries

\* A directory listed with buffers of at least Gap bytes gives every simulated
\* file and then every entry of the system's directory once, in that order,
\* also after seeking back to an offset that an entry reported (the offsets of
\* fd_getdents, which telldir and seekdir use and no two entries share), and
\* ends only when it is complete.
ListingExact ==
    \A fd \in Fds :
        get_file(fd) /\ IsDirectory(fd) /\ dirs[fd].exact =>
            /\ dirs[fd].listed = SubSeq(FullListing, 1, Len(dirs[fd].listed))
            /\ fds[fd].off >= Gap + Len(OSEntries) => dirs[fd].listed = FullListing
            /\ \A s, t \in dirs[fd].seen : s.off = t.off => s.listed = t.listed

\* select reports every simulated file it was asked about, and of the others
\* only descriptors that were asked about or share the system's descriptor of
\* one that was (the translation between the two numberings).
SelectSound ==
    ret.call = "select" /\ ret.val >= 0 =>
        \A k \in Sets : \A fd \in Fds :
            LET Shares(e) == ~FileOf(e).sym /\ ~FileOf(fd).sym /\ fds[e].fd = fds[fd].fd
            IN  /\ fd \in ret.data.in[k] /\ FileOf(fd).sym => fd \in ret.data.ready[k]
                /\ fd \in ret.data.ready[k] => fd \in ret.data.in[k] \/ \E e \in ret.data.in[k] : Shares(e)
=============================================================================
