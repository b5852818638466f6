------------------------------- MODULE MCPosix -------------------------------
(* Programs that concentrate on one part of the runtime each.                *)
EXTENDS Posix

Opt(o, ints) == [opt |-> o, ints |-> ints]
How(a, f, m) == [acc |-> a, flags |-> f, mode |-> m]
Stat(t, m, o) == [type |-> t, mode |-> m, own |-> o]
To(o, w)     == [off |-> o, whence |-> w]
Ask(r, w, n) == [in |-> [k \in {"read", "write", "except"} |-> IF k = "read" THEN r ELSE IF k = "write" THEN w ELSE {}],
                 nfds |-> n]

Regular == Stat("REG", {"w"}, TRUE)

Base == [argv |-> <<Opt("sym-files", <<1, 2>>)>>, nArgs |-> {0}, stats |-> {Regular}, failAt |-> {0},
         calls |-> {}, depth |-> 1, ends |-> {1}, names |-> {1, 11}, fds |-> 0 .. 4,
         opens |-> <<How("O_RDONLY", {}, {})>>, bufs |-> <<>>, counts |-> {}, seeks |-> <<>>,
         dirCounts |-> {}, asks |-> <<>>]

\* The contents of a file of two bytes and of standard input and output.
Contents1 == [Base EXCEPT
    !.argv = <<Opt("sym-args", <<0, 1, 10>>), Opt("sym-files", <<1, 2>>), Opt("sym-stdin", <<1>>), Opt("sym-stdout", <<>>)>>,
    !.nArgs = {0, 1}, !.calls = {"open", "read", "write", "lseek", "dup2", "unlink"}, !.depth = 4,
    !.names = {1}, !.fds = {1, 3, 4}, !.counts = {0, 3}, !.bufs = <<<<1>>, <<2, 3, 4>>>>,
    !.opens = <<How("O_WRONLY", {"O_CREAT"}, {"w"})>>,
    !.seeks = <<To(1, "SEEK_SET"), To(-1, "SEEK_CUR"), To(1, "SEEK_END"), To(0, "other")>>]

\* The table of descriptors, full at five.
Table1 == [Base EXCEPT
    !.argv = <<Opt("sym-arg", <<1>>), Opt("sym-files", <<1, 2>>), Opt("other", <<>>)>>,
    !.calls = {"open", "openat", "close", "dup", "dup2", "fcntl"}, !.depth = 4, !.names = {1, 11}, !.fds = {0, 3, 4, 5}]

\* Injected failures, and reads and writes passed to the system.
Failures1 == [Base EXCEPT
    !.argv = <<Opt("sym-files", <<1, 2>>), Opt("max-fail", <<2>>)>>, !.failAt = {1, 2},
    !.calls = {"open", "close", "read", "write", "lseek", "ftruncate", "getcwd", "dup2", "fchmod"}, !.depth = 3,
    !.fds = {0, 1, 3}, !.counts = {2}, !.bufs = <<<<1, 2>>>>, !.seeks = <<To(1, "SEEK_SET"), To(1, "SEEK_CUR"), To(-1, "SEEK_END")>>]
SaveAll1 == [Base EXCEPT
    !.argv = <<Opt("sym-files", <<1, 2>>), Opt("save-all-writes", <<>>), Opt("fd-fail", <<>>)>>,
    !.calls = {"open", "write", "chmod"}, !.depth = 3, !.names = {1}, !.fds = {3}, !.bufs = <<<<1>>, <<1, 2, 3>>>>,
    !.opens = <<How("O_WRONLY", {}, {})>>]

\* A directory with two entries, and two simulated files.
Listing1 == [Base EXCEPT
    !.argv = <<Opt("sym-files", <<2, 1>>)>>, !.calls = {"open", "getdents", "lseek", "dup2", "unlink", "read"},
    !.depth = 5, !.names = {10}, !.fds = {3, 4}, !.dirCounts = {4, 6, 8}, !.counts = {2},
    !.seeks = <<To(0, "SEEK_SET"), To(2, "SEEK_SET"), To(4, "SEEK_SET"), To(9, "SEEK_SET"), To(0, "SEEK_CUR")>>]

\* select on simulated files and on the system's, some of them duplicates.
Select1 == [Base EXCEPT !.calls = {"open", "dup", "dup2", "select"}, !.depth = 4, !.fds = {1, 3}, !.names = {1, 11},
    !.argv = <<Opt("sym-files", <<1, 1>>), Opt("sym-stdout", <<>>)>>,
    !.asks = <<Ask({3}, {1}, 5), Ask({3, 4}, {4}, 5), Ask({}, {1}, 2), Ask({0}, {2}, 5)>>]

\* Names, modes and status, for every kind of file.
Status1 == [Base EXCEPT
    !.stats = {Stat(t, m, o) : t \in {"REG", "DIR", "LNK", "CHR"}, m \in SUBSET {"r", "w"}, o \in BOOLEAN},
    !.calls = {"open", "umask", "chmod", "fchmod", "rmdir", "unlink", "access", "stat", "lstat", "utimes", "chdir",
               "statfs", "chown", "lchown", "readlink", "chroot", "fstatat", "futimesat", "fstat", "fsync", "fchdir",
               "fchown", "fstatfs", "ioctl", "fcntl", "stub", "getdents", "ftruncate", "openat"},
    !.depth = 2, !.fds = {0, 3}, !.dirCounts = {8},
    !.opens = <<How("O_RDWR", {}, {}), How("O_RDONLY", {"O_CREAT", "O_EXCL"}, {}), How("O_WRONLY", {"O_EXCL"}, {}),
                How("O_WRONLY", {"O_CREAT"}, {"r", "w"})>>]

\* A command line that is refused.
Refused1 == [Base EXCEPT !.argv = <<Opt("sym-files", <<1, 2>>), Opt("sym-files", <<1, 2>>)>>]

MCOSEntries == <<21, 22>>
MCPrograms == <<Contents1, Table1, Failures1, SaveAll1, Listing1, Select1, Status1, Refused1>>
=============================================================================
