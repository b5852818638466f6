------------------------------ MODULE OpenFiles ------------------------------
(***************************************************************************)
(* What a program may rely on when it uses descriptors: a table of open    *)
(* files with positions, the bytes of the simulated files, and the result  *)
(* of the last call.  A position and a byte change only as the result of a *)
(* call tells the program, and a descriptor goes on naming the file it was *)
(* opened for.  Two things differ from POSIX on purpose: a duplicate has a *)
(* position of its own, and dup2 of a descriptor onto itself may close it. *)
(***************************************************************************)
EXTENDS Integers

CONSTANT Fds        \* descriptors, a set of integers

VARIABLES table,    \* open descriptor |-> [file |-> [sym, id], pos]
          bytes,    \* simulated file |-> its bytes, from 0
          result    \* of the last call: [call, on, val, errno, data]

openVars == <<table, bytes, result>>

Without(fd)  == [e \in DOMAIN table \ {fd} |-> table[e]]
With(fd, d)  == [e \in DOMAIN table \cup {fd} |-> IF e = fd THEN d ELSE table[e]]
Returns(call) == result'.call = call
ReturnsOn(call, fd) == Returns(call) /\ result'.on = fd

OpenInit == table \in [{0, 1, 2} -> [file : [sym : BOOLEAN, id : Int], pos : {0}]]

\* The lowest free descriptor names the file from its start.
Open(fd) ==
    /\ Returns("open") /\ result'.val = fd
    /\ fd \notin DOMAIN table /\ \A e \in Fds \ DOMAIN table : fd <= e
    /\ table' = With(fd, table'[fd]) /\ table'[fd].pos = 0
    /\ UNCHANGED bytes

Close(fd) ==
    /\ ReturnsOn("close", fd) /\ result'.val = 0
    /\ fd \in DOMAIN table /\ table' = Without(fd)
    /\ UNCHANGED bytes

\* The bytes returned are the file's, at the position, which moves past them.
Read(fd) ==
    LET d == table[fd]
        n == result'.val
    IN  /\ ReturnsOn("read", fd) /\ fd \in DOMAIN table /\ d.file.sym
        /\ n >= 0 /\ (n > 0 => d.pos + n - 1 \in DOMAIN bytes[d.file.id])
        /\ result'.data = [i \in 1 .. n |-> bytes[d.file.id][d.pos + i - 1]]
        /\ table' = With(fd, [d EXCEPT !.pos = d.pos + n])
        /\ UNCHANGED bytes

\* The file takes the bytes written as far as it reaches; the position moves
\* past all of them.
Write(fd) ==
    LET d == table[fd]
        n == result'.val
        Now(k) == IF k - d.pos \in 0 .. (n - 1) THEN result'.data[k - d.pos + 1] ELSE bytes[d.file.id][k]
    IN  /\ ReturnsOn("write", fd) /\ fd \in DOMAIN table /\ d.file.sym
        /\ n >= 0 /\ DOMAIN result'.data = 1 .. n
        /\ bytes' = [bytes EXCEPT ![d.file.id] = [k \in DOMAIN bytes[d.file.id] |-> Now(k)]]
        /\ table' = With(fd, [d EXCEPT !.pos = d.pos + n])

Seek(fd) ==
    LET d == table[fd] IN
    /\ ReturnsOn("lseek", fd) /\ fd \in DOMAIN table /\ d.file.sym /\ result'.val >= 0
    /\ table' = With(fd, [d EXCEPT !.pos = result'.val])
    /\ UNCHANGED bytes

Dup(old, new) ==
    /\ Returns("dup2") /\ result'.val = new
    /\ old \in DOMAIN table /\ new \in Fds
    /\ IF old # new THEN table' = With(new, table[old]) ELSE table' \in {table, Without(new)}
    /\ UNCHANGED bytes

\* Calls on files of the operating system, whose positions are not ours.
Transfer(fd) ==
    /\ \E call \in {"read", "write", "lseek"} : ReturnsOn(call, fd)
    /\ fd \in DOMAIN table /\ ~table[fd].file.sym
    /\ UNCHANGED <<table, bytes>>

\* A call that fails, an empty read, and every other call.
OtherCall ==
    /\ \/ result'.val = -1
       \/ Returns("read") /\ result'.val = 0
       \/ \A call \in {"open", "close", "read", "write", "lseek", "dup2"} : ~Returns(call)
    /\ UNCHANGED <<table, bytes>>

OpenNext ==
    \/ \E fd \in Fds : Open(fd) \/ Close(fd) \/ Read(fd) \/ Write(fd) \/ Seek(fd) \/ Transfer(fd)
    \/ \E old, new \in Fds : Dup(old, new)
    \/ OtherCall

OpenSpec == OpenInit /\ [][OpenNext]_openVars
=============================================================================
