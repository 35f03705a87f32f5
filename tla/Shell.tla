------------------------------- MODULE Shell -------------------------------
(***************************************************************************)
(* The user programs on the kernel: the shell (usr/progs/shell.c), which   *)
(* is the program of the main process, and the programs it starts: cat,    *)
(* wc, rm and touch.                                                       *)
(*                                                                         *)
(* The kernel is the module Process.  A program is a sequential caller of  *)
(* it: pc[t] names the system call a process is at, loc[t] holds its       *)
(* variables, and a step of a process is one step of one call, as Process  *)
(* defines it, followed by the branch the program takes on what the call   *)
(* returned.  The steps of different processes interleave in any order, as *)
(* the timer preempts U mode anywhere.                                     *)
(*                                                                         *)
(* A command line is a sequence of symbols: words, blanks and the three    *)
(* operators.  A word is a path in one of the forms the programs tell      *)
(* apart: name, /name, c/name or mp/name for another mount point mp.       *)
(***************************************************************************)
EXTENDS Integers, Sequences, FiniteSets, SequencesExt

CONSTANTS
    NTHR, NPROC, PROCESS_UIOMAX, ConsoleFds, Pipes, Handles, Files,
    Executables, Bytes, Bufs, Lens, capacity, KTFS_MAX_FILE_SIZE,
    AllocFaults, ArgvFaults, MaxSent, Valid, InitFiles, INITEXE, NULL,
    Lines,               \* the command lines the console may deliver
    Jobs,                \* the commands among them that are of the usual form
    MaxLines             \* bound: the lines read from the console

VARIABLES
    thr, proctab, uiotab, refcnt, pipe, file, fdata, image, call, a0, umem,
    halted, sent, rcvd,
    pc,        \* the call each process is at, "none" without a process
    loc,       \* the variables of the program of each process
    nlines,    \* the lines read so far
    before     \* history: the volume when the last line was read

kvars == <<thr, proctab, uiotab, refcnt, pipe, file, fdata, image, call, a0,
           umem, halted, sent, rcvd>>
vars  == <<kvars, pc, loc, nlines, before>>

K == INSTANCE Process

Tids     == K!Tids
MAIN_TID == K!MAIN_TID

\* shell.h and shell.c
STDIN      == 0
STDOUT     == 1
CONSOLEOUT == 2
PROGRAM_FD == 6
MAXARGS    == 8
FIN        == "<"
FOUT       == ">"
PIPE       == "|"

\* the characters wc and the shell tell apart
TAB == 9
NL  == 10
SPC == 32

-----------------------------------------------------------------------------
(* Command lines                                                           *)

Sym(k)       == [k |-> k, mp |-> "", fl |-> ""]
Word(mp, fl) == [k |-> "w", mp |-> mp, fl |-> fl]
Blank        == Sym(" ")
EmptyString  == Word("", "")

IsBlank(x) == x.k = " "

\* the smallest position from i on that holds no blank, Len(s) + 1 at the end
SkipBlanks(s, i) ==
    K!Least({j \in i .. Len(s) : ~IsBlank(s[j])} \cup {Len(s) + 1})

get_rid_of_white_space(s) == SubSeq(s, SkipBlanks(s, 1), Len(s))

get_rid_of_trailing_white_space(s) ==
    SubSeq(s, 1, SelectLastInSeq(s, LAMBDA x : ~IsBlank(x)))

\* the position of the character that ends the string at i: a string that
\* starts with an operator is empty and ends where it starts
find_terminator(s, i) == IF s[i].k = "w" THEN i + 1 ELSE i

\* the string command_parse cuts out at i
StringAt(s, i) == IF s[i].k = "w" THEN s[i] ELSE EmptyString

NoParse == [argv |-> <<>>, in_path |-> NULL, out_path |-> NULL]

\* the loop of command_parse with head at position h.  The terminator of a
\* string is overwritten with '\0' and the scan goes on behind it, whatever
\* it was.
RECURSIVE command_parse(_, _, _)
command_parse(s, h, r) ==
    LET head == SkipBlanks(s, h)
        name == SkipBlanks(s, head + 1)
        at   == IF s[head].k \in {FIN, FOUT} THEN name ELSE head
        end  == find_terminator(s, at)
        got  == CASE s[head].k = FIN  -> [r EXCEPT !.in_path = StringAt(s, at)]
                  [] s[head].k = FOUT -> [r EXCEPT !.out_path = StringAt(s, at)]
                  [] OTHER -> [r EXCEPT !.argv = Append(@, StringAt(s, at))]
    IN  CASE head > Len(s) -> r
          [] at > Len(s)   -> r
          [] end > Len(s) \/ Len(got.argv) >= MAXARGS -> got
          [] OTHER -> command_parse(s, end + 1, got)

\* the parts of a line main hands to run_pipeline, and the whole line when
\* it holds no '|'
PipePosition(cmd) == SelectInSeq(cmd, LAMBDA x : x.k = PIPE)

Trimmed(s) == get_rid_of_white_space(get_rid_of_trailing_white_space(s))

Left(cmd) ==
    IF PipePosition(cmd) = 0 THEN Trimmed(cmd)
    ELSE Trimmed(SubSeq(cmd, 1, PipePosition(cmd) - 1))

Right(cmd) == Trimmed(SubSeq(cmd, PipePosition(cmd) + 1, Len(cmd)))

\* what command_parse makes of the two parts of each line, computed once
Parsed ==
    [cmd \in {Trimmed(line) : line \in Lines} |->
        [left  |-> command_parse(Left(cmd), 1, NoParse),
         right |-> command_parse(Right(cmd), 1, NoParse)]]

ParsedLeft(cmd)  == Parsed[cmd].left
ParsedRight(cmd) == Parsed[cmd].right

-----------------------------------------------------------------------------
(* Paths                                                                   *)

InC(w) == [w EXCEPT !.mp = "c"]

\* a command without '/' is looked for in c
create_exec_path(cmd) == IF cmd.mp = "" THEN InC(cmd) ELSE cmd

\* /name and name are files of c; c/name and mp/name are left as they are
create_redirection_path(f) == IF f.mp \in {"/", ""} THEN InC(f) ELSE f

\* cat: NULL for the empty string and for "/", else as for a redirection
buildPath(input) ==
    IF input.fl = "" /\ input.mp \in {"", "/"} THEN NULL
    ELSE IF input.mp \in {"/", ""} THEN InC(input) ELSE input

\* rm and touch have the same function under their own names
fix_path(arg)  == buildPath(arg)
make_path(arg) == buildPath(arg)

\* parse_path and the mount table of the kernel: the file a path names on
\* the volume mounted as c, NULL for a path that names none: one without a
\* mount point ("name", "/name"), with an empty file name or of another mount
parse_path(w) ==
    IF w # NULL /\ w.mp = "c" /\ w.fl \in Files THEN w.fl ELSE NULL

-----------------------------------------------------------------------------
(* A process and the call it is at                                         *)

NoLoc ==
    [cmd |-> <<>>, argv |-> <<>>, input_fd |-> STDIN, output_fd |-> STDOUT,
     write_fd |-> -1, read_fd |-> -1, left_id |-> 0, right_id |-> 0,
     fd |-> STDIN, buf |-> <<>>,
     lines |-> 0, words |-> 0, bytes |-> 0, inword |-> FALSE]

Goto(t, next) ==
    /\ pc' = [pc EXCEPT ![t] = next[1]]
    /\ loc' = [loc EXCEPT ![t] = next[2]]

\* the call of this step has returned to U mode
Returned(t) == thr'[t] # NULL /\ thr'[t].state = "USER"

\* the process goes on at next when its call has returned and stays at the
\* call while it waits in it
Call(t, next) == IF Returned(t) THEN Goto(t, next) ELSE UNCHANGED <<pc, loc>>

\* a call whose result the program does not look at
Do(t, l, syscall, next) ==
    /\ pc[t] = l
    /\ syscall
    /\ Call(t, <<next, loc[t]>>)
    /\ UNCHANGED <<nlines, before>>

\* _fork: the child is a copy of its parent at the same instruction, where
\* fork_func returns 0 to it; the parent waits for that and returns the
\* child's id, or fails at once with no child
Fork(t, l, failed, child, parent) ==
    /\ pc[t] = l
    /\ K!SysFork(t) \/ K!ForkFunc(t) \/ K!Resume(t)
    /\ IF Returned(t)
       THEN Goto(t, CASE a0'.val < 0 -> failed
                      [] a0'.val = 0 -> child
                      [] OTHER      -> parent)
       ELSE /\ pc' = [pc EXCEPT ![call'[t].arg] = pc[t]]
            /\ loc' = [loc EXCEPT ![call'[t].arg] = loc[t]]
    /\ UNCHANGED <<nlines, before>>

\* _exit and every other end of a process
Exit(t, l, exit) ==
    /\ pc[t] = l
    /\ exit
    /\ Goto(t, <<"none", NoLoc>>)
    /\ UNCHANGED <<nlines, before>>

\* close(std); uiodup(fd, std); close(fd)
Redirect(t, l, fd, std, next) ==
    \/ Do(t, l, K!SysClose(t, std), l \o ".dup")
    \/ Do(t, l \o ".dup", K!SysUiodup(t, fd, std), l \o ".close")
    \/ Do(t, l \o ".close", K!SysClose(t, fd), next)

-----------------------------------------------------------------------------
(* cat                                                                     *)

\* main up to its first call
cat_start(argv) ==
    <<CASE Len(argv) <= 1             -> "cat.read"
        [] buildPath(argv[2]) = NULL  -> "cat.exit"
        [] OTHER                      -> "cat.open",
      [NoLoc EXCEPT !.argv = argv]>>

\* cursor += just_sent; remaining -= just_sent
cat_advance(L, just_sent) ==
    [L EXCEPT !.buf = SubSeq(@, just_sent + 1, Len(@))]

cat_main(t) ==
    LET L    == loc[t]
        stop == <<IF L.fd # STDIN THEN "cat.close" ELSE "cat.exit", L>>
    IN  \/ /\ pc[t] = "cat.open"
           /\ K!SysOpen(t, -1, parse_path(buildPath(L.argv[2])))
           /\ Call(t, IF a0'.val < 0 THEN <<"cat.exit", L>>
                      ELSE <<"cat.read", [L EXCEPT !.fd = a0'.val]>>)
           /\ UNCHANGED <<nlines, before>>
        \/ /\ pc[t] = "cat.read"
           /\ K!SysRead(t, L.fd, 128, 0) \/ K!Resume(t)
           /\ Call(t, IF a0'.val > 0
                      THEN <<"cat.write", [L EXCEPT !.buf = umem']>> ELSE stop)
           /\ UNCHANGED <<nlines, before>>
        \/ /\ pc[t] = "cat.write"
           /\ K!SysWrite(t, STDOUT, L.buf, 0) \/ K!Resume(t)
           /\ Call(t, CASE a0'.val <= 0         -> stop
                        [] a0'.val >= Len(L.buf) -> <<"cat.read", cat_advance(L, a0'.val)>>
                        [] OTHER                -> <<"cat.write", cat_advance(L, a0'.val)>>)
           /\ UNCHANGED <<nlines, before>>
        \/ Do(t, "cat.close", K!SysClose(t, L.fd), "cat.exit")
        \/ Exit(t, "cat.exit", K!SysExit(t))

-----------------------------------------------------------------------------
(* wc                                                                      *)

IsSpace(c) == c \in {SPC, NL, TAB}

\* the body of the loop over the bytes of a chunk
wc_count(L, c) ==
    [L EXCEPT !.lines  = @ + (IF c = NL THEN 1 ELSE 0),
              !.words  = @ + (IF IsSpace(c) /\ L.inword THEN 1 ELSE 0),
              !.inword = ~IsSpace(c)]

\* a word that goes on in the next chunk is counted at the end of this one
wc_count_per_chunk(L, chunk) ==
    LET C == FoldLeft(wc_count, [L EXCEPT !.bytes = @ + Len(chunk)], chunk)
    IN  [C EXCEPT !.words = @ + (IF C.inword THEN 1 ELSE 0), !.inword = FALSE]

wc_chunk(L, chunk) ==
    FoldLeft(wc_count, [L EXCEPT !.bytes = @ + Len(chunk)], chunk)

\* the digits of v, the most significant first
RECURSIVE Digits(_)
Digits(v) == IF v = 0 THEN <<>> ELSE Append(Digits(v \div 10), 48 + (v % 10))

putnum(v) == IF v = 0 THEN <<48>> ELSE Digits(v)

\* what main writes after the last read, one byte a call
wc_report(L) ==
    putnum(L.lines) \o <<TAB>>
        \o putnum(L.words + (IF L.inword THEN 1 ELSE 0)) \o <<TAB>>
        \o putnum(L.bytes) \o <<NL>>

\* "wc: cannot open\n"
CannotOpen == <<63, NL>>

wc_start(argv) ==
    <<IF Len(argv) > 1 THEN "wc.open" ELSE "wc.read", [NoLoc EXCEPT !.argv = argv]>>

wc_main(t) ==
    LET L == loc[t]
    IN  \/ /\ pc[t] = "wc.open"
           /\ K!SysOpen(t, -1, parse_path(L.argv[2]))
           /\ Call(t, IF a0'.val < 0 THEN <<"wc.cannot", L>>
                      ELSE <<"wc.read", [L EXCEPT !.fd = a0'.val]>>)
           /\ UNCHANGED <<nlines, before>>
        \/ Do(t, "wc.cannot", K!SysWrite(t, 1, CannotOpen, 0) \/ K!Resume(t),
              "wc.exit")
        \/ /\ pc[t] = "wc.read"
           /\ K!SysRead(t, L.fd, 512, 0) \/ K!Resume(t)
           /\ Call(t, IF a0'.val > 0 THEN <<"wc.read", wc_chunk(L, umem')>>
                      ELSE <<"wc.put", [L EXCEPT !.buf = wc_report(L)]>>)
           /\ UNCHANGED <<nlines, before>>
        \/ /\ pc[t] = "wc.put"
           /\ K!SysWrite(t, 1, <<Head(L.buf)>>, 0) \/ K!Resume(t)
           /\ Call(t, <<CASE Len(L.buf) > 1  -> "wc.put"
                          [] Len(L.argv) > 1 -> "wc.close"
                          [] OTHER           -> "wc.exit",
                        [L EXCEPT !.buf = Tail(@)]>>)
           /\ UNCHANGED <<nlines, before>>
        \/ Do(t, "wc.close", K!SysClose(t, L.fd), "wc.exit")
        \/ Exit(t, "wc.exit", K!SysExit(t))

-----------------------------------------------------------------------------
(* rm and touch                                                            *)

\* the arguments whose path the program hands to the kernel; for the others
\* it only reports
rm_operands(argv)    == SelectSeq(Tail(argv), LAMBDA a : fix_path(a) # NULL)
touch_operands(argv) == SelectSeq(Tail(argv), LAMBDA a : make_path(a) # NULL)

\* the rest of the loop over the arguments
NextOperand(L, l, exit) ==
    <<IF Len(L.argv) > 1 THEN l ELSE exit, [L EXCEPT !.argv = Tail(@)]>>

rm_start(argv) ==
    NextOperand([NoLoc EXCEPT !.argv = <<argv[1]>> \o rm_operands(argv)],
                "rm.delete", "rm.exit")

rm_main(t) ==
    \/ /\ pc[t] = "rm.delete"
       /\ K!SysFsDelete(t, parse_path(fix_path(Head(loc[t].argv))))
       /\ Call(t, NextOperand(loc[t], "rm.delete", "rm.exit"))
       /\ UNCHANGED <<nlines, before>>
    \/ Exit(t, "rm.exit", K!SysExit(t))

touch_start(argv) ==
    NextOperand([NoLoc EXCEPT !.argv = <<argv[1]>> \o touch_operands(argv)],
                "touch.create", "touch.exit")

touch_main(t) ==
    \/ /\ pc[t] = "touch.create"
       /\ K!SysFsCreate(t, parse_path(make_path(Head(loc[t].argv))))
       /\ Call(t, NextOperand(loc[t], "touch.create", "touch.exit"))
       /\ UNCHANGED <<nlines, before>>
    \/ Exit(t, "touch.exit", K!SysExit(t))

-----------------------------------------------------------------------------
(* The shell                                                               *)

\* process_exec enters the program at main
Start(prog, argv) ==
    CASE prog = "cat"   -> cat_start(argv)
      [] prog = "wc"    -> wc_start(argv)
      [] prog = "rm"    -> rm_start(argv)
      [] prog = "touch" -> touch_start(argv)
      [] OTHER          -> <<"main", NoLoc>>

\* run_single and run_pipeline return to the loop of main
Return(L) == <<"prompt", [NoLoc EXCEPT !.cmd = L.cmd]>>

\* argv with the path of the program in argv[0]
Argv(S) == <<create_exec_path(S.argv[1])>> \o Tail(S.argv)

Opened(path) == parse_path(create_redirection_path(path))

\* the end of every child of the shell: open the program at PROGRAM_FD,
\* _exec it, _exit when either fails.  A failed elf_load leaves the process
\* without a program.
ExecProgram(t, l) ==
    \/ /\ pc[t] = l
       /\ K!SysOpen(t, PROGRAM_FD, parse_path(loc[t].argv[1]))
       /\ Call(t, IF a0'.val < 0 THEN <<l \o ".exit", loc[t]>>
                  ELSE <<l \o ".exec", [loc[t] EXCEPT !.fd = a0'.val]>>)
       /\ UNCHANGED <<nlines, before>>
    \/ /\ pc[t] = l \o ".exec"
       /\ K!SysExec(t, loc[t].fd, 0)
       /\ Goto(t, CASE image'[t] = NULL -> <<"fault", NoLoc>>
                    [] a0'.val < 0      -> <<l \o ".exit", loc[t]>>
                    [] OTHER            -> Start(image'[t], loc[t].argv))
       /\ UNCHANGED <<nlines, before>>
    \/ Exit(t, l \o ".exit", K!SysExit(t))

\* the first call of run_single
SingleStart(cmd) ==
    LET S == ParsedLeft(cmd)
        L == [NoLoc EXCEPT !.cmd = cmd]
    IN  CASE S.argv = <<>>       -> Return(L)
          [] S.in_path # NULL    -> <<"single.open_in", L>>
          [] S.out_path # NULL   -> <<"single.fscreate", L>>
          [] OTHER               -> <<"single.fork", L>>

\* the parent waits for its child with the files of the command still open
single_parent_keeps_files(L) == "single.wait"

\* what the parent does after _fork
single_parent(L) ==
    CASE L.input_fd # STDIN   -> "single.close_in"
      [] L.output_fd # STDOUT -> "single.close_out"
      [] OTHER                -> "single.wait"

run_single(t) ==
    LET L == loc[t]
        S == ParsedLeft(L.cmd)
    IN  \/ /\ pc[t] = "single.open_in"
           /\ K!SysOpen(t, 3, Opened(S.in_path))
           /\ Call(t, CASE a0'.val < 0       -> Return(L)
                        [] S.out_path # NULL -> <<"single.fscreate", [L EXCEPT !.input_fd = a0'.val]>>
                        [] OTHER             -> <<"single.fork", [L EXCEPT !.input_fd = a0'.val]>>)
           /\ UNCHANGED <<nlines, before>>
        \/ Do(t, "single.fscreate", K!SysFsCreate(t, Opened(S.out_path)),
              "single.open_out")
        \/ /\ pc[t] = "single.open_out"
           /\ K!SysOpen(t, 4, Opened(S.out_path))
           /\ Call(t, CASE a0'.val >= 0       -> <<"single.fork", [L EXCEPT !.output_fd = a0'.val]>>
                        [] L.input_fd # STDIN -> <<"single.undo", L>>
                        [] OTHER              -> Return(L))
           /\ UNCHANGED <<nlines, before>>
        \/ /\ pc[t] = "single.undo"
           /\ K!SysClose(t, L.input_fd)
           /\ Goto(t, Return(L))
           /\ UNCHANGED <<nlines, before>>
        \/ Fork(t, "single.fork", Return(L),
                <<CASE L.input_fd # STDIN   -> "child.in"
                    [] L.output_fd # STDOUT -> "child.out"
                    [] OTHER                -> "child",
                  [L EXCEPT !.argv = Argv(S)]>>,
                <<single_parent(L), [L EXCEPT !.left_id = a0'.val]>>)
        \/ Do(t, "single.close_in", K!SysClose(t, L.input_fd),
              IF L.output_fd # STDOUT THEN "single.close_out" ELSE "single.wait")
        \/ Do(t, "single.close_out", K!SysClose(t, L.output_fd), "single.wait")
        \/ /\ pc[t] = "single.wait"
           /\ K!SysWait(t, L.left_id) \/ K!Resume(t)
           /\ Call(t, Return(L))
           /\ UNCHANGED <<nlines, before>>

\* the child of run_single
single_child(t) ==
    \/ Redirect(t, "child.in", loc[t].input_fd, STDIN,
                IF loc[t].output_fd # STDOUT THEN "child.out" ELSE "child")
    \/ Redirect(t, "child.out", loc[t].output_fd, STDOUT, "child")
    \/ ExecProgram(t, "child")

\* the first call of run_pipeline
PipelineStart(cmd) ==
    LET S == ParsedLeft(cmd)
        R == ParsedRight(cmd)
        L == [NoLoc EXCEPT !.cmd = cmd]
    IN  CASE Left(cmd) = <<>> \/ Right(cmd) = <<>>   -> Return(L)
          [] S.argv = <<>> \/ R.argv = <<>>         -> Return(L)
          [] S.out_path # NULL \/ R.in_path # NULL  -> Return(L)
          [] S.in_path # NULL                       -> <<"pipe.open_in", L>>
          [] OTHER                                  -> <<"pipe.pipe", L>>

\* the shell waits for the children with both ends of the pipe open
pipeline_waits_first(L) == "pipe.wait_left"

\* what the parent does after the second _fork
pipeline_parent(L) == "pipe.close_w"

run_pipeline(t) ==
    LET L == loc[t]
        S == ParsedLeft(L.cmd)
        R == ParsedRight(L.cmd)
    IN  \/ /\ pc[t] = "pipe.open_in"
           /\ K!SysOpen(t, 3, Opened(S.in_path))
           /\ Call(t, IF a0'.val < 0 THEN Return(L)
                      ELSE <<"pipe.pipe", [L EXCEPT !.input_fd = a0'.val]>>)
           /\ UNCHANGED <<nlines, before>>
        \/ /\ pc[t] = "pipe.pipe"
           /\ K!SysPipe(t, -1, -1)
           /\ Call(t, IF a0'.val < 0 THEN Return(L)
                      ELSE <<"pipe.fork_left", [L EXCEPT !.write_fd = umem'[1],
                                                         !.read_fd = umem'[2]]>>)
           /\ UNCHANGED <<nlines, before>>
        \/ Fork(t, "pipe.fork_left", Return(L),
                <<IF L.input_fd # STDIN THEN "left.in" ELSE "left.out",
                  [L EXCEPT !.argv = Argv(S)]>>,
                <<IF L.input_fd # STDIN THEN "pipe.close_in" ELSE "pipe.fork_right",
                  [L EXCEPT !.left_id = a0'.val]>>)
        \/ Do(t, "pipe.close_in", K!SysClose(t, L.input_fd), "pipe.fork_right")
        \/ Fork(t, "pipe.fork_right", Return(L),
                <<"right.in", [L EXCEPT !.argv = Argv(R)]>>,
                <<pipeline_parent(L), [L EXCEPT !.right_id = a0'.val]>>)
        \/ Do(t, "pipe.close_w", K!SysClose(t, L.write_fd), "pipe.close_r")
        \/ Do(t, "pipe.close_r", K!SysClose(t, L.read_fd), "pipe.wait_left")
        \/ Do(t, "pipe.wait_left", K!SysWait(t, L.left_id) \/ K!Resume(t),
              "pipe.wait_right")
        \/ /\ pc[t] = "pipe.wait_right"
           /\ K!SysWait(t, L.right_id) \/ K!Resume(t)
           /\ Call(t, Return(L))
           /\ UNCHANGED <<nlines, before>>

\* the child that runs the left command, its output the pipe
left_child(t) ==
    \/ Redirect(t, "left.in", loc[t].input_fd, STDIN, "left.out")
    \/ Redirect(t, "left.out", loc[t].write_fd, STDOUT, "left.close_r")
    \/ Do(t, "left.close_r", K!SysClose(t, loc[t].read_fd), "left")
    \/ ExecProgram(t, "left")

\* the child that runs the right command, its input the pipe
right_child(t) ==
    LET L == loc[t]
        R == ParsedRight(L.cmd)
    IN  \/ Do(t, "right.in", K!SysClose(t, STDIN), "right.dup")
        \/ Do(t, "right.dup", K!SysUiodup(t, L.read_fd, STDIN), "right.close_w")
        \/ Do(t, "right.close_w", K!SysClose(t, L.write_fd), "right.close_r")
        \/ Do(t, "right.close_r", K!SysClose(t, L.read_fd),
              IF R.out_path # NULL THEN "right.fscreate" ELSE "right")
        \/ Do(t, "right.fscreate", K!SysFsCreate(t, Opened(R.out_path)),
              "right.out")
        \/ Do(t, "right.out", K!SysClose(t, STDOUT), "right.open_out")
        \/ /\ pc[t] = "right.open_out"
           /\ K!SysOpen(t, STDOUT, Opened(R.out_path))
           /\ Call(t, <<IF a0'.val < 0 THEN "right.exit" ELSE "right", L>>)
           /\ UNCHANGED <<nlines, before>>
        \/ ExecProgram(t, "right")

\* what main does with a line
Dispatch(line) ==
    LET cmd == Trimmed(line)
    IN  CASE cmd = <<>>                  -> <<"prompt", NoLoc>>
          [] cmd = <<Word("", "exit")>>  -> <<"exit", NoLoc>>
          [] PipePosition(cmd) # 0       -> PipelineStart(cmd)
          [] OTHER                       -> SingleStart(cmd)

Dispatched == [line \in Lines |-> Dispatch(line)]

\* "dev/uart1": descriptor CONSOLEOUT is the console from run_init on, so the
\* call fails before the device is looked up
Uart1 == CHOOSE f \in Files : TRUE

\* what printf writes
Text == <<NL>>

main(t) ==
    \/ Do(t, "main", K!SysOpen(t, CONSOLEOUT, Uart1), "main.close0")
    \/ Do(t, "main.close0", K!SysClose(t, STDIN), "main.dup0")
    \/ Do(t, "main.dup0", K!SysUiodup(t, CONSOLEOUT, STDIN), "main.close1")
    \/ Do(t, "main.close1", K!SysClose(t, STDOUT), "main.dup1")
    \/ Do(t, "main.dup1", K!SysUiodup(t, CONSOLEOUT, STDOUT), "main.banner")
    \/ Do(t, "main.banner", K!SysWrite(t, STDOUT, Text, 0), "prompt")
    \/ Do(t, "prompt", K!SysWrite(t, STDOUT, Text, 0), "getsn")
    \/ /\ pc[t] = "getsn"
       /\ nlines < MaxLines
       /\ uiotab[t][STDIN] = K!CONSOLE
       /\ K!SysRead(t, STDIN, 1, 0)
       /\ umem' = <<NL>>
       /\ \E line \in Lines : Goto(t, Dispatched[line])
       /\ nlines' = nlines + 1
       /\ before' = fdata
    \/ Exit(t, "exit", K!SysExit(t))

\* the fault is taken and the process left as it is
fault_without_exit(t) ==
    /\ pc[t] = "fault"
    /\ Goto(t, <<"none", NoLoc>>)
    /\ UNCHANGED <<kvars, nlines, before>>

\* a process without a program takes an instruction page fault
handle_umode_exception(t) == Exit(t, "fault", K!Fatal(t))

-----------------------------------------------------------------------------

Init ==
    /\ K!Init
    /\ pc = [t \in Tids |-> IF t = MAIN_TID THEN "main" ELSE "none"]
    /\ loc = [t \in Tids |-> NoLoc]
    /\ nlines = 0
    /\ before = fdata

Step(t) ==
    \/ main(t) \/ run_single(t) \/ single_child(t)
    \/ run_pipeline(t) \/ left_child(t) \/ right_child(t)
    \/ cat_main(t) \/ wc_main(t) \/ rm_main(t) \/ touch_main(t)
    \/ handle_umode_exception(t)

Next == \E t \in Tids : Step(t)

Spec == Init /\ [][Next]_vars

\* some process that can run does
FairSpec == Spec /\ WF_vars(Next)

-----------------------------------------------------------------------------
(* Properties                                                              *)

Fd == -1 .. PROCESS_UIOMAX - 1

\* The variables of the programs hold what their C types and the kernel's
\* results allow, and a thread slot has a program counter exactly while a
\* process lives in it.
TypeOK ==
    /\ K!TypeOK
    /\ nlines \in 0 .. MaxLines
    /\ \A t \in Tids :
        /\ pc[t] \in STRING
        /\ pc[t] = "none" <=> \/ thr[t] = NULL
                              \/ thr[t].state \in {"EXITED", "IDLE"}
                              \/ halted
        /\ \A f \in {"input_fd", "output_fd", "write_fd", "read_fd", "fd"} :
             loc[t][f] \in Fd
        /\ {loc[t].left_id, loc[t].right_id} \subseteq Tids
        /\ loc[t].buf \in Seq(Bytes)
        /\ {loc[t].lines, loc[t].words, loc[t].bytes} \subseteq Nat

AtPrompt == pc[MAIN_TID] \in {"prompt", "getsn"}

\* Between two commands the shell is as it was before the first: its
\* descriptors are the console at 0, 1 and 2 and nothing else, and no
\* child, no pipe and no open file is left of the command.  run_single and
\* run_pipeline close what they opened on every path they return by, and
\* wait for every child they forked.
NothingLeftBehind ==
    AtPrompt =>
        /\ uiotab[MAIN_TID] = [fd \in K!Fds |->
              IF fd \in {STDIN, STDOUT, CONSOLEOUT} THEN K!CONSOLE ELSE NULL]
        /\ \A t \in Tids \ {MAIN_TID, K!IDLE_TID} : thr[t] = NULL
        /\ \A p \in Pipes : pipe[p] = NULL
        /\ \A h \in Handles : file[h] = NULL

\* A command of the usual form: a program, at most one file argument, and
\* the files its input and output are redirected to; NULL where there is none.
Command(prog, arg, in, out) == [prog |-> prog, arg |-> arg, in |-> in, out |-> out]

Optional(x, before_x) ==
    IF x = NULL THEN <<>> ELSE <<Blank>> \o before_x \o <<Word("", x)>>

\* the command as one types it, with blanks around the operators
Typed(c) ==
    <<Word("", c.prog)>> \o Optional(c.arg, <<>>)
        \o Optional(c.in, <<Sym(FIN), Blank>>)
        \o Optional(c.out, <<Sym(FOUT), Blank>>)

TypedJob(j) ==
    IF j.right = NULL THEN Typed(j.left)
    ELSE Typed(j.left) \o <<Blank, Sym(PIPE), Blank>> \o Typed(j.right)

\* what wc is to write for the bytes s
Counts(s) ==
    putnum(Cardinality({i \in 1 .. Len(s) : s[i] = NL})) \o <<TAB>>
        \o putnum(Cardinality({i \in 1 .. Len(s) :
                /\ ~IsSpace(s[i])
                /\ i = Len(s) \/ IsSpace(s[i + 1])})) \o <<TAB>>
        \o putnum(Len(s)) \o <<NL>>

\* the file a command reads, NULL when it reads its standard input
Source(c) == IF c.arg # NULL THEN c.arg ELSE c.in

\* what a command writes to its standard output on the volume F when its
\* standard input holds stdin
Output(c, stdin, F) ==
    LET input == IF Source(c) # NULL THEN F[Source(c)] ELSE stdin
    IN  IF c.prog = "cat" THEN input ELSE Counts(input)

\* the last command of a job, whose output may go to a file
LastCommand(j) == IF j.right = NULL THEN j.left ELSE j.right

\* the files of the job exist, none is read and written, and the first
\* command does not read the console
Defined(j, F) ==
    LET reads == {Source(c) : c \in {j.left, LastCommand(j)}} \ {NULL}
    IN  /\ Source(j.left) # NULL
        /\ \A f \in reads : F[f] # NULL
        /\ LastCommand(j).out \notin reads

\* the volume after the job: the output replaces the first bytes of the
\* file, which is created when it does not exist, and nothing else changes
Meaning(j, F) ==
    LET first == Output(j.left, <<>>, F)
        final == IF j.right = NULL THEN first ELSE Output(j.right, first, F)
        out   == LastCommand(j).out
        old   == IF F[out] = NULL THEN <<>> ELSE F[out]
    IN  IF out = NULL THEN F
        ELSE [F EXCEPT ![out] = final \o SubSeq(old, Len(final) + 1, Len(old))]

\* When the shell is back at its prompt, the command has had its effect and
\* no other: the file after '>' holds what the last program was to write,
\* computed from the file the first program read, and every other file is as
\* it was.  This is so whatever the order in which the shell and its two
\* children ran, however the pipe of capacity bytes cut the data into
\* chunks for pipe_read_endpoint and pipe_write_endpoint, and across the
\* loops of cat and wc over these chunks.
CommandsDeliver ==
    pc[MAIN_TID] = "prompt" =>
        \A j \in Jobs :
            loc[MAIN_TID].cmd = TypedJob(j) /\ Defined(j, before)
                => fdata = Meaning(j, before)

\* the command typed without blanks around its operators
Tight(c) == SelectSeq(Typed(c), LAMBDA x : ~IsBlank(x))

\* command_parse finds '<' and '>' wherever they stand in a command: blanks
\* around them change nothing ("break it into pieces and recognize < > as
\* input and output redirection", the comment above command_parse).
OperatorsRecognized ==
    \A j \in Jobs :
        j.left.arg = NULL =>
            command_parse(Tight(j.left), 1, NoParse)
                = command_parse(Typed(j.left), 1, NoParse)

\* Every command comes to an end: the shell is back at its prompt, or has
\* exited, however the processes are scheduled.  A pipeline ends only when
\* the reader sees the end of the data, which takes every descriptor of the
\* writing end, the shell's included, to be closed before the shell waits.
PromptReturns == []<>(halted \/ pc[MAIN_TID] = "getsn")

=============================================================================
