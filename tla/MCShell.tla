------------------------------ MODULE MCShell ------------------------------
(***************************************************************************)
(* Shell for TLC: the shell, two children and idle; one pipe of two bytes; *)
(* a volume with the programs and a file of one line.                      *)
(***************************************************************************)
EXTENDS Shell

W(fl) == Word("", fl)

\* one word, which the pipe of two bytes cuts in two
in == <<SPC, 97, 98, NL>>

MCFiles == {"shell", "cat", "wc", "rm", "touch", "in", "out", "new"}

MCExecutables == {"shell", "cat", "wc", "rm", "touch"}

MCInitFiles ==
    [f \in MCFiles |->
        CASE f \in MCExecutables -> <<NL>>
          [] f = "in"            -> in
          [] OTHER               -> NULL]

MCBytes == {TAB, NL, SPC, 63, 97, 98} \cup 48 .. 57

MCJobs ==
    {[left |-> Command("cat", "in", NULL, "out"), right |-> NULL],
     [left |-> Command("wc", NULL, "in", "out"), right |-> NULL],
     [left |-> Command("cat", NULL, "in", NULL),
      right |-> Command("wc", NULL, NULL, "out")],
     [left |-> Command("cat", "in", NULL, NULL),
      right |-> Command("cat", NULL, NULL, "new")]}

\* lines that are no jobs: exit, a program that does not exist, a file
\* that is no program, paths the kernel refuses, rm and touch
MCOther ==
    {<<W("exit")>>,
     <<W("new")>>,
     <<W("in")>>,
     <<W("wc"), Blank, W("in"), Blank, Sym(FOUT), Blank, W("out")>>,
     <<W("wc"), Blank, Word("c", "in")>>,
     <<W("cat"), Blank, Sym(FIN), Blank, W("in"), Blank, Sym(FOUT), Blank,
       Word("d", "out")>>,
     <<W("rm"), Blank, W("out"), Blank, W("new")>>,
     <<Blank, W("touch"), Blank, Word("/", "new"), Blank>>}

MCLines == {TypedJob(j) : j \in MCJobs} \cup MCOther

=============================================================================
