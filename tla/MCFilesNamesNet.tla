-------------------------- MODULE MCFilesNamesNet --------------------------
\* Three components that share nothing, in one run: each moves while the others
\* are in their initial states.
EXTENDS Files, Names, Net

\* "." is the root's own entry: ece391fs_ls_test expects it first.
MCDentries == << [path |-> <<".">>, type |-> "dir", size |-> 0],
                 [path |-> <<"shell">>, type |-> "reg", size |-> 2] >>
Dir(p) == [path |-> p, type |-> "dir", target |-> Pathname(FALSE, <<>>), size |-> 0]
Reg(p, size) == [path |-> p, type |-> "reg", target |-> Pathname(FALSE, <<>>), size |-> size]
Sym(p, target) == [path |-> p, type |-> "sym", target |-> target, size |-> 0]
MCArchive == << Dir(<<"a">>), Dir(<<"a", "b">>), Reg(<<"a", "f">>, 3), Reg(<<"b">>, 0),
                Sym(<<"a", "b", "l">>, Pathname(FALSE, <<"..", "f">>)),
                Sym(<<"l">>, Pathname(TRUE, <<"a", "b">>)) >>
MCPathnames == {Pathname(abs, parts) : abs \in BOOLEAN,
                  parts \in SeqOf({"", "..", "a", "b", "l", "shell"}, 3)}
               \ {Pathname(FALSE, <<>>)}
MCCalled == {Pathname(FALSE, <<"a">>), Pathname(FALSE, <<"..">>), Pathname(FALSE, <<"b">>),
             Pathname(FALSE, <<"..", "f">>), Pathname(FALSE, <<"..", "..">>),
             Pathname(FALSE, <<"l">>), Pathname(TRUE, <<"shell">>)}

MCInit == FilesInit /\ NamesInit /\ NetInit
MCNext ==
  \/ NamesInit /\ NetInit /\ FilesNext /\ UNCHANGED <<namesvars, netvars>>
  \/ FilesInit /\ NetInit /\ NamesNext /\ UNCHANGED <<filesvars, netvars>>
  \/ FilesInit /\ NamesInit /\ NetNext /\ UNCHANGED <<filesvars, namesvars>>
MCSpec == MCInit /\ [][MCNext]_<<filesvars, namesvars, netvars>> /\ NetFairness

\* Each variable of the three modules keeps its type.
TypesOK == FilesTypeOK /\ NamesTypeOK /\ NetTypeOK
=============================================================================
